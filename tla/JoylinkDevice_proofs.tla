----------------------- MODULE JoylinkDevice_proofs -----------------------
(***************************************************************************)
(* Proofs that the safety properties of the Joylink device hold for every  *)
(* set of setups, devices, senders and messages, every number of slots and *)
(* rows and every bound: its keys, its connection, its slots of message    *)
(* parts and its table of sub-devices, each by an invariant of its own.    *)
(***************************************************************************)
EXTENDS JoylinkDevice, NatFacts

-----------------------------------------------------------------------------
(* The keys: RAM, flash, and the save under way between them. *)

\* The fields of a key that are saved one by one.
FieldNames == {"feedid", "accesskey", "localkey", "server"}

\* The keys are numbers of bindings made so far.
KeysTyped ==
  /\ used \in Nat \ {0}
  /\ jlp \in [FieldNames -> 0..used] /\ flash \in [FieldNames -> 0..used]
  /\ acked.keys \in 0..used

\* While a save is under way RAM holds one binding, the last, and what is no longer
\* to be stored is in flash; or it was emptied and the server alone is stored.
SaveUnderWay ==
  saving # <<>> =>
    \/ /\ jlp = Keys(used) /\ acked.keys < used
       /\ \/ saving = Saves
          \/ saving = <<"accesskey", "localkey", "server", "reply">> /\ flash.feedid = used
          \/ saving = <<"localkey", "server", "reply">>
             /\ flash.feedid = used /\ flash.accesskey = used
          \/ saving = <<"server", "reply">>
             /\ flash.feedid = used /\ flash.accesskey = used /\ flash.localkey = used
          \/ saving = <<"reply">> /\ flash = Keys(used)
    \/ /\ jlp = [Keys(0) EXCEPT !.server = jlp.server]
       /\ saving \in {<<"server", "reply">>, <<"reply">>}

\* Beyond what KeysDurable says, RAM keeps the server of the acknowledged keys: it is
\* what a packet that does not parse stores again.
AckedKept ==
  acked.keys # 0 /\ ~acked.refused /\ acked.keys = used =>
    flash = Keys(used) /\ jlp.server = used

\* The inductive invariant of the keys.
KeyInv == KeysTyped /\ SaveUnderWay /\ AckedKept /\ KeysDurable

\* A device that was never bound, or was bound before.
LEMMA KeysInit == DeviceInit => KeyInv
BY DEF DeviceInit, KeyInv, KeysTyped, SaveUnderWay, AckedKept, KeysDurable, Keys, FieldNames

\* What the save does not touch keeps it, also when the keys of a sub-device are counted.
LEMMA KeysUntouched ==
  ASSUME KeyInv, UNCHANGED keyVars, used' \in Nat, used' >= used,
         saving # <<>> => used' = used
  PROVE  KeyInv'
<1>1. KeysTyped'
  BY DEF KeyInv, KeysTyped, keyVars
<1>2. SaveUnderWay'
  BY DEF KeyInv, SaveUnderWay, keyVars
<1>3. AckedKept' /\ KeysDurable'
  BY DEF KeyInv, KeysTyped, AckedKept, KeysDurable, keyVars
<1> QED
  BY <1>1, <1>2, <1>3 DEF KeyInv

\* New keys are taken into RAM, and their save begins.
LEMMA KeysWritten == KeyInv /\ WriteKey => KeyInv'
<1> SUFFICES ASSUME KeyInv, WriteKey PROVE KeyInv'
  OBVIOUS
<1> USE DEF KeyInv, WriteKey, KeysTyped, FieldNames
<1>1. KeysTyped'
  BY DEF Keys
<1>2. SaveUnderWay'
  BY DEF SaveUnderWay, Keys
<1>3. AckedKept'
  BY DEF AckedKept, Keys
<1>4. KeysDurable'
  BY DEF KeysDurable, Keys, AckedKept
<1> QED
  BY <1>1, <1>2, <1>3, <1>4

\* One field is stored; those before it are.
LEMMA KeysStored == KeyInv /\ SaveStep => KeyInv'
<1> SUFFICES ASSUME KeyInv, SaveStep PROVE KeyInv'
  OBVIOUS
<1> USE DEF KeyInv, KeysTyped, FieldNames
<1>0. /\ flash' = [flash EXCEPT ![Head(saving)] = jlp[Head(saving)]]
      /\ saving' = Tail(saving) /\ saving # <<>> /\ Head(saving) # "reply"
      /\ jlp' = jlp /\ used' = used /\ acked' = acked
  BY DEF SaveStep
<1>1. CASE jlp = Keys(used) /\ acked.keys < used
  <2>1. AckedKept'
    BY <1>0, <1>1 DEF AckedKept
  <2>2. CASE saving = Saves
    <3>1. flash' = [flash EXCEPT !["feedid"] = used]
          /\ saving' = <<"accesskey", "localkey", "server", "reply">>
      BY <1>0, <1>1, <2>2 DEF Saves, Keys
    <3>2. flash'.feedid = used /\ flash'.accesskey = flash.accesskey
          /\ flash'.localkey = flash.localkey /\ flash' \in [FieldNames -> 0..used]
      BY <3>1
    <3>3. KeysTyped' /\ KeysDurable'
      BY <1>0, <1>1, <3>2 DEF KeysDurable
    <3>4. SaveUnderWay'
      BY <1>0, <1>1, <3>1, <3>2 DEF SaveUnderWay
    <3> QED
      BY <2>1, <3>3, <3>4
  <2>3. CASE /\ saving = <<"accesskey", "localkey", "server", "reply">>
             /\ flash.feedid = used
    <3>1. flash' = [flash EXCEPT !["accesskey"] = used]
          /\ saving' = <<"localkey", "server", "reply">>
      BY <1>0, <1>1, <2>3 DEF Keys
    <3> QED
      BY <1>0, <1>1, <2>1, <2>3, <3>1 DEF SaveUnderWay, KeysDurable
  <2>4. CASE /\ saving = <<"localkey", "server", "reply">>
             /\ flash.feedid = used /\ flash.accesskey = used
    <3>1. flash' = [flash EXCEPT !["localkey"] = used] /\ saving' = <<"server", "reply">>
      BY <1>0, <1>1, <2>4 DEF Keys
    <3> QED
      BY <1>0, <1>1, <2>1, <2>4, <3>1 DEF SaveUnderWay, KeysDurable
  <2>5. CASE /\ saving = <<"server", "reply">>
             /\ flash.feedid = used /\ flash.accesskey = used /\ flash.localkey = used
    <3>1. flash' = [flash EXCEPT !["server"] = used] /\ saving' = <<"reply">>
      BY <1>0, <1>1, <2>5 DEF Keys
    <3>2. flash' = Keys(used)
      BY <2>5, <3>1 DEF Keys
    <3> QED
      BY <1>0, <1>1, <2>1, <2>5, <3>1, <3>2 DEF SaveUnderWay, KeysDurable
  <2>6. saving # <<"reply">>
    BY <1>0
  <2>7. jlp.feedid = used /\ [Keys(0) EXCEPT !.server = jlp.server].feedid = 0
    BY <1>1 DEF Keys
  <2> QED
    BY <1>0, <2>2, <2>3, <2>4, <2>5, <2>6, <2>7 DEF SaveUnderWay
<1>2. CASE /\ jlp = [Keys(0) EXCEPT !.server = jlp.server]
           /\ saving \in {<<"server", "reply">>, <<"reply">>}
  <2>1. flash' = [flash EXCEPT !["server"] = jlp.server] /\ saving' = <<"reply">>
    <3>1. saving # <<"reply">>
      BY <1>0
    <3>2. saving = <<"server", "reply">>
      BY <1>2, <3>1
    <3> QED
      BY <1>0, <3>2
  <2>2. KeysTyped' /\ SaveUnderWay'
    BY <1>0, <1>2, <2>1 DEF SaveUnderWay
  <2>3. AckedKept'
    <3>1. flash = Keys(used) /\ jlp.server = used => flash' = flash
      BY <2>1 DEF Keys
    <3> QED
      BY <1>0, <3>1 DEF AckedKept
  <2> QED
    BY <1>0, <2>1, <2>2, <2>3 DEF KeysDurable, AckedKept
<1> QED
  BY <1>0, <1>1, <1>2 DEF SaveUnderWay

\* The reply is sent when nothing is left to store, or after a refusal.
LEMMA KeysReplied == KeyInv /\ (SaveRefused \/ WriteKeyReply) => KeyInv'
<1> SUFFICES ASSUME KeyInv, SaveRefused \/ WriteKeyReply PROVE KeyInv'
  OBVIOUS
<1> USE DEF KeyInv, KeysTyped, FieldNames
<1>1. /\ saving' = <<>> /\ UNCHANGED <<jlp, flash, used>>
      /\ acked'.keys = jlp.feedid /\ (acked'.refused \/ saving = <<"reply">>)
  BY DEF SaveRefused, WriteKeyReply
<1>2. KeysTyped' /\ SaveUnderWay'
  BY <1>1 DEF SaveUnderWay
<1>3. CASE acked'.refused
  BY <1>1, <1>2, <1>3 DEF AckedKept, KeysDurable
<1>4. CASE saving = <<"reply">>
  <2>1. jlp.feedid = 0 \/ (jlp = Keys(used) /\ flash = Keys(used))
    BY <1>4 DEF SaveUnderWay, Saves, Keys
  <2> QED
    BY <1>1, <1>2, <2>1 DEF AckedKept, KeysDurable, Keys
<1> QED
  BY <1>1, <1>3, <1>4

\* A restart takes what is stored.
LEMMA KeysLoaded == KeyInv /\ Restart => KeyInv'
BY DEF KeyInv, Restart, KeysTyped, FieldNames, SaveUnderWay, AckedKept, KeysDurable, Keys

\* No other step touches the keys.
LEMMA KeysStep == KeyInv /\ [DeviceNext]_deviceVars => KeyInv'
<1> SUFFICES ASSUME KeyInv, [DeviceNext]_deviceVars PROVE KeyInv'
  OBVIOUS
<1>1. CASE ConnectTurn \/ AuthTurn \/ WorkTurn \/ AuthRead \/ HbRead \/ CtrlRead
           \/ BrokenRead \/ CloseRead \/ CloudCtrl \/ LinkLost \/ LanCtrl \/ LanPart
           \/ LanSubAdd \/ BecomeCalm \/ UNCHANGED deviceVars
  <2>1. UNCHANGED <<keyVars, used>>
    BY <1>1 DEF ConnectTurn, AuthTurn, WorkTurn, AuthRead, HbRead, CtrlRead, BrokenRead,
         CloseRead, CloudCtrl, LinkLost, LanCtrl, LanPart, LanSubAdd, BecomeCalm,
         deviceVars, keyVars
  <2> QED
    BY <2>1, KeysUntouched DEF KeyInv, KeysTyped
<1>2. CASE LanSubAuth
  BY <1>2, KeysUntouched DEF KeyInv, KeysTyped, LanSubAuth, Lan
<1>3. CASE WriteKey
  BY <1>3, KeysWritten
<1>4. CASE SaveStep
  BY <1>4, KeysStored
<1>5. CASE SaveRefused \/ WriteKeyReply
  BY <1>5, KeysReplied
<1>6. CASE Restart
  BY <1>6, KeysLoaded
<1> QED
  BY <1>1, <1>2, <1>3, <1>4, <1>5, <1>6 DEF DeviceNext

\* The keys are typed, and what is stored of them is what the save under way left,
\* always.
THEOREM KeyInvariance == DeviceSpec => []KeyInv
BY KeysInit, KeysStep, PTL DEF DeviceSpec

\* Keys whose reply was sent survive crashes between any two stores and every restart,
\* until newer ones are written.
THEOREM KeysSurvive == DeviceSpec => []KeysDurable
<1>1. KeyInv => KeysDurable
  BY DEF KeyInv
<1> QED
  BY <1>1, KeyInvariance, PTL

-----------------------------------------------------------------------------
(* The connection. *)

\* The types of the other end of a connection, and of the answers on their way.
Peer == [link : {"none", "up", "dead", "closed"}, at : Nat, authed : BOOLEAN]
Packet == [type : {"auth", "hb", "ctrl"}, accesskey : Nat]

\* An authentication is answered in the inbox only by a cloud that accepted it.
Answered(box, authed) ==
  box \in Seq(Packet) /\ \A k \in 1..Len(box) : box[k].type = "auth" => authed

\* The cloud has answered an authentication whenever its answer is under way or its
\* key is held.
NetInv ==
  /\ server_st \in {"INIT", "AUTH", "WORK"} /\ hb_lost_count \in Nat
  /\ Answered(inbox, cloud.authed)
  /\ cloud \in Peer
  /\ OneConnection
  /\ session = "this" => cloud.authed
  /\ server_st = "WORK" => session = "this"

\* Without a cloud, or before it is asked, nothing is answered.
LEMMA NothingAnswered == Answered(<<>>, FALSE)
<1>1. <<>> \in Seq(Packet) /\ \A k \in 1..Len(<<>>) : FALSE
  OBVIOUS
<1> QED
  BY <1>1, Zenon DEF Answered

\* There is no cloud before the first connect, and it knows no device on a new one.
LEMMA PeerAtFirst ==
  /\ NoCloud \in Peer /\ NoCloud.authed = FALSE
  /\ \A n \in Nat : LET c == [link |-> "up", at |-> n, authed |-> FALSE]
                    IN  c \in Peer /\ c.authed = FALSE
BY DEF NoCloud, Peer

\* A device that has just started has no socket.
LEMMA NetInit == DeviceInit => NetInv
<1> SUFFICES ASSUME DeviceInit PROVE NetInv
  OBVIOUS
<1>1. cloud \in Peer /\ cloud.authed = FALSE /\ Answered(inbox, cloud.authed)
  BY NothingAnswered, PeerAtFirst DEF DeviceInit
<1> QED
  BY <1>1, DeviceAssumption DEF DeviceInit, NetInv, OneConnection

\* Steps of the keys and of the LAN leave the connection alone.
LEMMA NetUntouched == NetInv /\ UNCHANGED netVars => NetInv'
BY DEF NetInv, OneConnection, netVars

\* What is read from the inbox was in it, the rest stays.
LEMMA InboxRead ==
  ASSUME NEW box, NEW authed \in BOOLEAN, Answered(box, authed), box # <<>>
  PROVE  Answered(Tail(box), authed) /\ (Head(box).type = "auth" => authed)
<1>1. box \in Seq(Packet) /\ Len(box) \in Nat /\ Len(box) >= 1
  BY DEF Answered
<1>2. Head(box) = box[1]
  BY <1>1
<1>3. Tail(box) \in Seq(Packet) /\ Len(Tail(box)) = Len(box) - 1
  BY <1>1
<1>4. \A k \in 1..Len(Tail(box)) : Tail(box)[k] = box[k + 1] /\ k + 1 \in 1..Len(box)
  BY <1>1, <1>3
<1> QED
  BY <1>1, <1>2, <1>3, <1>4 DEF Answered

\* What is added to the inbox comes to its end.
LEMMA InboxAdd ==
  ASSUME NEW box, NEW authed \in BOOLEAN, Answered(box, authed), NEW packet \in Packet,
         packet.type = "auth" => authed
  PROVE  Answered(Append(box, packet), authed)
<1>1. box \in Seq(Packet) /\ Len(box) \in Nat
  BY DEF Answered
<1>2. Append(box, packet) \in Seq(Packet) /\ Len(Append(box, packet)) = Len(box) + 1
  BY <1>1
<1>3. \A k \in 1..Len(box) : Append(box, packet)[k] = box[k]
  BY <1>1
<1>4. Append(box, packet)[Len(box) + 1] = packet
  BY <1>1
<1>5. \A k \in 1..(Len(box) + 1) : k = Len(box) + 1 \/ k \in 1..Len(box)
  BY <1>1
<1> QED
  BY <1>1, <1>2, <1>3, <1>4, <1>5 DEF Answered

\* A cloud that accepts an authentication may send any packet.
LEMMA InboxAccepted ==
  ASSUME NEW box, NEW authed \in BOOLEAN, Answered(box, authed),
         NEW after \in BOOLEAN, after
  PROVE  Answered(box, after)
BY Zenon DEF Answered

\* A connect opens the socket it goes to AUTH with, or none.
LEMMA NetConnect == KeyInv /\ NetInv /\ ConnectTurn => NetInv'
<1> SUFFICES ASSUME KeyInv, NetInv, ConnectTurn PROVE NetInv'
  OBVIOUS
<1>1. StillOpen = 0
  BY DEF NetInv, OneConnection, ConnectTurn, StillOpen, TimedOut
<1>2. session' # "this" /\ inbox' = <<>>
  BY DEF ConnectTurn
<1>3. \/ NewSocket("INIT", NoSocket, IF TimedOut THEN 0 ELSE hb_lost_count, 0, NoCloud)
      \/ NewSocket("INIT", Fd, 0, 0, NoCloud)
      \/ NewSocket("AUTH", Fd, 0, 1, [link |-> "up", at |-> jlp.server, authed |-> FALSE])
  BY <1>1 DEF ConnectTurn
<1>4. jlp.server \in Nat
  BY DEF KeyInv, KeysTyped, FieldNames
<1>5. cloud' \in Peer /\ cloud'.authed = FALSE
  BY <1>3, <1>4, PeerAtFirst DEF NewSocket
<1>6. Answered(inbox', cloud'.authed)
  BY <1>2, <1>5, NothingAnswered
<1>7. /\ server_st' \in {"INIT", "AUTH", "WORK"} /\ hb_lost_count' \in Nat
      /\ OneConnection' /\ server_st' # "WORK"
  BY <1>3, DeviceAssumption DEF NetInv, OneConnection, NewSocket
<1> QED
  BY <1>2, <1>5, <1>6, <1>7 DEF NetInv

\* The turns of the timer, the reads and the cloud.
LEMMA NetStep == KeyInv /\ NetInv /\ [DeviceNext]_deviceVars => NetInv'
<1> SUFFICES ASSUME KeyInv, NetInv, [DeviceNext]_deviceVars PROVE NetInv'
  OBVIOUS
<1>1. CASE WriteKey \/ SaveStep \/ SaveRefused \/ WriteKeyReply \/ LanCtrl \/ LanPart
           \/ LanSubAdd \/ LanSubAuth \/ BecomeCalm \/ UNCHANGED deviceVars
  <2>1. UNCHANGED netVars
    BY <1>1 DEF WriteKey, SaveStep, SaveRefused, WriteKeyReply, LanCtrl, LanPart,
         LanSubAdd, LanSubAuth, BecomeCalm, deviceVars, netVars
  <2> QED
    BY <2>1, NetUntouched
<1>2. CASE ConnectTurn
  BY <1>2, NetConnect
<1>3. CASE AuthTurn
  <2>1. hb_lost_count' = hb_lost_count + 1 /\ hb_lost_count <= MaxLost
    BY <1>3, DeviceAssumption DEF NetInv, AuthTurn, TimedOut
  <2>2. UNCHANGED <<server_st, server_socket, session, open>>
    BY <1>3 DEF AuthTurn
  <2>3. CASE cloud.link = "up" /\ jlp.feedid = cloud.at /\ jlp.accesskey = cloud.at
    <3>1. /\ cloud' = [cloud EXCEPT !.authed = TRUE]
          /\ inbox' = Append(inbox, [type |-> "auth", accesskey |-> jlp.accesskey])
      BY <1>3, <2>3 DEF AuthTurn
    <3>2. cloud' \in Peer /\ cloud'.authed
      BY <3>1 DEF NetInv, Peer
    <3>3. jlp.accesskey \in Nat
      BY DEF KeyInv, KeysTyped, FieldNames
    <3>4. Answered(inbox', cloud'.authed)
      <4>1. [type |-> "auth", accesskey |-> jlp.accesskey] \in Packet
        BY <3>3 DEF Packet
      <4>2. cloud'.authed \in BOOLEAN /\ cloud'.authed
        BY <3>2 DEF Peer
      <4>3. Answered(inbox, cloud'.authed)
        BY <4>2, InboxAccepted DEF NetInv, Peer
      <4> QED
        BY <3>1, <4>1, <4>2, <4>3, InboxAdd
    <3>5. OneConnection' /\ hb_lost_count' \in Nat
      BY <2>1, <2>2, DeviceAssumption DEF NetInv, OneConnection
    <3> QED
      BY <2>2, <3>2, <3>4, <3>5 DEF NetInv
  <2>4. CASE UNCHANGED <<cloud, inbox>>
    BY <2>1, <2>2, <2>4, DeviceAssumption DEF NetInv, OneConnection
  <2> QED
    BY <1>3, <2>3, <2>4 DEF AuthTurn
<1>4. CASE WorkTurn
  <2>1. hb_lost_count' = hb_lost_count + 1 /\ hb_lost_count <= MaxLost
    BY <1>4, DeviceAssumption DEF NetInv, WorkTurn, TimedOut
  <2>2. UNCHANGED <<server_st, server_socket, session, open, cloud>>
    BY <1>4 DEF WorkTurn
  <2>3. inbox' = inbox \/ inbox' = Append(inbox, [type |-> "hb", accesskey |-> 0])
    BY <1>4 DEF WorkTurn
  <2>4. Answered(inbox', cloud'.authed)
    <3>1. [type |-> "hb", accesskey |-> 0] \in Packet
      BY DEF Packet
    <3>2. Answered(inbox, cloud.authed) /\ cloud.authed \in BOOLEAN
      BY DEF NetInv, Peer
    <3>3. Answered(Append(inbox, [type |-> "hb", accesskey |-> 0]), cloud.authed)
      BY <3>1, <3>2, InboxAdd
    <3> QED
      BY <2>2, <2>3, <3>2, <3>3
  <2> QED
    BY <2>1, <2>2, <2>4, DeviceAssumption DEF NetInv, OneConnection
<1>5. CASE AuthRead
  <2>1. server_st # "INIT" /\ inbox # <<>> /\ Head(inbox).type = "auth" /\ inbox' = Tail(inbox)
    BY <1>5 DEF AuthRead, Readable
  <2>2. UNCHANGED <<server_socket, hb_lost_count, open, cloud>>
    BY <1>5 DEF AuthRead
  <2>3. cloud.authed /\ Answered(inbox', cloud'.authed)
    BY <2>1, <2>2, InboxRead DEF NetInv, Peer
  <2>4. \/ session' = "this" /\ server_st' = "WORK"
        \/ UNCHANGED <<session, server_st>>
    BY <1>5 DEF AuthRead
  <2> QED
    BY <2>1, <2>2, <2>3, <2>4 DEF NetInv, OneConnection
<1>6. CASE HbRead
  <2>1. session = "this" /\ server_st # "INIT" /\ inbox # <<>>
    BY <1>6 DEF HbRead, Readable, Decrypts
  <2>2. inbox' = Tail(inbox) /\ server_st' = "WORK" /\ hb_lost_count' = 0
        /\ UNCHANGED <<server_socket, session, open, cloud>>
    BY <1>6 DEF HbRead
  <2>3. Answered(inbox', cloud'.authed)
    BY <2>1, <2>2, InboxRead DEF NetInv, Peer
  <2> QED
    BY <2>1, <2>2, <2>3, DeviceAssumption DEF NetInv, OneConnection
<1>7. CASE CtrlRead \/ BrokenRead
  <2>1. inbox # <<>> /\ inbox' = Tail(inbox)
        /\ UNCHANGED <<server_st, hb_lost_count, server_socket, session, open, cloud>>
    BY <1>7 DEF CtrlRead, BrokenRead, Readable
  <2>2. Answered(inbox', cloud'.authed)
    BY <2>1, InboxRead DEF NetInv, Peer
  <2> QED
    BY <2>1, <2>2 DEF NetInv, OneConnection
<1>8. CASE CloseRead
  <2>1. cloud' \in Peer /\ cloud'.authed = FALSE
    BY <1>8, PeerAtFirst DEF CloseRead
  <2>2. Answered(inbox', cloud'.authed)
    BY <1>8, <2>1, NothingAnswered DEF CloseRead
  <2> QED
    BY <1>8, <2>1, <2>2 DEF CloseRead, NetInv, OneConnection
<1>9. CASE CloudCtrl
  <2>1. inbox' = Append(inbox, [type |-> "ctrl", accesskey |-> 0])
        /\ UNCHANGED <<server_st, server_socket, hb_lost_count, session, open, cloud>>
    BY <1>9 DEF CloudCtrl
  <2>2. Answered(inbox', cloud'.authed)
    BY <2>1, InboxAdd DEF NetInv, Packet, Peer
  <2> QED
    BY <2>1, <2>2 DEF NetInv, OneConnection
<1>10. CASE LinkLost
  <2>1. /\ UNCHANGED <<server_st, server_socket, hb_lost_count, session, open, inbox>>
        /\ \E link \in {"dead", "closed"} : cloud' = [cloud EXCEPT !.link = link]
    BY <1>10 DEF LinkLost
  <2>2. cloud' \in Peer /\ cloud'.authed = cloud.authed
    BY <2>1 DEF NetInv, Peer
  <2> QED
    BY <2>1, <2>2 DEF NetInv, OneConnection
<1>11. CASE Restart
  <2>1. cloud' \in Peer /\ cloud'.authed = FALSE
    BY <1>11, PeerAtFirst DEF Restart
  <2>2. Answered(inbox', cloud'.authed)
    BY <1>11, <2>1, NothingAnswered DEF Restart
  <2> QED
    BY <1>11, <2>1, <2>2, DeviceAssumption DEF Restart, NetInv, OneConnection
<1> QED
  BY <1>1, <1>2, <1>3, <1>4, <1>5, <1>6, <1>7, <1>8, <1>9, <1>10, <1>11 DEF DeviceNext

\* Connection and state of the session belong together, always.
THEOREM NetInvariance == DeviceSpec => []NetInv
BY NetInit, NetStep, KeyInvariance, PTL DEF DeviceSpec

\* However time-outs, closed connections and failed connects follow each other, a socket
\* is open exactly in AUTH and WORK, and the loop knows its number.
THEOREM SocketNotLost == DeviceSpec => []OneConnection
<1>1. NetInv => OneConnection
  BY DEF NetInv
<1> QED
  BY <1>1, NetInvariance, PTL

\* However late answers are read, the device works only with the session key the cloud
\* gave it on this connection.
THEOREM WorkAuthenticated == DeviceSpec => []WorkMeansSession
<1>1. NetInv => WorkMeansSession
  BY DEF NetInv, WorkMeansSession
<1> QED
  BY <1>1, NetInvariance, PTL

-----------------------------------------------------------------------------
(* The slots of messages in several packets. *)

\* The types of a part, and of a slot.
Node == [id : 1..Parts, data : Senders \X MessageIds \X (1..Parts)]
Slot == [is_run : BOOLEAN, name : Senders \cup {0}, id : MessageIds \cup {0}, total : Nat,
         current_count : Nat, list : Seq(Node)]

\* What a slot in use lists is of its message.
SlotOk(slot) ==
  /\ slot \in Slot
  /\ slot.is_run => \A k \in 1..Len(slot.list) :
       slot.list[k].data = <<slot.name, slot.id, slot.list[k].id>>

\* Slots in use belong to different messages, and hold parts of theirs.
Apart(t) ==
  /\ DOMAIN t = 1..Slots /\ \A i \in 1..Slots : SlotOk(t[i])
  /\ \A i, k \in 1..Slots :
       t[i].is_run /\ t[k].is_run /\ t[i].name = t[k].name /\ t[i].id = t[k].id => i = k

\* The invariant is about the table alone.
PartsInv == Apart(jps)

\* The first of a set of slots is one of them.
LEMMA FirstIn ==
  ASSUME NEW S \in SUBSET (1..Slots), S # {}
  PROVE  First(S) \in S
<1>1. S \in SUBSET Nat
  BY JoinAssumption
<1>2. \E x \in S : \A y \in S : x <= y
  BY <1>1, Least
<1> QED
  BY <1>2 DEF First

\* The empty table.
LEMMA PartsNone == Apart(NoParts)
<1>1. Idle \in Slot /\ ~Idle.is_run
  BY DEF Idle, Slot
<1>2. \A i \in 1..Slots : NoParts[i] = Idle
  BY DEF NoParts
<1>3. DOMAIN NoParts = 1..Slots
  BY DEF NoParts
<1> QED
  BY <1>1, <1>2, <1>3 DEF Apart, SlotOk

\* One more part of its message in a slot.
LEMMA NodeAdded ==
  ASSUME NEW slot, SlotOk(slot), slot.is_run, slot.name \in Senders, slot.id \in MessageIds,
         NEW index \in 1..Parts
  PROVE  SlotOk([slot EXCEPT !.list =
                   NodeAdd(@, index, <<slot.name, slot.id, index>>)])
<1> DEFINE node == [id |-> index, data |-> <<slot.name, slot.id, index>>]
           list == Append(slot.list, node)
           after == [slot EXCEPT !.list = list]
<1>1. node \in Node /\ node.data = <<slot.name, slot.id, node.id>>
  BY DEF Node
<1>2. slot.list \in Seq(Node) /\ Len(slot.list) \in Nat
  BY DEF SlotOk, Slot
<1> HIDE DEF node
<1>3. list \in Seq(Node) /\ Len(list) = Len(slot.list) + 1
      /\ list[Len(slot.list) + 1] = node /\ \A k \in 1..Len(slot.list) : list[k] = slot.list[k]
  BY <1>1, <1>2
<1>4. \A k \in 1..(Len(slot.list) + 1) : k = Len(slot.list) + 1 \/ k \in 1..Len(slot.list)
  BY <1>2
<1>5. \A k \in 1..Len(list) : list[k].data = <<slot.name, slot.id, list[k].id>>
  BY <1>1, <1>3, <1>4 DEF SlotOk
<1> HIDE DEF list
<1>6. after \in Slot /\ after.list = list /\ after.name = slot.name /\ after.id = slot.id
  BY <1>3 DEF SlotOk, Slot
<1>7. SlotOk(after)
  BY <1>5, <1>6 DEF SlotOk
<1> QED
  BY <1>7 DEF NodeAdd, list, node

\* The first part of a message in a slot that was idle.
LEMMA NodeNew ==
  ASSUME NEW slot, SlotOk(slot), NEW name \in Senders, NEW id \in MessageIds,
         NEW index \in 1..Parts
  PROVE  LET after == NewNode(slot, name, id, [total |-> Parts, index |-> index],
                              <<name, id, index>>)
         IN  SlotOk(after) /\ after.is_run /\ after.name = name /\ after.id = id
<1> DEFINE node == [id |-> index, data |-> <<name, id, index>>]
           list == Append(<<>>, node)
           after == [is_run |-> TRUE, name |-> name, id |-> id, total |-> Parts,
                     current_count |-> slot.current_count, list |-> list]
<1>1. node \in Node /\ node.data = <<name, id, node.id>>
  BY DEF Node
<1> HIDE DEF node
<1>2. list \in Seq(Node) /\ Len(list) = 1 /\ list[1] = node
  BY <1>1
<1> HIDE DEF list
<1>3. after \in Slot /\ after.is_run /\ after.list = list /\ after.name = name /\ after.id = id
  <2>1. Parts \in Nat /\ name \in Senders \cup {0} /\ id \in MessageIds \cup {0}
    BY DeviceAssumption
  <2>2. slot.current_count \in Nat
    BY DEF SlotOk, Slot
  <2> QED
    BY <1>2, <2>1, <2>2 DEF Slot
<1>4. SlotOk(after)
  <2> HIDE DEF after
  <2>1. after.list = list /\ after.name = name /\ after.id = id /\ after \in Slot
    BY <1>3
  <2>2. \A k \in 1..Len(list) : k = 1
    BY <1>2
  <2>3. \A k \in 1..Len(list) : list[k].data = <<name, id, list[k].id>>
    BY <1>1, <1>2, <2>2
  <2> QED
    BY <2>1, <2>3 DEF SlotOk
<1>5. NewNode(slot, name, id, [total |-> Parts, index |-> index], <<name, id, index>>) = after
  BY DEF NewNode, NodeAdd, list, node
<1> QED
  BY <1>3, <1>4, <1>5

\* A part goes to the slot of its message, or to an idle one if there is any.
LEMMA PartAdded ==
  ASSUME NEW t, Apart(t), NEW name \in Senders, NEW id \in MessageIds, NEW index \in 1..Parts
  PROVE  Apart(AddData(t, name, id, [total |-> Parts, index |-> index],
                       <<name, id, index>>).jps)
<1> DEFINE head == [total |-> Parts, index |-> index]
           data == <<name, id, index>>
           r == AddData(t, name, id, head, data)
           known == SlotsOf(t, name, id)
           free == IdleSlots(t)
<1>1. CASE known # {}
  <2>1. PICK i \in known : i = First(known)
    BY <1>1, FirstIn DEF SlotsOf
  <2>2. i \in 1..Slots /\ t[i].is_run /\ t[i].name = name /\ t[i].id = id
    BY <2>1 DEF SlotsOf
  <2> DEFINE after == [t[i] EXCEPT !.list = NodeAdd(@, index, data)]
  <2>3. SlotOk(after)
    BY <2>2, NodeAdded DEF Apart
  <2>4. after.is_run /\ after.name = name /\ after.id = id
    BY <2>2 DEF Apart, SlotOk, Slot
  <2>5. r.jps = [t EXCEPT ![i] = after]
    BY <1>1, <2>1 DEF AddData
  <2> HIDE DEF after, r
  <2>6. DOMAIN r.jps = 1..Slots /\ r.jps[i] = after
        /\ \A k \in 1..Slots : k # i => r.jps[k] = t[k]
    BY <2>2, <2>5 DEF Apart
  <2>7. \A k \in 1..Slots : SlotOk(r.jps[k])
    BY <2>2, <2>3, <2>6 DEF Apart
  <2>8. \A k, l \in 1..Slots :
          r.jps[k].is_run /\ r.jps[l].is_run /\ r.jps[k].name = r.jps[l].name
            /\ r.jps[k].id = r.jps[l].id => k = l
    <3>1. \A k \in 1..Slots : k # i /\ r.jps[k].is_run =>
            ~ (r.jps[k].name = name /\ r.jps[k].id = id)
      BY <2>2, <2>4, <2>6 DEF Apart
    <3>2. \A k, l \in 1..Slots : k # i /\ l # i /\ r.jps[k].is_run /\ r.jps[l].is_run
            /\ r.jps[k].name = r.jps[l].name /\ r.jps[k].id = r.jps[l].id => k = l
      BY <2>6 DEF Apart
    <3> QED
      BY <2>2, <2>3, <2>4, <2>6, <3>1, <3>2
  <2> QED
    BY <2>6, <2>7, <2>8 DEF Apart, r
<1>2. CASE known = {} /\ free # {}
  <2>1. PICK i \in free : i = First(free)
    BY <1>2, FirstIn DEF IdleSlots
  <2>2. i \in 1..Slots
    BY <2>1 DEF IdleSlots
  <2> DEFINE after == NewNode(t[i], name, id, head, data)
  <2>3. SlotOk(after) /\ after.is_run /\ after.name = name /\ after.id = id
    BY <2>2, NodeNew DEF Apart
  <2>4. \A k \in 1..Slots : ~ (t[k].is_run /\ t[k].name = name /\ t[k].id = id)
    BY <1>2 DEF SlotsOf
  <2>5. r.jps = [t EXCEPT ![i] = after]
    BY <1>2, <2>1 DEF AddData
  <2> HIDE DEF after, r
  <2>6. DOMAIN r.jps = 1..Slots /\ r.jps[i] = after
        /\ \A k \in 1..Slots : k # i => r.jps[k] = t[k]
    BY <2>2, <2>5 DEF Apart
  <2>7. \A k \in 1..Slots : SlotOk(r.jps[k])
    BY <2>2, <2>3, <2>6 DEF Apart
  <2>8. \A k, l \in 1..Slots :
          r.jps[k].is_run /\ r.jps[l].is_run /\ r.jps[k].name = r.jps[l].name
            /\ r.jps[k].id = r.jps[l].id => k = l
    <3>1. \A k \in 1..Slots : k # i /\ r.jps[k].is_run =>
            ~ (r.jps[k].name = name /\ r.jps[k].id = id)
      BY <2>2, <2>4, <2>6 DEF Apart
    <3>2. \A k, l \in 1..Slots : k # i /\ l # i /\ r.jps[k].is_run /\ r.jps[l].is_run
            /\ r.jps[k].name = r.jps[l].name /\ r.jps[k].id = r.jps[l].id => k = l
      BY <2>6 DEF Apart
    <3> QED
      BY <2>2, <2>3, <2>4, <2>6, <3>1, <3>2
  <2> QED
    BY <2>6, <2>7, <2>8 DEF Apart, r
<1>3. CASE known = {} /\ free = {}
  BY <1>3 DEF AddData
<1> QED
  BY <1>1, <1>2, <1>3

\* The table is empty at the start.
LEMMA PartsInit == DeviceInit => PartsInv
BY PartsNone DEF DeviceInit, PartsInv

\* Only a part that arrives changes it.
LEMMA PartsStep == PartsInv /\ [DeviceNext]_deviceVars => PartsInv'
<1> SUFFICES ASSUME PartsInv, [DeviceNext]_deviceVars PROVE PartsInv'
  OBVIOUS
<1>1. CASE LanPart
  <2>1. PICK from \in Senders, id \in MessageIds, index \in 1..Parts :
          jps' = AddData(jps, from, id, [total |-> Parts, index |-> index],
                         <<from, id, index>>).jps
    BY <1>1 DEF LanPart
  <2> QED
    BY <2>1, PartAdded DEF PartsInv
<1>2. CASE Restart
  BY <1>2, PartsNone DEF Restart, PartsInv
<1>3. CASE DeviceNext /\ ~LanPart /\ ~Restart
  <2>1. UNCHANGED jps
    BY <1>3 DEF DeviceNext, ConnectTurn, AuthTurn, WorkTurn, AuthRead, HbRead, CtrlRead,
         BrokenRead, CloseRead, CloudCtrl, LinkLost, WriteKey, SaveStep, SaveRefused,
         WriteKeyReply, LanCtrl, LanSubAdd, LanSubAuth, BecomeCalm, lanVars
  <2> QED
    BY <2>1 DEF PartsInv
<1>4. CASE UNCHANGED deviceVars
  BY <1>4 DEF PartsInv, deviceVars
<1> QED
  BY <1>1, <1>2, <1>3, <1>4

\* In whatever order and however often parts arrive, a slot holds parts of one message,
\* and no message has two slots.
THEOREM PartsKeptApart == DeviceSpec => []PartsApart
<1>1. PartsInv => PartsApart
  <2>1. ASSUME PartsInv, NEW i \in 1..Slots, jps[i].is_run
        PROVE  /\ SlotsOf(jps, jps[i].name, jps[i].id) = {i}
               /\ DOMAIN jps[i].list = 1..Len(jps[i].list)
               /\ \A k \in 1..Len(jps[i].list) :
                    jps[i].list[k].data = <<jps[i].name, jps[i].id, jps[i].list[k].id>>
    <3>1. SlotsOf(jps, jps[i].name, jps[i].id) = {i}
      BY <2>1 DEF PartsInv, Apart, SlotsOf
    <3>2. SlotOk(jps[i])
      BY <2>1 DEF PartsInv, Apart
    <3> QED
      BY <2>1, <3>1, <3>2 DEF SlotOk, Slot
  <2> QED
    BY <2>1 DEF PartsApart
<1> QED
  BY <1>1, PartsInit, PartsStep, PTL DEF DeviceSpec

-----------------------------------------------------------------------------
(* The table of sub-devices of a gateway. *)

\* The rows of the table of sub-devices.
RowNumbers == 0..(Rows - 1)

\* Rows behind the tail are empty; the keys of a device told are in all its rows but
\* those added since, and in no row of another device.  The keys 1 are compiled in.
SubsInv ==
  /\ used \in Nat \ {0}
  /\ DOMAIN subs.rows = RowNumbers /\ subs.tail \in RowNumbers
  /\ \A i \in RowNumbers : /\ subs.rows[i].keys \in 0..used
                           /\ i > subs.tail => subs.rows[i] = EmptyRow
  /\ told \in [SubDevices -> 0..used]
  /\ \A d \in SubDevices : told[d] # 0 =>
       /\ told[d] # BuiltinKeys
       /\ \E i \in RowNumbers : subs.rows[i].keys = told[d]
       /\ \A i \in RowNumbers : /\ subs.rows[i].keys = told[d] => subs.rows[i].dev = d
                                /\ subs.rows[i].dev = d => subs.rows[i].keys \in {0, told[d]}

\* The table a gateway starts with has one row, with the keys compiled in.
LEMMA TableAtFirst ==
  /\ FirstTable.tail = 0 /\ DOMAIN FirstTable.rows = RowNumbers
  /\ \A i \in RowNumbers : /\ FirstTable.rows[i].keys \in {0, 1}
                           /\ i > 0 => FirstTable.rows[i] = EmptyRow
BY SubsAssumption DEF FirstTable, RowNumbers, EmptyRow, BuiltinKeys

\* With it nothing was told yet.
LEMMA SubsFirst ==
  ASSUME used \in Nat \ {0}, subs = FirstTable, told = [d \in SubDevices |-> 0]
  PROVE  SubsInv
<1>1. 0 \in RowNumbers
  BY SubsAssumption DEF RowNumbers
<1> QED
  BY <1>1, TableAtFirst DEF SubsInv, RowNumbers

\* A device appended has no keys yet, and its row was empty: no row is lost.
LEMMA SubsAdded ==
  ASSUME SubsInv, NEW d \in SubDevices, subs' = SubAdd(subs, d), UNCHANGED <<used, told>>
  PROVE  SubsInv'
<1>1. CASE ~ (subs.tail + 1 < Rows)
  BY <1>1 DEF SubsInv, SubAdd
<1>2. CASE subs.tail + 1 < Rows
  <2> DEFINE n == subs.tail + 1
             row == [EmptyRow EXCEPT !.dev = d]
  <2>1. row.dev = d /\ row.keys = 0 /\ EmptyRow.keys = 0 /\ EmptyRow.dev = NoDevice
    BY DEF EmptyRow
  <2>2. n \in RowNumbers /\ n > subs.tail
    BY <1>2, SubsAssumption DEF SubsInv, RowNumbers
  <2>3. subs'.rows = [subs.rows EXCEPT ![n] = row] /\ subs'.tail = n
    BY <1>2 DEF SubAdd
  <2> HIDE DEF row
  <2>4. DOMAIN subs'.rows = RowNumbers /\ subs'.rows[n] = row
        /\ \A i \in RowNumbers : i # n => subs'.rows[i] = subs.rows[i]
    BY <2>2, <2>3 DEF SubsInv
  <2>5. \A i \in RowNumbers : /\ subs'.rows[i].keys \in 0..used
                              /\ i > n => subs'.rows[i] = EmptyRow
    BY <2>1, <2>2, <2>3, <2>4, SubsAssumption DEF SubsInv, RowNumbers
  <2>6. ASSUME NEW e \in SubDevices, told[e] # 0
        PROVE  /\ told[e] # BuiltinKeys
               /\ \E i \in RowNumbers : subs'.rows[i].keys = told[e]
               /\ \A i \in RowNumbers :
                    /\ subs'.rows[i].keys = told[e] => subs'.rows[i].dev = e
                    /\ subs'.rows[i].dev = e => subs'.rows[i].keys \in {0, told[e]}
    <3>1. subs.rows[n].keys = 0
      BY <2>1, <2>2 DEF SubsInv
    <3>2. \A i \in RowNumbers : subs.rows[i].keys = told[e] => subs'.rows[i] = subs.rows[i]
      BY <2>4, <2>6, <3>1
    <3>3. \E i \in RowNumbers : subs'.rows[i].keys = told[e]
      BY <2>6, <3>2 DEF SubsInv
    <3> QED
      BY <2>1, <2>4, <2>6, <3>3 DEF SubsInv
  <2> QED
    BY <2>2, <2>3, <2>4, <2>5, <2>6 DEF SubsInv
<1> QED
  BY <1>1, <1>2

\* Keys of a binding not made before go to every row of the device, and to no other.
LEMMA SubsKeyed ==
  ASSUME SubsInv, NEW d \in SubDevices, used' = used + 1,
         subs' = UpdateKeys(subs, d, used + 1),
         told' = IF \E i \in DOMAIN subs.rows : subs.rows[i].dev = d
                 THEN [told EXCEPT ![d] = used + 1] ELSE told
  PROVE  SubsInv'
<1>1. /\ subs'.tail = subs.tail /\ DOMAIN subs'.rows = RowNumbers
      /\ \A i \in RowNumbers :
           subs'.rows[i] = IF subs.rows[i].dev = d
                           THEN [dev |-> d, keys |-> used + 1, state |-> "CONFD"]
                           ELSE subs.rows[i]
  BY DEF UpdateKeys, SubsInv
<1>2. \A i \in RowNumbers :
        /\ subs'.rows[i].dev = subs.rows[i].dev
        /\ subs'.rows[i].keys = IF subs.rows[i].dev = d THEN used + 1 ELSE subs.rows[i].keys
  BY <1>1
<1>3. EmptyRow.dev # d
  BY DeviceAssumption DEF EmptyRow
<1>4. \A i \in RowNumbers : /\ subs'.rows[i].keys \in 0..used'
                            /\ i > subs'.tail => subs'.rows[i] = EmptyRow
  BY <1>1, <1>2, <1>3 DEF SubsInv
<1>5. told' \in [SubDevices -> 0..used']
  BY DEF SubsInv
<1>6. ASSUME NEW e \in SubDevices, told'[e] # 0
      PROVE  /\ told'[e] # BuiltinKeys
             /\ \E i \in RowNumbers : subs'.rows[i].keys = told'[e]
             /\ \A i \in RowNumbers :
                  /\ subs'.rows[i].keys = told'[e] => subs'.rows[i].dev = e
                  /\ subs'.rows[i].dev = e => subs'.rows[i].keys \in {0, told'[e]}
  <2>1. CASE e = d /\ \E i \in RowNumbers : subs.rows[i].dev = d
    <3>1. told'[e] = used + 1
      BY <2>1 DEF SubsInv
    <3>2. told'[e] # BuiltinKeys
      BY <3>1 DEF SubsInv, BuiltinKeys
    <3>3. \E i \in RowNumbers : subs'.rows[i].keys = told'[e]
      BY <1>2, <2>1, <3>1
    <3>4. \A i \in RowNumbers : subs.rows[i].keys # used + 1
      BY DEF SubsInv
    <3> QED
      BY <1>2, <2>1, <3>1, <3>2, <3>3, <3>4
  <2>2. CASE e # d \/ ~ \E i \in RowNumbers : subs.rows[i].dev = d
    <3>1. told'[e] = told[e] /\ told[e] # used + 1
      BY <2>2 DEF SubsInv
    <3>2. \A i \in RowNumbers : subs.rows[i].keys = told[e] => subs.rows[i].dev # d
      BY <1>6, <2>2, <3>1 DEF SubsInv
    <3>3. \E i \in RowNumbers : subs'.rows[i].keys = told[e]
      BY <1>2, <1>6, <3>1, <3>2 DEF SubsInv
    <3>4. \A i \in RowNumbers : subs.rows[i].dev = e => subs.rows[i].dev # d
      BY <2>2
    <3> QED
      BY <1>2, <1>6, <3>1, <3>3, <3>4 DEF SubsInv
  <2> QED
    BY <2>1, <2>2
<1>7. used' \in Nat \ {0} /\ subs'.tail \in RowNumbers
  BY <1>1 DEF SubsInv
<1> QED
  BY <1>1, <1>4, <1>5, <1>6, <1>7 DEF SubsInv

\* Bindings of the device itself are counted with those of its sub-devices.
LEMMA SubsUntouched ==
  ASSUME SubsInv, UNCHANGED <<subs, told>>, used' = used \/ used' = used + 1
  PROVE  SubsInv'
BY DEF SubsInv, RowNumbers

\* So it is at the start,
LEMMA SubsInit == DeviceInit => SubsInv
BY SubsFirst DEF DeviceInit

\* and sub_add, sub_auth and a restart keep what was told last.
LEMMA SubsStep == SubsInv /\ [DeviceNext]_deviceVars => SubsInv'
<1> SUFFICES ASSUME SubsInv, [DeviceNext]_deviceVars PROVE SubsInv'
  OBVIOUS
<1>1. CASE LanSubAdd
  BY <1>1, SubsAdded DEF LanSubAdd
<1>2. CASE LanSubAuth
  BY <1>2, SubsKeyed DEF LanSubAuth
<1>3. CASE Restart
  <2>1. used' \in Nat \ {0} /\ subs' = FirstTable /\ told' = [d \in SubDevices |-> 0]
    BY <1>3 DEF Restart, SubsInv
  <2>2. 0 \in RowNumbers
    BY SubsAssumption DEF RowNumbers
  <2> QED
    BY <2>1, <2>2, TableAtFirst DEF SubsInv, RowNumbers
<1>4. CASE DeviceNext /\ ~LanSubAdd /\ ~LanSubAuth /\ ~Restart
  <2>1. UNCHANGED <<subs, told>> /\ (used' = used \/ used' = used + 1)
    BY <1>4 DEF DeviceNext, ConnectTurn, AuthTurn, WorkTurn, AuthRead, HbRead, CtrlRead,
         BrokenRead, CloseRead, CloudCtrl, LinkLost, WriteKey, SaveStep, SaveRefused,
         WriteKeyReply, LanCtrl, LanPart, BecomeCalm, lanVars
  <2> QED
    BY <2>1, SubsUntouched
<1>5. CASE UNCHANGED deviceVars
  BY <1>5, SubsUntouched DEF deviceVars
<1> QED
  BY <1>1, <1>2, <1>3, <1>4, <1>5

\* The feedid search finds a row, and one with that feedid.
LEMMA RowFound ==
  ASSUME SubsInv, NEW keys, RowsWith(subs, keys) # {}
  PROVE  RowOfFeedid(subs, keys) \in RowsWith(subs, keys)
<1>1. RowsWith(subs, keys) \in SUBSET Nat
  BY SubsAssumption DEF RowsWith, SubsInv, RowNumbers
<1>2. \A i \in RowsWith(subs, keys) : i <= Rows
  BY SubsAssumption DEF RowsWith, SubsInv, RowNumbers
<1>3. \E i \in RowsWith(subs, keys) : \A j \in RowsWith(subs, keys) : j <= i
  BY <1>1, <1>2, Greatest, SubsAssumption
<1> QED
  BY <1>3 DEF RowOfFeedid

\* However often sub-devices are added and given keys, the feedid given last leads to
\* a row of the device.
THEOREM SubKeysFound == DeviceSpec => []SubKeysKept
<1>1. SubsInv => SubKeysKept
  <2>1. ASSUME SubsInv, NEW d \in SubDevices, told[d] # 0
        PROVE  /\ RowsWith(subs, told[d]) # {}
               /\ subs.rows[RowOfFeedid(subs, told[d])].dev = d
               /\ \A i \in DOMAIN subs.rows :
                    subs.rows[i].dev = d => subs.rows[i].keys \in {0, told[d]}
    <3>1. RowsWith(subs, told[d]) # {}
      BY <2>1 DEF SubsInv, RowsWith
    <3>2. RowOfFeedid(subs, told[d]) \in RowsWith(subs, told[d])
      BY <2>1, <3>1, RowFound
    <3>3. subs.rows[RowOfFeedid(subs, told[d])].dev = d
      BY <2>1, <3>2 DEF SubsInv, RowsWith
    <3> QED
      BY <2>1, <3>1, <3>3 DEF SubsInv
  <2> QED
    BY <2>1 DEF SubKeysKept
<1> QED
  BY <1>1, SubsInit, SubsStep, PTL DEF DeviceSpec
=============================================================================
