---------------------------- MODULE AdbAuthProofs ----------------------------
(***************************************************************************)
(* The handshake for every number of keys, restarts and connections of a   *)
(* framework: the state is well typed, a device goes online only with a    *)
(* proof, and a token is answered once.                                    *)
(***************************************************************************)
EXTENDS AdbAuth, TLAPS

\* The packets are packets.
LEMMA PacketType ==
    /\ CNXN \in Packet /\ TOKEN \in Packet /\ RSAPUBLICKEY \in Packet
    /\ \A k \in Keys, c \in BOOLEAN : SIGNATURE(k, c) \in Packet
<1>1. 0 \in 0..NumKeys /\ Keys \subseteq 0..NumKeys
  BY AuthAssumption DEF Keys, AuthAssumption
<1>. QED
  BY <1>1 DEF CNXN, TOKEN, RSAPUBLICKEY, SIGNATURE, Packet

\* An empty queue is one of packets.
LEMMA EmptyType == <<>> \in Seq(Packet)
  OBVIOUS

\* A stale packet is a packet.
LEMMA StalePacket ==
    ASSUME NEW p \in Packet
    PROVE  [p EXCEPT !.cur = FALSE] \in Packet
  BY DEF Packet

\* A token that is replaced makes stale packets of packets.
LEMMA StaleType ==
    ASSUME NEW q \in Seq(Packet)
    PROVE  Stale(q) \in Seq(Packet)
<1>1. ASSUME NEW i \in DOMAIN q
      PROVE  [q[i] EXCEPT !.cur = FALSE] \in Packet
  BY <1>1, StalePacket
<1>2. PICK n \in Nat : DOMAIN q = 1..n
  BY SMT
<1>. QED
  BY <1>1, <1>2, SMT DEF Stale

\* The first packet, and what is left.
LEMMA HeadType ==
    ASSUME NEW q \in Seq(Packet), q # <<>>
    PROVE  /\ Head(q) \in Packet /\ Tail(q) \in Seq(Packet)
           /\ Head(q).key \in 0..NumKeys /\ Head(q).cur \in BOOLEAN
<1>1. Head(q) \in Packet /\ Tail(q) \in Seq(Packet)
  OBVIOUS
<1>. QED
  BY <1>1 DEF Packet

\* adb_auth_nextkey() stays in the list.
LEMMA NextKeyType ==
    ASSUME NEW k \in 0..NumKeys
    PROVE  /\ adb_auth_nextkey(k) \in 0..NumKeys
           /\ adb_auth_nextkey(k) # 0 => adb_auth_nextkey(k) \in Keys
  BY AuthAssumption DEF adb_auth_nextkey, Keys, AuthAssumption

\* send_auth_request() leaves two queues of packets.
LEMMA RequestType ==
    ASSUME TypeOK, NEW q \in Seq(Packet), send_auth_request(q)
    PROVE  toHost' \in Seq(Packet) /\ toDevice' \in Seq(Packet)
<1>1. /\ Stale(toHost) \in Seq(Packet) /\ Stale(q) \in Seq(Packet)
      /\ toHost \in Seq(Packet)
  BY StaleType DEF TypeOK
<1>2. Append(Stale(toHost), TOKEN) \in Seq(Packet)
  BY <1>1, PacketType
<1>. QED
  BY <1>1, <1>2 DEF send_auth_request

\* mute is a flag.
LEMMA RequestMute ==
    ASSUME TypeOK, NEW q, send_auth_request(q)
    PROVE  mute' \in BOOLEAN
  BY DEF TypeOK, send_auth_request

-----------------------------------------------------------------------------
(* One lemma for each action. *)

LEMMA HostStartType == TypeOK /\ HostStart => TypeOK'
<1>. SUFFICES ASSUME TypeOK, HostStart PROVE TypeOK'
  OBVIOUS
<1>1. toDevice' \in Seq(Packet)
  BY PacketType DEF TypeOK, HostStart
<1>2. key' \in 0..NumKeys
  BY AuthAssumption DEF HostStart, AuthAssumption
<1>3. crossed' \in BOOLEAN
  BY DEF TypeOK, HostStart, Busy
<1>. QED
  BY <1>1, <1>2, <1>3 DEF TypeOK, HostStart, confirm, framework

LEMMA HostStopType == TypeOK /\ HostStop => TypeOK'
<1>. SUFFICES ASSUME TypeOK, HostStop PROVE TypeOK'
  OBVIOUS
<1>1. restarts' \in 0..MaxRestarts
  BY AuthAssumption DEF TypeOK, HostStop, AuthAssumption
<1>. QED
  BY <1>1 DEF TypeOK, HostStop, confirm, framework

LEMMA HostConnectedType == TypeOK /\ HostConnected => TypeOK'
<1>. SUFFICES ASSUME TypeOK, HostConnected PROVE TypeOK'
  OBVIOUS
<1>1. toHost' \in Seq(Packet)
  BY HeadType DEF TypeOK, HostConnected
<1>. QED
  BY <1>1 DEF TypeOK, HostConnected, confirm, framework

LEMMA HostTokenType == TypeOK /\ HostToken => TypeOK'
<1>. SUFFICES ASSUME TypeOK, HostToken PROVE TypeOK'
  OBVIOUS
<1>. DEFINE k == adb_auth_nextkey(key)
<1>1. toHost' \in Seq(Packet) /\ Head(toHost).cur \in BOOLEAN
  BY HeadType DEF TypeOK, HostToken
<1>2. k \in 0..NumKeys /\ (k # 0 => k \in Keys)
  BY NextKeyType DEF TypeOK
<1>3. toDevice' \in Seq(Packet)
  <2>1. toDevice \in Seq(Packet)
    BY DEF TypeOK
  <2>2. CASE k # 0 /\ toDevice' = Append(toDevice, SIGNATURE(k, Head(toHost).cur))
    <3>1. SIGNATURE(k, Head(toHost).cur) \in Packet
      BY <1>1, <1>2, <2>2, PacketType
    <3>. QED
      BY <2>1, <2>2, <3>1
  <2>3. CASE toDevice' = Append(toDevice, RSAPUBLICKEY)
    BY <2>1, <2>3, PacketType
  <2>4. CASE UNCHANGED toDevice
    BY <2>1, <2>4
  <2>. QED
    BY <2>2, <2>3, <2>4 DEF HostToken
<1>4. key' \in 0..NumKeys
  BY <1>2 DEF HostToken
<1>5. mute' \in BOOLEAN
  BY DEF TypeOK, HostToken
<1>. QED
  BY <1>1, <1>3, <1>4, <1>5 DEF TypeOK, HostToken, confirm, framework

LEMMA DeviceConnectType == TypeOK /\ DeviceConnect => TypeOK'
<1>. SUFFICES ASSUME TypeOK, DeviceConnect PROVE TypeOK'
  OBVIOUS
<1>1. Tail(toDevice) \in Seq(Packet)
  BY HeadType DEF TypeOK, DeviceConnect, Arrived
<1>2. toHost' \in Seq(Packet) /\ toDevice' \in Seq(Packet)
  <2>1. CASE auth_enabled
    BY <1>1, <2>1, RequestType DEF DeviceConnect
  <2>2. CASE ~auth_enabled
    <3>1. toHost' = Append(toHost, CNXN) /\ toDevice' = Tail(toDevice)
      BY <2>2 DEF DeviceConnect, send_connect
    <3>. QED
      BY <1>1, <3>1, PacketType DEF TypeOK
  <2>. QED
    BY <2>1, <2>2
<1>3. /\ online' \in BOOLEAN /\ usb_transport' \in BOOLEAN /\ needs_retry' \in BOOLEAN
      /\ proof' \in {"none", "open", "signature", "stale", "user", "earlier"}
  BY DEF TypeOK, DeviceConnect, handle_offline, confirm
<1>4. mute' \in BOOLEAN
  BY RequestMute DEF TypeOK, DeviceConnect
<1>. QED
  BY <1>2, <1>3, <1>4 DEF TypeOK, DeviceConnect, hostSide, framework

LEMMA DeviceSignatureType == TypeOK /\ DeviceSignature => TypeOK'
<1>. SUFFICES ASSUME TypeOK, DeviceSignature PROVE TypeOK'
  OBVIOUS
<1>1. Tail(toDevice) \in Seq(Packet)
  BY HeadType DEF TypeOK, DeviceSignature, Arrived
<1>2. toHost' \in Seq(Packet) /\ toDevice' \in Seq(Packet)
  <2>1. CASE adb_auth_verify(Head(toDevice))
    <3>1. toHost' = Append(toHost, CNXN) /\ toDevice' = Tail(toDevice)
      BY <2>1 DEF DeviceSignature, send_connect
    <3>. QED
      BY <1>1, <3>1, PacketType DEF TypeOK
  <2>2. CASE ~adb_auth_verify(Head(toDevice))
    BY <1>1, <2>2, RequestType DEF DeviceSignature
  <2>. QED
    BY <2>1, <2>2
<1>3. /\ online' \in BOOLEAN
      /\ proof' \in {"none", "open", "signature", "stale", "user", "earlier"}
  BY DEF TypeOK, DeviceSignature
<1>4. mute' \in BOOLEAN
  BY RequestMute DEF TypeOK, DeviceSignature
<1>. QED
  BY <1>2, <1>3, <1>4 DEF TypeOK, DeviceSignature, hostSide, confirm, framework

LEMMA DevicePublicKeyType == TypeOK /\ DevicePublicKey => TypeOK'
<1>. SUFFICES ASSUME TypeOK, DevicePublicKey PROVE TypeOK'
  OBVIOUS
<1>1. toDevice' \in Seq(Packet)
  BY HeadType DEF TypeOK, DevicePublicKey, Arrived
<1>2. needs_retry' \in BOOLEAN
  BY DEF TypeOK, DevicePublicKey
<1>3. /\ auth_fde' \in 0..connects /\ polled' \subseteq 1..connects
      /\ answer' \in [Fd -> {"none", "shown", "OK"}] /\ fresh' \subseteq Fd
  <2>1. CASE UNCHANGED <<auth_fde, polled, answer, fresh>>
    BY <2>1 DEF TypeOK
  <2>2. CASE framework_fd # 0 /\ Ask
    <3>1. framework_fd \in 1..connects /\ framework_fd \in Fd
      BY <2>2, AuthAssumption DEF TypeOK, Fd, AuthAssumption
    <3>. QED
      BY <2>2, <3>1 DEF TypeOK, Ask
  <2>. QED
    BY <2>1, <2>2 DEF DevicePublicKey
<1>. QED
  BY <1>1, <1>2, <1>3 DEF TypeOK, DevicePublicKey, hostSide

LEMMA ListenerType == TypeOK /\ adb_auth_listener => TypeOK'
<1>. SUFFICES ASSUME TypeOK, adb_auth_listener PROVE TypeOK'
  OBVIOUS
<1>1. toHost' \in Seq(Packet) /\ toDevice' \in Seq(Packet)
  BY RequestType DEF TypeOK, adb_auth_listener, RetryIfNeeded
<1>2. needs_retry' \in BOOLEAN /\ crossed' \in BOOLEAN
  BY DEF TypeOK, adb_auth_listener, RetryIfNeeded, Busy
<1>3. mute' \in BOOLEAN
  BY RequestMute DEF TypeOK, adb_auth_listener, RetryIfNeeded
<1>4. /\ connects' \in 0..MaxConnects /\ framework_fd' \in 0..connects'
      /\ auth_fde' \in 0..connects'
      /\ polled' \subseteq 1..connects' /\ ended' \subseteq 1..connects'
  BY AuthAssumption DEF TypeOK, adb_auth_listener, AuthAssumption
<1>. QED
  BY <1>1, <1>2, <1>3, <1>4 DEF TypeOK, adb_auth_listener, hostSide

LEMMA FrameworkType ==
    ASSUME TypeOK,
           (\E c \in Fd : FrameworkEnds(c) \/ UserAccepts(c)) \/ EventGone
    PROVE  TypeOK'
<1>1. ASSUME NEW c \in Fd, FrameworkEnds(c) PROVE TypeOK'
  <2>1. c \in 1..connects
    BY <1>1, AuthAssumption DEF TypeOK, FrameworkEnds, Fd, AuthAssumption
  <2>2. ended' \subseteq 1..connects /\ answer' \in [Fd -> {"none", "shown", "OK"}]
    BY <1>1, <2>1 DEF TypeOK, FrameworkEnds
  <2>. QED
    BY <1>1, <2>2 DEF TypeOK, FrameworkEnds, hostSide, confirm
<1>2. ASSUME NEW c \in Fd, UserAccepts(c) PROVE TypeOK'
  <2>1. answer' \in [Fd -> {"none", "shown", "OK"}] /\ authorized' \subseteq Keys
    BY <1>2 DEF TypeOK, UserAccepts
  <2>. QED
    BY <1>2, <2>1 DEF TypeOK, UserAccepts, hostSide, confirm
<1>3. CASE EventGone
  <2>1. auth_fde # 0 => auth_fde \in 1..connects
    BY DEF TypeOK
  <2>2. 0 \in 0..connects
    BY AuthAssumption DEF TypeOK, AuthAssumption
  <2>3. /\ framework_fd' \in 0..connects /\ auth_fde' \in 0..connects
        /\ polled' \subseteq 1..connects
    BY <1>3, <2>2 DEF TypeOK, EventGone
  <2>4. ended' \subseteq 1..connects
    BY <1>3, <2>1 DEF TypeOK, EventGone
  <2>5. answer' \in [Fd -> {"none", "shown", "OK"}]
    BY <1>3 DEF TypeOK, EventGone
  <2>. QED
    BY <1>3, <2>3, <2>4, <2>5 DEF TypeOK, EventGone, hostSide, confirm
<1>. QED
  BY <1>1, <1>2, <1>3

LEMMA EventOkType == TypeOK /\ EventOk => TypeOK'
<1>. SUFFICES ASSUME TypeOK, EventOk PROVE TypeOK'
  OBVIOUS
<1>1. toHost' \in Seq(Packet)
  BY PacketType, SMTT(60) DEF TypeOK, EventOk, send_connect
<1>4. answer' \in [Fd -> {"none", "shown", "OK"}]
  BY DEF TypeOK, EventOk
<1>2. crossed' \in BOOLEAN /\ online' \in BOOLEAN
  BY DEF TypeOK, EventOk, Busy
<1>3. proof' \in {"none", "open", "signature", "stale", "user", "earlier"}
  BY DEF TypeOK, EventOk
<1>. QED
  BY <1>1, <1>2, <1>3, <1>4 DEF TypeOK, EventOk, hostSide, confirm

LEMMA ReplugType == TypeOK /\ Replug => TypeOK'
<1>. SUFFICES ASSUME TypeOK, Replug PROVE TypeOK'
  OBVIOUS
<1>1. restarts' \in 0..MaxRestarts
  BY AuthAssumption DEF TypeOK, Replug, AuthAssumption
<1>. QED
  BY <1>1, EmptyType DEF TypeOK, Replug, handle_offline, framework

-----------------------------------------------------------------------------
(* The theorems. *)

\* The fields of the handshake keep their types: t->key stays in the list, and
\* every packet is one that handle_packet() knows.
THEOREM TypeCorrect == Spec => []TypeOK
<1>1. Init => TypeOK
  <2>1. 0 \in 0..NumKeys /\ 0 \in 0..MaxRestarts /\ 0 \in 0..MaxConnects /\ 0 \in 0..0
    BY AuthAssumption DEF AuthAssumption
  <2>. QED
    BY <2>1, EmptyType DEF Init, TypeOK
<1>2. TypeOK /\ [Next]_vars => TypeOK'
  <2>1. TypeOK /\ UNCHANGED vars => TypeOK'
    BY DEF TypeOK, vars
  <2>2. TypeOK /\ Host => TypeOK'
    BY HostStartType, HostConnectedType, HostTokenType DEF Host
  <2>3. TypeOK /\ Device => TypeOK'
    BY DeviceConnectType, DeviceSignatureType, DevicePublicKeyType, FrameworkType,
       EventOkType DEF Device
  <2>. QED
    BY <2>1, <2>2, <2>3, HostStopType, ListenerType, FrameworkType, ReplugType DEF Next
<1>. QED
  BY <1>1, <1>2, PTL DEF Spec

-----------------------------------------------------------------------------
(* What puts a device online. *)

\* A device that asks for authentication goes online only on a signature of
\* its current token, or on an "OK" after this host has offered its public key
\* (handle_packet(), adb_auth_event()), and a CNXN that is not the first takes
\* that back (handle_offline()).  The dialog may be an earlier connection's.
THEOREM ProvenHolds == Spec => []OnlineProven
<1>1. Init => OnlineProven
  BY DEF Init, OnlineProven
<1>2. OnlineProven /\ [Next]_vars => OnlineProven'
  <2>. SUFFICES ASSUME OnlineProven, [Next]_vars PROVE OnlineProven'
    OBVIOUS
  <2>1. CASE /\ UNCHANGED <<auth_enabled, online, proof>>
             /\ usb_transport' = usb_transport \/ usb_transport'
    BY <2>1 DEF OnlineProven
  <2>2. CASE DeviceConnect
    BY <2>2 DEF OnlineProven, DeviceConnect, handle_offline, confirm
  <2>3. CASE DeviceSignature
    BY <2>3 DEF OnlineProven, DeviceSignature, adb_auth_verify, confirm
  <2>4. CASE EventOk
    BY <2>4 DEF OnlineProven, EventOk, confirm
  <2>5. CASE Replug
    BY <2>5 DEF OnlineProven, Replug, handle_offline
  <2>6. CASE Host \/ HostStop
    <3>1. UNCHANGED <<auth_enabled, online, proof, usb_transport>>
      BY <2>6 DEF Host, HostStart, HostConnected, HostToken, HostStop, confirm
    <3>. QED
      BY <2>1, <3>1
  <2>7. CASE EventGone \/ adb_auth_listener
             \/ \E c \in Fd : FrameworkEnds(c) \/ UserAccepts(c)
    <3>1. UNCHANGED <<auth_enabled, online, proof, usb_transport>>
      BY <2>7 DEF EventGone, adb_auth_listener, FrameworkEnds, UserAccepts, confirm
    <3>. QED
      BY <2>1, <3>1
  <2>9. CASE DevicePublicKey
    BY <2>1, <2>9 DEF DevicePublicKey
  <2>8. CASE UNCHANGED vars
    BY <2>1, <2>8 DEF vars
  <2>. QED
    BY <2>2, <2>3, <2>4, <2>5, <2>6, <2>7, <2>8, <2>9 DEF Next, Device
<1>. QED
  BY <1>1, <1>2, PTL DEF Spec

-----------------------------------------------------------------------------
(* A token is good for one answer. *)

\* No packet of q is about the current token; at most one is.
NoneCurrent(q) == \A i \in DOMAIN q : ~q[i].cur
OneCurrent(q) == \A i, j \in DOMAIN q : q[i].cur /\ q[j].cur => i = j

\* However often the server is started again and a framework connects, at most
\* one packet under way is about the token in t->token: the device's question
\* or one answer to it.  So no signature can be verified twice.
TokenOnce ==
    /\ OneCurrent(toHost) /\ OneCurrent(toDevice)
    /\ NoneCurrent(toHost) \/ NoneCurrent(toDevice)

\* Handling the first packet.
LEMMA TailCurrent ==
    ASSUME NEW q \in Seq(Packet), q # <<>>
    PROVE  /\ NoneCurrent(q) => NoneCurrent(Tail(q)) /\ ~Head(q).cur
           /\ OneCurrent(q) => OneCurrent(Tail(q))
           /\ OneCurrent(q) /\ Head(q).cur => NoneCurrent(Tail(q))
<1>1. /\ Len(q) \in Nat /\ Len(q) > 0 /\ DOMAIN q = 1..Len(q)
      /\ Head(q) = q[1] /\ 1 \in DOMAIN q
  OBVIOUS
<1>2. ASSUME NEW i \in DOMAIN Tail(q)
      PROVE  i \in Nat /\ i + 1 \in DOMAIN q /\ Tail(q)[i] = q[i + 1] /\ i + 1 # 1
  BY <1>2, SMT
<1>3. NoneCurrent(q) => NoneCurrent(Tail(q)) /\ ~Head(q).cur
  BY <1>1, <1>2 DEF NoneCurrent
<1>4. OneCurrent(q) => OneCurrent(Tail(q))
  <2>. SUFFICES ASSUME OneCurrent(q), NEW i \in DOMAIN Tail(q), NEW j \in DOMAIN Tail(q),
                       Tail(q)[i].cur, Tail(q)[j].cur
                PROVE  i = j
    BY DEF OneCurrent
  <2>1. q[i + 1].cur /\ q[j + 1].cur
    BY <1>2
  <2>2. i + 1 = j + 1
    BY <1>2, <2>1 DEF OneCurrent
  <2>. QED
    BY <1>2, <2>2
<1>5. OneCurrent(q) /\ Head(q).cur => NoneCurrent(Tail(q))
  <2>. SUFFICES ASSUME OneCurrent(q), q[1].cur, NEW i \in DOMAIN Tail(q), Tail(q)[i].cur
                PROVE  FALSE
    BY <1>1 DEF NoneCurrent
  <2>1. q[i + 1].cur
    BY <1>2
  <2>2. i + 1 = 1
    BY <1>1, <1>2, <2>1 DEF OneCurrent
  <2>. QED
    BY <1>2, <2>2
<1>. QED
  BY <1>3, <1>4, <1>5

\* Sending a packet.
LEMMA AppendCurrent ==
    ASSUME NEW q \in Seq(Packet), NEW p \in Packet
    PROVE  /\ NoneCurrent(q) /\ ~p.cur => NoneCurrent(Append(q, p))
           /\ OneCurrent(q) /\ ~p.cur => OneCurrent(Append(q, p))
           /\ NoneCurrent(q) => OneCurrent(Append(q, p))
<1>1. ASSUME NEW i \in DOMAIN Append(q, p)
      PROVE  \/ i \in DOMAIN q /\ Append(q, p)[i] = q[i]
             \/ i = Len(q) + 1 /\ Append(q, p)[i] = p
  BY <1>1, SMT
<1>. QED
  BY <1>1 DEF NoneCurrent, OneCurrent

\* Making a new token.
LEMMA RequestCurrent ==
    ASSUME TypeOK, TokenOnce, NEW q \in Seq(Packet), send_auth_request(q),
           OneCurrent(q), NoneCurrent(toDevice) => NoneCurrent(q)
    PROVE  TokenOnce'
<1>1. ASSUME NEW r \in Seq(Packet) PROVE NoneCurrent(Stale(r)) /\ OneCurrent(Stale(r))
  <2>1. ASSUME NEW i \in DOMAIN Stale(r) PROVE ~Stale(r)[i].cur
    <3>1. i \in DOMAIN r /\ Stale(r)[i] = [r[i] EXCEPT !.cur = FALSE] /\ r[i] \in Packet
      BY <2>1 DEF Stale
    <3>2. ASSUME NEW p \in Packet PROVE ~[p EXCEPT !.cur = FALSE].cur
      BY <3>2 DEF Packet
    <3>. QED
      BY <3>1, <3>2
  <2>. QED
    BY <2>1 DEF NoneCurrent, OneCurrent
<1>2. toHost \in Seq(Packet) /\ Stale(toHost) \in Seq(Packet)
  BY StaleType DEF TypeOK
<1>3. OneCurrent(Append(Stale(toHost), TOKEN))
  BY <1>1, <1>2, AppendCurrent, PacketType
<1>4. NoneCurrent(Stale(q)) /\ OneCurrent(Stale(q))
  BY <1>1
<1>5. NoneCurrent(Stale(toHost)) /\ OneCurrent(Stale(toHost))
  BY <1>1, <1>2
<1>6. CASE toHost' = Append(Stale(toHost), TOKEN) /\ toDevice' = Stale(q)
  BY <1>3, <1>4, <1>6 DEF TokenOnce, OneCurrent, NoneCurrent
<1>7. CASE toHost' = toHost /\ toDevice' = q
  BY <1>7 DEF TokenOnce, OneCurrent, NoneCurrent
<1>8. CASE toHost' = Stale(toHost) /\ toDevice' = Stale(q)
  BY <1>4, <1>5, <1>8 DEF TokenOnce, OneCurrent, NoneCurrent
<1>. QED
  BY <1>6, <1>7, <1>8 DEF send_auth_request

\* The device takes a packet, and perhaps answers with its CNXN.
LEMMA DeviceTakes ==
    ASSUME TypeOK, TokenOnce,
           (toDevice # <<>> /\ toDevice' = Tail(toDevice)) \/ UNCHANGED toDevice,
           toHost' = send_connect \/ UNCHANGED toHost
    PROVE  TokenOnce'
<1>. DEFINE d == toDevice'
            h == toHost'
<1>0. toHost \in Seq(Packet) /\ toDevice \in Seq(Packet)
  BY DEF TypeOK
<1>1. OneCurrent(d) /\ (NoneCurrent(toDevice) => NoneCurrent(d))
  BY <1>0, TailCurrent DEF TokenOnce
<1>2. CNXN \in Packet /\ ~CNXN.cur
  BY PacketType DEF CNXN
<1>3. OneCurrent(h) /\ (NoneCurrent(toHost) => NoneCurrent(h))
  BY <1>0, <1>2, AppendCurrent DEF TokenOnce, send_connect
<1>. QED
  BY <1>1, <1>3 DEF TokenOnce, OneCurrent, NoneCurrent

\* Whatever the two ends do, one packet at most is about the current token.
THEOREM TokenHolds == Spec => []TokenOnce
<1>1. Init => TokenOnce
  BY DEF Init, TokenOnce, NoneCurrent, OneCurrent
<1>2. TypeOK /\ TokenOnce /\ [Next]_vars => TokenOnce'
  <2>. SUFFICES ASSUME TypeOK, TokenOnce, [Next]_vars PROVE TokenOnce'
    OBVIOUS
  <2>0. toHost \in Seq(Packet) /\ toDevice \in Seq(Packet)
    BY DEF TypeOK
  <2>1. CASE UNCHANGED <<toHost, toDevice>>
    BY <2>1 DEF TokenOnce, OneCurrent, NoneCurrent
  <2>2. CASE HostStart
    <3>1. toDevice' = Append(toDevice, CNXN) /\ toHost' = toHost /\ CNXN.cur = FALSE
      BY <2>2 DEF HostStart, CNXN
    <3>2. /\ OneCurrent(Append(toDevice, CNXN))
          /\ NoneCurrent(toDevice) => NoneCurrent(Append(toDevice, CNXN))
      BY <2>0, <3>1, AppendCurrent, PacketType DEF TokenOnce
    <3>. QED
      BY <3>1, <3>2 DEF TokenOnce, OneCurrent, NoneCurrent
  <2>3. CASE HostConnected
    <3>1. toHost # <<>> /\ toHost' = Tail(toHost) /\ toDevice' = toDevice
      BY <2>3 DEF HostConnected
    <3>2. /\ OneCurrent(Tail(toHost))
          /\ NoneCurrent(toHost) => NoneCurrent(Tail(toHost))
      BY <2>0, <3>1, TailCurrent DEF TokenOnce
    <3>. QED
      BY <3>1, <3>2 DEF TokenOnce, OneCurrent, NoneCurrent
  <2>4. CASE HostToken
    <3>. DEFINE p == Head(toHost)
                k == adb_auth_nextkey(key)
    <3>1. toHost # <<>> /\ toHost' = Tail(toHost)
      BY <2>4 DEF HostToken
    <3>2. p \in Packet /\ p.cur \in BOOLEAN
      BY <2>0, <3>1, HeadType
    <3>3. /\ OneCurrent(Tail(toHost))
          /\ NoneCurrent(toHost) => NoneCurrent(Tail(toHost)) /\ ~p.cur
          /\ p.cur => NoneCurrent(Tail(toHost))
      BY <2>0, <3>1, TailCurrent DEF TokenOnce
    <3>4. CASE k # 0 /\ toDevice' = Append(toDevice, SIGNATURE(k, p.cur))
      <4>1. k \in Keys
        BY <3>4, NextKeyType DEF TypeOK
      <4>2. SIGNATURE(k, p.cur) \in Packet /\ SIGNATURE(k, p.cur).cur = p.cur
        BY <3>2, <4>1, PacketType DEF SIGNATURE
      <4>3. CASE p.cur
        <5>1. NoneCurrent(toDevice)
          BY <3>3, <4>3 DEF TokenOnce
        <5>2. OneCurrent(Append(toDevice, SIGNATURE(k, p.cur)))
          BY <2>0, <4>2, <5>1, AppendCurrent
        <5>. QED
          BY <3>1, <3>3, <3>4, <4>3, <5>2 DEF TokenOnce, OneCurrent, NoneCurrent
      <4>4. CASE ~p.cur
        <5>1. /\ OneCurrent(Append(toDevice, SIGNATURE(k, p.cur)))
              /\ NoneCurrent(toDevice)
                    => NoneCurrent(Append(toDevice, SIGNATURE(k, p.cur)))
          BY <2>0, <4>2, <4>4, AppendCurrent DEF TokenOnce
        <5>. QED
          BY <3>1, <3>3, <3>4, <5>1 DEF TokenOnce, OneCurrent, NoneCurrent
      <4>. QED
        BY <4>3, <4>4
    <3>5. CASE toDevice' = Append(toDevice, RSAPUBLICKEY)
      <4>1. RSAPUBLICKEY \in Packet /\ ~RSAPUBLICKEY.cur
        BY PacketType DEF RSAPUBLICKEY
      <4>2. /\ OneCurrent(Append(toDevice, RSAPUBLICKEY))
            /\ NoneCurrent(toDevice) => NoneCurrent(Append(toDevice, RSAPUBLICKEY))
        BY <2>0, <4>1, AppendCurrent DEF TokenOnce
      <4>. QED
        BY <3>1, <3>3, <3>5, <4>2 DEF TokenOnce, OneCurrent, NoneCurrent
    <3>6. CASE UNCHANGED toDevice
      BY <3>1, <3>3, <3>6 DEF TokenOnce, OneCurrent, NoneCurrent
    <3>. QED
      BY <2>4, <3>4, <3>5, <3>6 DEF HostToken
  <2>5. CASE DeviceConnect
    <3>0. toDevice # <<>>
      BY <2>5 DEF DeviceConnect, Arrived
    <3>1. /\ toDevice # <<>> /\ Tail(toDevice) \in Seq(Packet)
          /\ OneCurrent(Tail(toDevice))
          /\ NoneCurrent(toDevice) => NoneCurrent(Tail(toDevice))
      BY <2>0, <3>0, HeadType, TailCurrent DEF TokenOnce
    <3>2. CASE auth_enabled
      BY <2>5, <3>1, <3>2, RequestCurrent DEF DeviceConnect
    <3>3. CASE ~auth_enabled
      BY <2>5, <3>1, <3>3, DeviceTakes DEF DeviceConnect
    <3>. QED
      BY <3>2, <3>3
  <2>6. CASE DeviceSignature
    <3>0. toDevice # <<>>
      BY <2>6 DEF DeviceSignature, Arrived
    <3>1. /\ toDevice # <<>> /\ Tail(toDevice) \in Seq(Packet)
          /\ OneCurrent(Tail(toDevice))
          /\ NoneCurrent(toDevice) => NoneCurrent(Tail(toDevice))
      BY <2>0, <3>0, HeadType, TailCurrent DEF TokenOnce
    <3>2. CASE adb_auth_verify(Head(toDevice))
      BY <2>6, <3>1, <3>2, DeviceTakes DEF DeviceSignature
    <3>3. CASE ~adb_auth_verify(Head(toDevice))
      BY <2>6, <3>1, <3>3, RequestCurrent DEF DeviceSignature
    <3>. QED
      BY <3>2, <3>3
  <2>7. CASE DevicePublicKey
    BY <2>7, DeviceTakes DEF DevicePublicKey, Arrived
  <2>8. CASE EventOk
    BY <2>8, DeviceTakes DEF EventOk
  <2>9. CASE adb_auth_listener
    <3>1. OneCurrent(toDevice)
      BY DEF TokenOnce
    <3>. QED
      BY <2>0, <2>1, <2>9, <3>1, RequestCurrent DEF adb_auth_listener, RetryIfNeeded
  <2>10. CASE Replug
    BY <2>10 DEF Replug, TokenOnce, OneCurrent, NoneCurrent
  <2>11. CASE \/ HostStop \/ EventGone \/ UNCHANGED vars
              \/ \E c \in Fd : FrameworkEnds(c) \/ UserAccepts(c)
    <3>1. UNCHANGED <<toHost, toDevice>>
      BY <2>11 DEF HostStop, EventGone, FrameworkEnds, UserAccepts, vars
    <3>. QED
      BY <2>1, <3>1
  <2>. QED
    BY <2>2, <2>3, <2>4, <2>5, <2>6, <2>7, <2>8, <2>9, <2>10, <2>11
       DEF Next, Host, Device
<1>. QED
  BY <1>1, <1>2, TypeCorrect, PTL DEF Spec

-----------------------------------------------------------------------------
(* A handshake that no other crosses. *)

\* Of the keys up to n only the user's own may have become known.
Refused(n) == \A k \in authorized : k <= n => k = 1

\* The device has asked, and waits.
Asking == device = "host" /\ ~online /\ ~needs_retry

\* One packet is under way, and what the two ends know then; or none is, and
\* they agree.
Quiet == /\ toHost = <<>> /\ toDevice = <<>>
         /\ host # "down" => (host = "device" <=> online)

Begun == /\ toHost = <<>> /\ toDevice = <<CNXN>> /\ key = 0
         /\ host \in {"offline", "down"}

Asked == toHost = <<TOKEN>> /\ toDevice = <<>> /\ Asking /\ Refused(key)

Signed == /\ toHost = <<>> /\ toDevice = <<SIGNATURE(key, TRUE)>>
          /\ Asking /\ key # 0 /\ Refused(key - 1)
          /\ host \in {"unauthorized", "down"}

Offered == /\ toHost = <<>> /\ toDevice = <<RSAPUBLICKEY>>
           /\ Asking /\ key = 0 /\ authorized \subseteq {1}
           /\ host \in {"unauthorized", "down"}

Accepted == toHost = <<CNXN>> /\ toDevice = <<>> /\ online

\* A key that waits for a framework was the last the host could offer.
RetryInv ==
    /\ needs_retry => key = 0 /\ ~online /\ device = "host"
    /\ device = "offline" => ~online /\ ~usb_transport

HandshakeInv ==
    ~crossed => /\ RetryInv
                /\ Quiet \/ Begun \/ Asked \/ Signed \/ Offered \/ Accepted

\* The queue of one packet.
LEMMA OnePacket ==
    ASSUME NEW p
    PROVE  /\ <<p>> # <<>> /\ Head(<<p>>) = p /\ Tail(<<p>>) = <<>>
           /\ Append(<<>>, p) = <<p>>
  OBVIOUS

LEMMA Types ==
    /\ CNXN.type = "CNXN" /\ TOKEN.type = "TOKEN" /\ RSAPUBLICKEY.type = "RSAPUBLICKEY"
    /\ TOKEN.cur = TRUE
  BY DEF CNXN, TOKEN, RSAPUBLICKEY

LEMMA SignatureFields ==
    ASSUME NEW p, NEW k, p = SIGNATURE(k, TRUE)
    PROVE  p.type = "SIGNATURE" /\ p.key = k /\ p.cur = TRUE
  BY DEF SIGNATURE

\* What the device can receive.
LEMMA AtDevice ==
    ASSUME HandshakeInv, ~crossed, NEW type, Arrived(type)
    PROVE  /\ toHost = <<>> /\ Tail(toDevice) = <<>>
           /\ type = "CNXN" => Begun
           /\ type = "SIGNATURE" => Signed /\ Head(toDevice) = SIGNATURE(key, TRUE)
           /\ type = "RSAPUBLICKEY" => Offered
<1>1. toDevice # <<>> /\ Head(toDevice).type = type
  BY DEF Arrived
<1>2. Begun \/ Signed \/ Offered
  BY <1>1 DEF HandshakeInv, Quiet, Asked, Accepted
<1>3. CASE Begun
  <2>1. toHost = <<>> /\ toDevice = <<CNXN>>
    BY <1>3 DEF Begun
  <2>2. type = "CNXN" /\ Tail(toDevice) = <<>>
    BY <1>1, <2>1, OnePacket, Types
  <2>. QED
    BY <1>3, <2>1, <2>2
<1>4. CASE Signed
  <2>1. toHost = <<>> /\ toDevice = <<SIGNATURE(key, TRUE)>>
    BY <1>4 DEF Signed
  <2>2. Tail(toDevice) = <<>> /\ Head(toDevice) = SIGNATURE(key, TRUE)
    BY <2>1, OnePacket
  <2>3. Head(toDevice).type = "SIGNATURE"
    BY <2>2, SignatureFields
  <2>. QED
    BY <1>1, <1>4, <2>1, <2>2, <2>3
<1>5. CASE Offered
  <2>1. toHost = <<>> /\ toDevice = <<RSAPUBLICKEY>>
    BY <1>5 DEF Offered
  <2>2. type = "RSAPUBLICKEY" /\ Tail(toDevice) = <<>>
    BY <1>1, <2>1, OnePacket, Types
  <2>. QED
    BY <1>5, <2>1, <2>2
<1>. QED
  BY <1>2, <1>3, <1>4, <1>5

\* What the host can receive.
LEMMA AtHost ==
    ASSUME HandshakeInv, ~crossed, toHost # <<>>
    PROVE  /\ toDevice = <<>> /\ Tail(toHost) = <<>>
           /\ Head(toHost).type = "CNXN" => Accepted
           /\ Head(toHost).type = "TOKEN" => Asked /\ Head(toHost).cur = TRUE
<1>1. Asked \/ Accepted
  BY DEF HandshakeInv, Quiet, Begun, Signed, Offered
<1>2. CASE Asked
  <2>1. toDevice = <<>> /\ toHost = <<TOKEN>>
    BY <1>2 DEF Asked
  <2>2. Head(toHost) = TOKEN /\ Tail(toHost) = <<>>
    BY <2>1, OnePacket
  <2>. QED
    BY <1>2, <2>1, <2>2, Types
<1>3. CASE Accepted
  <2>1. toDevice = <<>> /\ toHost = <<CNXN>>
    BY <1>3 DEF Accepted
  <2>2. Head(toHost) = CNXN /\ Tail(toHost) = <<>>
    BY <2>1, OnePacket
  <2>. QED
    BY <1>3, <2>1, <2>2, Types
<1>. QED
  BY <1>1, <1>2, <1>3

\* A new token, with nothing else under way; or none could be made.
LEMMA Request ==
    ASSUME send_auth_request(<<>>), toHost = <<>>
    PROVE  (toHost' = <<TOKEN>> \/ toHost' = <<>>) /\ toDevice' = <<>>
<1>1. Stale(<<>>) = <<>>
  BY DEF Stale
<1>. QED
  BY <1>1, OnePacket DEF send_auth_request

LEMMA HostHandshake ==
    ASSUME TypeOK, HandshakeInv, Host \/ HostStop
    PROVE  HandshakeInv'
<1>1. CASE HostStart
  <2>. SUFFICES ASSUME ~crossed' PROVE RetryInv' /\ Begun'
    BY DEF HandshakeInv
  <2>1. ~crossed /\ toHost = <<>> /\ toDevice = <<>>
    BY <1>1 DEF HostStart, Busy
  <2>2. toHost' = <<>> /\ toDevice' = <<CNXN>> /\ key' = 0 /\ host' = "offline"
    BY <1>1, <2>1, OnePacket DEF HostStart
  <2>3. RetryInv'
    BY <1>1, <2>1 DEF HostStart, HandshakeInv, RetryInv, confirm, framework
  <2>. QED
    BY <2>2, <2>3 DEF Begun
<1>2. CASE HostConnected
  <2>. SUFFICES ASSUME ~crossed PROVE RetryInv' /\ Quiet'
    BY <1>2 DEF HandshakeInv, HostConnected
  <2>1. toHost # <<>> /\ Head(toHost).type = "CNXN" /\ toHost' = Tail(toHost)
    BY <1>2 DEF HostConnected
  <2>2. toDevice = <<>> /\ Tail(toHost) = <<>> /\ Accepted
    BY <2>1, AtHost
  <2>3. RetryInv'
    BY <1>2 DEF HostConnected, HandshakeInv, RetryInv, confirm, framework
  <2>. QED
    BY <1>2, <2>1, <2>2, <2>3 DEF HostConnected, Accepted, Quiet
<1>3. CASE HostToken
  <2>. DEFINE k == adb_auth_nextkey(key)
  <2>. SUFFICES ASSUME ~crossed PROVE RetryInv' /\ (Signed' \/ Offered' \/ Quiet')
    BY <1>3 DEF HandshakeInv, HostToken
  <2>1. /\ toHost # <<>> /\ Head(toHost).type = "TOKEN" /\ toHost' = Tail(toHost)
        /\ host' = "unauthorized" /\ key' = k
        /\ UNCHANGED <<authorized, device, online, needs_retry, usb_transport>>
    BY <1>3 DEF HostToken, confirm, framework
  <2>2. /\ toDevice = <<>> /\ Tail(toHost) = <<>> /\ Asked /\ Head(toHost).cur = TRUE
    BY <2>1, AtHost
  <2>3. Asking /\ Refused(key) /\ Asking'
    BY <2>1, <2>2 DEF Asked, Asking
  <2>4. RetryInv'
    BY <2>1, <2>3 DEF HandshakeInv, RetryInv, Asking
  <2>5. CASE k # 0 /\ toDevice' = Append(toDevice, SIGNATURE(k, Head(toHost).cur))
    <3>1. toDevice' = <<SIGNATURE(key', TRUE)>>
      BY <2>1, <2>2, <2>5, OnePacket
    <3>2. key' - 1 = key
      BY <2>1, <2>5, AuthAssumption DEF TypeOK, adb_auth_nextkey
    <3>3. Refused(key - 1)'
      BY <2>1, <2>3, <3>2 DEF Refused
    <3>4. key' # 0
      BY <2>1, <2>5
    <3>. QED
      BY <2>1, <2>2, <2>3, <2>4, <3>1, <3>3, <3>4 DEF Signed
  <2>6. CASE k = 0 /\ toDevice' = Append(toDevice, RSAPUBLICKEY)
    <3>1. toDevice' = <<RSAPUBLICKEY>>
      BY <2>2, <2>6, OnePacket
    <3>2. key = NumKeys
      BY <2>6, AuthAssumption DEF TypeOK, adb_auth_nextkey
    <3>3. authorized \subseteq {1}
      <4>1. \A j \in authorized : j <= key
        BY <3>2, AuthAssumption DEF TypeOK, Keys
      <4>. QED
        BY <2>3, <4>1 DEF Refused
    <3>. QED
      BY <2>1, <2>2, <2>3, <2>4, <2>6, <3>1, <3>3 DEF Offered
  <2>7. CASE UNCHANGED toDevice
    BY <2>1, <2>2, <2>3, <2>4, <2>7 DEF Quiet, Asking
  <2>. QED
    BY <1>3, <2>5, <2>6, <2>7 DEF HostToken
<1>4. CASE HostStop
  <2>1. /\ host' = "down"
        /\ UNCHANGED <<authorized, toDevice, toHost, key, crossed, device, online,
                       usb_transport, needs_retry>>
    BY <1>4 DEF HostStop, confirm, framework
  <2>. QED
    BY <2>1 DEF HandshakeInv, RetryInv, Quiet, Begun, Asked, Signed, Offered, Accepted,
                Asking, Refused
<1>. QED
  BY <1>1, <1>2, <1>3, <1>4 DEF Host

LEMMA DeviceHandshake ==
    ASSUME TypeOK, HandshakeInv, DeviceConnect \/ DeviceSignature \/ DevicePublicKey
    PROVE  HandshakeInv'
<1>1. CASE DeviceConnect
  <2>. SUFFICES ASSUME ~crossed PROVE RetryInv' /\ (Asked' \/ Accepted' \/ Quiet')
    BY <1>1 DEF HandshakeInv, DeviceConnect
  <2>1. toHost = <<>> /\ Tail(toDevice) = <<>> /\ key = 0 /\ host \in {"offline", "down"}
    BY <1>1, AtDevice DEF DeviceConnect, Begun
  <2>2. /\ device' = "host"
        /\ UNCHANGED <<authorized, key, host>>
    BY <1>1 DEF DeviceConnect, hostSide, framework
  <2>3. RetryInv
    BY DEF HandshakeInv
  <2>4. CASE auth_enabled
    <3>1. (toHost' = <<TOKEN>> \/ toHost' = <<>>) /\ toDevice' = <<>>
      BY <1>1, <2>1, <2>4, Request DEF DeviceConnect
    <3>2. ~online' /\ ~needs_retry'
      BY <1>1, <2>3, <2>4 DEF DeviceConnect, handle_offline, RetryInv, confirm, TypeOK
    <3>3. Refused(key)'
      BY <2>1, <2>2 DEF Refused, TypeOK, Keys
    <3>. QED
      BY <2>1, <2>2, <3>1, <3>2, <3>3 DEF Asked, Asking, RetryInv, Quiet
  <2>5. CASE ~auth_enabled
    <3>1. toHost' = <<CNXN>> /\ toDevice' = <<>> /\ online'
      BY <1>1, <2>1, <2>5, OnePacket DEF DeviceConnect, send_connect
    <3>2. ~needs_retry'
      BY <1>1, <2>3, <2>5 DEF DeviceConnect, RetryInv, confirm, TypeOK
    <3>. QED
      BY <2>2, <3>1, <3>2 DEF Accepted, RetryInv
  <2>. QED
    BY <2>4, <2>5
<1>2. CASE DeviceSignature
  <2>. SUFFICES ASSUME ~crossed PROVE RetryInv' /\ (Asked' \/ Accepted' \/ Quiet')
    BY <1>2 DEF HandshakeInv, DeviceSignature
  <2>1. /\ toHost = <<>> /\ Tail(toDevice) = <<>> /\ Signed
        /\ Head(toDevice) = SIGNATURE(key, TRUE)
    BY <1>2, AtDevice DEF DeviceSignature
  <2>2. UNCHANGED <<authorized, key, host, device, usb_transport, needs_retry>>
    BY <1>2 DEF DeviceSignature, hostSide, framework, confirm
  <2>3. Asking /\ Refused(key - 1) /\ key # 0 /\ host \in {"unauthorized", "down"}
    BY <2>1 DEF Signed
  <2>4. Head(toDevice).cur = TRUE /\ Head(toDevice).key = key
    BY <2>1, SignatureFields
  <2>5. CASE adb_auth_verify(Head(toDevice))
    <3>1. toHost' = <<CNXN>> /\ toDevice' = <<>> /\ online'
      BY <1>2, <2>1, <2>5, OnePacket DEF DeviceSignature, send_connect
    <3>. QED
      BY <2>2, <2>3, <3>1 DEF Accepted, RetryInv, Asking
  <2>6. CASE ~adb_auth_verify(Head(toDevice))
    <3>1. /\ toHost' = <<TOKEN>> \/ toHost' = <<>>
          /\ toDevice' = <<>> /\ online' = online
      BY <1>2, <2>1, <2>6, Request DEF DeviceSignature
    <3>2. key \notin authorized
      BY <2>4, <2>6 DEF adb_auth_verify
    <3>3. \A k \in authorized : k <= key => k <= key - 1
      BY <3>2, AuthAssumption DEF TypeOK, Keys
    <3>4. Refused(key)'
      BY <2>2, <2>3, <3>3 DEF Refused
    <3>5. RetryInv'
      BY <2>2, <2>3, <3>1 DEF RetryInv, Asking
    <3>. QED
      BY <2>2, <2>3, <3>1, <3>4, <3>5 DEF Asked, Asking, Quiet
  <2>. QED
    BY <2>5, <2>6
<1>3. CASE DevicePublicKey
  <2>. SUFFICES ASSUME ~crossed PROVE RetryInv' /\ Quiet'
    BY <1>3 DEF HandshakeInv, DevicePublicKey
  <2>1. toHost = <<>> /\ Tail(toDevice) = <<>> /\ Offered
    BY <1>3, AtDevice DEF DevicePublicKey
  <2>2. /\ UNCHANGED <<toHost, key, host, device, online>>
        /\ toDevice' = <<>>
        /\ needs_retry' = (needs_retry \/ framework_fd = 0)
    BY <1>3, <2>1 DEF DevicePublicKey, hostSide
  <2>3. /\ device = "host" /\ ~online /\ ~needs_retry /\ key = 0
        /\ host \in {"unauthorized", "down"}
    BY <2>1 DEF Offered, Asking
  <2>. QED
    BY <2>1, <2>2, <2>3 DEF RetryInv, Quiet
<1>. QED
  BY <1>1, <1>2, <1>3

LEMMA FrameworkHandshake ==
    ASSUME TypeOK, HandshakeInv,
           \/ adb_auth_listener \/ EventGone \/ EventOk
           \/ \E c \in Fd : FrameworkEnds(c) \/ UserAccepts(c)
    PROVE  HandshakeInv'
<1>1. CASE adb_auth_listener
  <2>. SUFFICES ASSUME ~crossed'
                PROVE  /\ RetryInv'
                       /\ Quiet' \/ Begun' \/ Asked' \/ Signed' \/ Offered' \/ Accepted'
    BY DEF HandshakeInv
  <2>1. /\ ~crossed /\ (needs_retry => ~Busy)
        /\ UNCHANGED <<authorized, key, host, device, online, usb_transport>>
    BY <1>1 DEF adb_auth_listener, hostSide
  <2>2. RetryInv /\ (Quiet \/ Begun \/ Asked \/ Signed \/ Offered \/ Accepted)
    BY <2>1 DEF HandshakeInv
  <2>3. CASE needs_retry
    <3>1. toHost = <<>> /\ toDevice = <<>>
      BY <2>1, <2>3 DEF Busy
    <3>2. needs_retry' = FALSE /\ send_auth_request(<<>>)
      BY <1>1, <2>3, <3>1 DEF adb_auth_listener, RetryIfNeeded
    <3>3. (toHost' = <<TOKEN>> \/ toHost' = <<>>) /\ toDevice' = <<>>
      BY <3>1, <3>2, Request
    <3>4. key = 0 /\ ~online /\ device = "host"
      BY <2>2, <2>3 DEF RetryInv
    <3>6. Quiet
      BY <2>2, <3>1, OnePacket DEF Begun, Asked, Signed, Offered, Accepted
    <3>5. Refused(key)'
      BY <2>1, <3>4 DEF Refused, TypeOK, Keys
    <3>. QED
      BY <2>1, <3>2, <3>3, <3>4, <3>5, <3>6 DEF Asked, Asking, RetryInv, Quiet
  <2>4. CASE ~needs_retry
    <3>1. UNCHANGED <<needs_retry, toHost, toDevice>>
      BY <1>1, <2>4 DEF adb_auth_listener, RetryIfNeeded
    <3>2. RetryInv'
      BY <2>1, <2>2, <2>4, <3>1 DEF RetryInv
    <3>. QED
      BY <2>1, <2>2, <3>1, <3>2
         DEF Quiet, Begun, Asked, Signed, Offered, Accepted, Asking, Refused
  <2>. QED
    BY <2>3, <2>4
<1>2. CASE EventGone \/ \E c \in Fd : FrameworkEnds(c)
  <2>1. /\ UNCHANGED <<authorized, toDevice, toHost, host, key, crossed, device, online>>
        /\ UNCHANGED <<usb_transport, needs_retry>>
    BY <1>2 DEF FrameworkEnds, EventGone, hostSide, confirm
  <2>. QED
    BY <2>1 DEF HandshakeInv, RetryInv, Quiet, Begun, Asked, Signed, Offered, Accepted,
                Asking, Refused
<1>3. CASE \E c \in Fd : UserAccepts(c)
  <2>1. /\ UNCHANGED <<toDevice, toHost, host, key, crossed, device, online>>
        /\ UNCHANGED <<usb_transport, needs_retry>>
        /\ \A k \in authorized' : k \in authorized \/ k = 1
    BY <1>3 DEF UserAccepts, hostSide, confirm
  <2>. QED
    BY <2>1 DEF HandshakeInv, RetryInv, Quiet, Begun, Asked, Signed, Offered, Accepted,
                Asking, Refused
<1>4. CASE EventOk /\ usb_transport
  <2>. SUFFICES ASSUME ~crossed' PROVE RetryInv' /\ Accepted'
    BY DEF HandshakeInv
  <2>1. ~crossed /\ toHost = <<>> /\ toDevice = <<>> /\ ~needs_retry
    BY <1>4 DEF EventOk, Busy
  <2>2. /\ online'
        /\ UNCHANGED <<toDevice, key, device, usb_transport, needs_retry>>
        /\ toHost' = <<CNXN>>
    BY <1>4, <2>1, OnePacket DEF EventOk, hostSide, confirm, send_connect
  <2>3. RetryInv
    BY <2>1 DEF HandshakeInv
  <2>. QED
    BY <1>4, <2>1, <2>2, <2>3 DEF RetryInv, Accepted
<1>5. CASE EventOk /\ ~usb_transport
  <2>1. /\ UNCHANGED <<authorized, toDevice, toHost, host, key, device, online>>
        /\ UNCHANGED <<usb_transport, needs_retry>>
        /\ ~crossed' => ~crossed
    BY <1>5 DEF EventOk, hostSide, confirm
  <2>. QED
    BY <2>1 DEF HandshakeInv, RetryInv, Quiet, Begun, Asked, Signed, Offered, Accepted,
                Asking, Refused
<1>. QED
  BY <1>1, <1>2, <1>3, <1>4, <1>5

LEMMA HandshakeHolds == Spec => []HandshakeInv
<1>1. Init => HandshakeInv
  BY DEF Init, HandshakeInv, RetryInv, Quiet
<1>2. TypeOK /\ HandshakeInv /\ [Next]_vars => HandshakeInv'
  <2>. SUFFICES ASSUME TypeOK, HandshakeInv, [Next]_vars PROVE HandshakeInv'
    OBVIOUS
  <2>1. CASE Replug
    <3>1. /\ toDevice' = <<>> /\ toHost' = <<>> /\ host' = "down" /\ device' = "offline"
          /\ ~online' /\ ~usb_transport' /\ ~needs_retry'
      BY <2>1 DEF Replug, handle_offline
    <3>. QED
      BY <3>1 DEF HandshakeInv, RetryInv, Quiet
  <2>2. CASE UNCHANGED vars
    BY <2>2 DEF vars, HandshakeInv, RetryInv, Quiet, Begun, Asked, Signed, Offered,
                Accepted, Asking, Refused
  <2>. QED
    BY <2>1, <2>2, HostHandshake, DeviceHandshake, FrameworkHandshake DEF Next, Device
<1>. QED
  BY <1>1, <1>2, TypeCorrect, PTL DEF Spec

\* The user is asked only when the device has refused a signature with every
\* key of the host: adb_auth_nextkey() goes through them all, and the offer of
\* the public key that waits for a framework is made by a host that has none
\* left.
THEOREM PromptedHolds == Spec => []Prompted
<1>1. HandshakeInv => Prompted
  <2>. SUFFICES ASSUME HandshakeInv, ~crossed, NEW i \in DOMAIN toDevice,
                       toDevice[i].type = "RSAPUBLICKEY"
                PROVE  authorized \subseteq {1}
    BY DEF Prompted
  <2>1. toDevice # <<>>
    OBVIOUS
  <2>2. Begun \/ Signed \/ Offered
    BY <2>1 DEF HandshakeInv, Quiet, Asked, Accepted
  <2>3. ASSUME NEW p, toDevice = <<p>> PROVE p.type = "RSAPUBLICKEY"
    BY <2>3
  <2>4. ~Begun
    BY <2>3, Types DEF Begun
  <2>5. ~Signed
    <3>. SUFFICES ASSUME toDevice = <<SIGNATURE(key, TRUE)>> PROVE FALSE
      BY DEF Signed
    <3>1. SIGNATURE(key, TRUE).type = "RSAPUBLICKEY"
      BY <2>3
    <3>. QED
      BY <3>1, SignatureFields
  <2>. QED
    BY <2>2, <2>4, <2>5 DEF Offered
<1>. QED
  BY <1>1, HandshakeHolds, PTL

\* With nothing under way the host shows "device" exactly if the device is
\* online, whatever the framework and the user did, unless handshakes crossed.
THEOREM AgreedHolds == Spec => []Agreed
<1>1. HandshakeInv => Agreed
  <2>. SUFFICES ASSUME HandshakeInv, ~crossed, toHost = <<>>, toDevice = <<>>
                PROVE  Quiet
    BY DEF Agreed, Busy, Quiet
  <2>1. ~Begun /\ ~Asked /\ ~Signed /\ ~Offered /\ ~Accepted
    BY OnePacket DEF Begun, Asked, Signed, Offered, Accepted
  <2>. QED
    BY <2>1 DEF HandshakeInv
<1>. QED
  BY <1>1, HandshakeHolds, PTL
=============================================================================
