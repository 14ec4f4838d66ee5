------------------------------- MODULE AdbAuth -------------------------------
(***************************************************************************)
(* The handshake of a host and a device over one transport: the CNXN and   *)
(* AUTH cases of handle_packet() in adb.c, the key list of adb_auth_host.c *)
(* and the framework socket of adb_auth_client.c.                          *)
(*                                                                         *)
(* Packets travel in order, one queue each way.  The cable may be pulled;  *)
(* the host's server may be killed and started again, and then the queues  *)
(* and the device keep what they have.  The framework, which shows the     *)
(* dialog and stores keys, comes and goes; it may connect while an earlier *)
(* connection of it is still there, and auth_fde, which is one structure,  *)
(* is then registered for the earlier descriptor, or for both.  Of a token *)
(* only one thing matters, whether it is still the one in t->token: each   *)
(* packet about a token carries that as its field "cur".                   *)
(***************************************************************************)
EXTENDS Naturals, Sequences, FiniteSets

CONSTANTS
    NumKeys,      \* private keys of the host; key 1 is the user's own
    MaxRestarts,  \* bound: how often the host's server is started again
    MaxConnects   \* bound: how often a framework connects

ASSUME AuthAssumption ==
    NumKeys \in Nat /\ MaxRestarts \in Nat /\ MaxConnects \in Nat

VARIABLES
    auth_enabled, \* ro.adb.secure
    authorized,   \* keys in the device's key files
    toDevice,     \* packets from the host
    toHost,       \* packets from the device
    host,         \* t->connection_state on the host, "down" without a server
    key,          \* t->key on the host: a key's place in the list, 0 for NULL
    restarts,     \* how often the server was started again
    crossed,      \* a handshake was begun or ended while another was under way
    mute,         \* a token or a signature could not be made, and nothing was sent
    device,       \* t->connection_state on the device
    online,       \* t->online on the device
    usb_transport,\* usb_transport # NULL
    needs_retry,  \* needs_retry
    connects,     \* connections of a framework so far: their descriptors
    framework_fd, \* one of them, 0 for -1
    auth_fde,     \* the descriptor in auth_fde, 0 when it is closed
    polled,       \* descriptors with auth_fde in fd_table
    ended,        \* descriptors whose other end is closed
    answer,       \* the dialog of each: "none", "shown", "OK" to be read
    fresh,        \* descriptors whose dialog belongs to the last CNXN
    proof         \* what put the device online last

vars == <<auth_enabled, authorized, toDevice, toHost, host, key, restarts, crossed, mute,
          device, online, usb_transport, needs_retry, connects, framework_fd, auth_fde,
          polled, ended, answer, fresh, proof>>

hostSide  == <<host, key, restarts>>
framework == <<connects, framework_fd, auth_fde, polled, ended, answer>>
confirm   == <<usb_transport, needs_retry>>

Keys == 1..NumKeys

CNXN == [type |-> "CNXN", key |-> 0, cur |-> FALSE]
TOKEN == [type |-> "TOKEN", key |-> 0, cur |-> TRUE]
SIGNATURE(k, c) == [type |-> "SIGNATURE", key |-> k, cur |-> c]
RSAPUBLICKEY == [type |-> "RSAPUBLICKEY", key |-> 0, cur |-> FALSE]

Packet == [type: {"CNXN", "TOKEN", "SIGNATURE", "RSAPUBLICKEY"}, key: 0..NumKeys,
           cur: BOOLEAN]

Fd == 1..MaxConnects

Busy == toHost # <<>> \/ toDevice # <<>>

\* The packets about a token that has been replaced.
Stale(q) == [i \in DOMAIN q |-> [q[i] EXCEPT !.cur = FALSE]]

-----------------------------------------------------------------------------
(* The host. *)

\* The transport is started, SYNC has gone round: send_connect().
HostStart ==
    /\ host = "down"
    /\ host' = "offline"
    /\ key' = 0
    /\ toDevice' = Append(toDevice, CNXN)
    /\ crossed' = (crossed \/ Busy)
    /\ mute' = FALSE
    /\ UNCHANGED <<auth_enabled, authorized, toHost, restarts, device, online, confirm,
                   framework, fresh, proof>>

\* The server is killed.
HostStop ==
    /\ host # "down" /\ restarts < MaxRestarts
    /\ host' = "down"
    /\ restarts' = restarts + 1
    /\ UNCHANGED <<auth_enabled, authorized, toDevice, toHost, key, crossed, mute, device,
                   online, confirm, framework, fresh, proof>>

\* CNXN: parse_banner() sets the state; a host goes online at once.
HostConnected ==
    /\ host # "down" /\ toHost # <<>> /\ Head(toHost).type = "CNXN"
    /\ toHost' = Tail(toHost)
    /\ host' = "device"
    /\ UNCHANGED <<auth_enabled, authorized, toDevice, key, restarts, crossed, mute, device,
                   online, confirm, framework, fresh, proof>>

\* The same key again, one key too few.
SameKey(k) == IF NumKeys = 0 THEN 0 ELSE 1

AllButLast(k) == IF k + 1 < NumKeys THEN k + 1 ELSE 0

\* adb_auth_nextkey(): 0 after the last one.
adb_auth_nextkey(k) == IF k < NumKeys THEN k + 1 ELSE 0

\* AUTH(TOKEN): the next key signs, if it can; after the last one the public
\* key is sent, if the file can be read.
HostToken ==
    LET p == Head(toHost)
        k == adb_auth_nextkey(key)
    IN
    /\ host # "down" /\ toHost # <<>> /\ p.type = "TOKEN"
    /\ toHost' = Tail(toHost)
    /\ host' = "unauthorized"
    /\ key' = k
    /\ \/ k # 0 /\ toDevice' = Append(toDevice, SIGNATURE(k, p.cur)) /\ UNCHANGED mute
       \/ k # 0 /\ mute' = TRUE /\ UNCHANGED toDevice
       \/ k = 0 /\ toDevice' = Append(toDevice, RSAPUBLICKEY) /\ UNCHANGED mute
       \/ k = 0 /\ UNCHANGED <<toDevice, mute>>
    /\ UNCHANGED <<auth_enabled, authorized, restarts, crossed, device, online, confirm,
                   framework, fresh, proof>>

-----------------------------------------------------------------------------
(* The device. *)

Arrived(type) == toDevice # <<>> /\ Head(toDevice).type = type

\* send_auth_request(): a new token, with q what is left of toDevice.  When
\* none can be read nothing is sent; t->token is the old one, or spoiled.
send_auth_request(q) ==
    \/ /\ toHost' = Append(Stale(toHost), TOKEN)
       /\ toDevice' = Stale(q)
       /\ UNCHANGED mute
    \/ /\ mute' = TRUE
       /\ \/ toHost' = toHost /\ toDevice' = q
          \/ toHost' = Stale(toHost) /\ toDevice' = Stale(q)

\* Nothing is sent.
NoConnect == toHost

send_connect == Append(toHost, CNXN)

\* Only the callbacks run.
StaysOnline ==
    /\ proof' = "none"
    /\ usb_transport' = FALSE
    /\ needs_retry' = FALSE
    /\ UNCHANGED online

\* handle_offline(), with usb_disconnected() among its callbacks.
handle_offline ==
    /\ online' = FALSE
    /\ proof' = "none"
    /\ usb_transport' = FALSE
    /\ needs_retry' = FALSE

\* CNXN: offline if it was not, then online at once or asked for a signature.
DeviceConnect ==
    /\ Arrived("CNXN")
    /\ device' = "host"
    /\ IF auth_enabled
       THEN /\ send_auth_request(Tail(toDevice))
            /\ IF device # "offline"
               THEN handle_offline
               ELSE UNCHANGED <<online, confirm, proof>>
       ELSE /\ online' = TRUE
            /\ toHost' = send_connect
            /\ toDevice' = Tail(toDevice)
            /\ UNCHANGED mute
            /\ IF device # "offline"
               THEN usb_transport' = FALSE /\ needs_retry' = FALSE
               ELSE UNCHANGED confirm
            /\ proof' = "open"
    /\ fresh' = {}
    /\ UNCHANGED <<auth_enabled, authorized, hostSide, crossed, framework>>

\* adb_auth_verify() against any token that was sent.
VerifyAnyToken(p) == p.key \in authorized

adb_auth_verify(p) == p.cur /\ p.key \in authorized

\* AUTH(SIGNATURE): adb_auth_verified(), or another token.
DeviceSignature ==
    LET p == Head(toDevice) IN
    /\ Arrived("SIGNATURE")
    /\ \/ /\ adb_auth_verify(p)
          /\ online' = TRUE
          /\ proof' = IF p.cur THEN "signature" ELSE "stale"
          /\ toHost' = send_connect
          /\ toDevice' = Tail(toDevice)
          /\ UNCHANGED mute
       \/ /\ ~adb_auth_verify(p)
          /\ send_auth_request(Tail(toDevice))
          /\ UNCHANGED <<online, proof>>
    /\ UNCHANGED <<auth_enabled, authorized, hostSide, crossed, device, confirm,
                   framework, fresh>>

\* The framework is asked: auth_fde is installed for its descriptor, whatever
\* it was registered for before.
Ask ==
    /\ auth_fde' = framework_fd
    /\ polled' = polled \cup {framework_fd}
    /\ answer' = IF answer[framework_fd] = "none"
                 THEN [answer EXCEPT ![framework_fd] = "shown"]
                 ELSE answer
    /\ fresh' = IF answer[framework_fd] = "OK" THEN fresh ELSE fresh \cup {framework_fd}

\* AUTH(RSAPUBLICKEY): adb_auth_confirm_key().  Without a framework the key
\* is asked for again later; one that is gone only fails the write, and a key
\* that is too long or has no end is dropped.
DevicePublicKey ==
    /\ Arrived("RSAPUBLICKEY")
    /\ toDevice' = Tail(toDevice)
    /\ usb_transport' = TRUE
    /\ needs_retry' = (needs_retry \/ framework_fd = 0)
    /\ \/ framework_fd # 0 /\ framework_fd \notin ended /\ Ask
       \/ UNCHANGED <<auth_fde, polled, answer, fresh>>
    /\ UNCHANGED <<auth_enabled, authorized, toHost, hostSide, crossed, mute, device, online,
                   connects, framework_fd, ended, proof>>

-----------------------------------------------------------------------------
(* The framework and its socket. *)

\* What adb_auth_listener() does after accept().
RetryIfNeeded ==
    IF needs_retry
    THEN needs_retry' = FALSE /\ send_auth_request(toDevice)
    ELSE UNCHANGED <<needs_retry, toHost, toDevice, mute>>

\* An earlier connection stays as it is, and registered.
adb_auth_listener ==
    /\ connects < MaxConnects
    /\ connects' = connects + 1
    /\ framework_fd' = connects + 1
    /\ RetryIfNeeded
    /\ crossed' = (crossed \/ (needs_retry /\ Busy))
    /\ UNCHANGED <<auth_enabled, authorized, hostSide, device, online, usb_transport,
                   auth_fde, polled, ended, answer, fresh, proof>>

\* A framework ends, and its dialog with it; an "OK" that it wrote can be read.
FrameworkEnds(c) ==
    /\ c <= connects /\ c \notin ended
    /\ ended' = ended \cup {c}
    /\ answer' = IF answer[c] = "shown" THEN [answer EXCEPT ![c] = "none"] ELSE answer
    /\ UNCHANGED <<auth_enabled, authorized, toDevice, toHost, hostSide, crossed, mute,
                   device, online, confirm, connects, framework_fd, auth_fde, polled,
                   fresh, proof>>

\* The dialog is accepted, perhaps for good.
UserAccepts(c) ==
    /\ answer[c] = "shown"
    /\ answer' = [answer EXCEPT ![c] = "OK"]
    /\ authorized' \in {authorized, authorized \cup (Keys \cap {1})}
    /\ UNCHANGED <<auth_enabled, toDevice, toHost, hostSide, crossed, mute, device, online,
                   confirm, connects, framework_fd, auth_fde, polled, ended, fresh, proof>>

\* select() reports a descriptor, and adb_auth_event() reads the one in auth_fde.
Reported == \E c \in polled : c \in ended \/ answer[c] = "OK"

HasOk == auth_fde # 0 /\ answer[auth_fde] = "OK"

\* adb_auth_event(): nothing can be read, the framework has gone or another
\* descriptor was reported.  auth_fde is found through usb_transport only;
\* without it, the descriptor stays.
EventGone ==
    /\ Reported /\ ~HasOk
    /\ framework_fd' = 0
    /\ IF usb_transport /\ auth_fde # 0
       THEN /\ auth_fde' = 0
            /\ polled' = polled \ {auth_fde}
            /\ ended' = ended \cup {auth_fde}
            /\ answer' = [answer EXCEPT ![auth_fde] = "none"]
       ELSE UNCHANGED <<auth_fde, polled, ended, answer>>
    /\ UNCHANGED <<auth_enabled, authorized, toDevice, toHost, hostSide, crossed, mute,
                   device, online, confirm, connects, fresh, proof>>

\* adb_auth_event(): "OK", to whatever dialog it is the answer.
EventOk ==
    /\ Reported /\ HasOk
    /\ answer' = [answer EXCEPT ![auth_fde] = "none"]
    /\ crossed' = (crossed \/ (usb_transport /\ (Busy \/ needs_retry)))
    /\ IF usb_transport
       THEN /\ online' = TRUE
            /\ proof' = IF auth_fde \in fresh THEN "user" ELSE "earlier"
            /\ toHost' = send_connect
       ELSE UNCHANGED <<online, proof, toHost>>
    /\ UNCHANGED <<auth_enabled, authorized, toDevice, hostSide, mute, device, confirm,
                   connects, framework_fd, auth_fde, polled, ended, fresh>>

-----------------------------------------------------------------------------
\* The cable is pulled and put back: both transports are new.  The auth_fde of
\* the old one stays in fd_table and is taken to be still there.
Replug ==
    /\ restarts < MaxRestarts
    /\ restarts' = restarts + 1
    /\ host' = "down"
    /\ toDevice' = <<>>
    /\ toHost' = <<>>
    /\ crossed' = FALSE
    /\ mute' = FALSE
    /\ device' = "offline"
    /\ handle_offline
    /\ fresh' = {}
    /\ UNCHANGED <<auth_enabled, authorized, key, framework>>

Init ==
    /\ auth_enabled \in BOOLEAN
    /\ authorized \in SUBSET Keys
    /\ toDevice = <<>>
    /\ toHost = <<>>
    /\ host = "down"
    /\ key = 0
    /\ restarts = 0
    /\ crossed = FALSE
    /\ mute = FALSE
    /\ device = "offline"
    /\ online = FALSE
    /\ usb_transport = FALSE
    /\ needs_retry = FALSE
    /\ connects = 0
    /\ framework_fd = 0
    /\ auth_fde = 0
    /\ polled = {}
    /\ ended = {}
    /\ answer = [c \in Fd |-> "none"]
    /\ fresh = {}
    /\ proof = "none"

Host == HostStart \/ HostConnected \/ HostToken

Device == DeviceConnect \/ DeviceSignature \/ DevicePublicKey \/ EventGone \/ EventOk

Next ==
    \/ Host
    \/ HostStop
    \/ Device
    \/ adb_auth_listener
    \/ \E c \in Fd : FrameworkEnds(c) \/ UserAccepts(c)
    \/ Replug

Spec == Init /\ [][Next]_vars

\* Both programs run; nobody need accept a dialog or start a framework.
FairSpec == Spec /\ WF_vars(Host) /\ WF_vars(Device)

-----------------------------------------------------------------------------
(* Properties. *)

\* The state has the types of the handshake's fields in struct atransport.
TypeOK ==
    /\ auth_enabled \in BOOLEAN
    /\ authorized \subseteq Keys
    /\ toDevice \in Seq(Packet)
    /\ toHost \in Seq(Packet)
    /\ host \in {"down", "offline", "unauthorized", "device"}
    /\ key \in 0..NumKeys
    /\ restarts \in 0..MaxRestarts
    /\ crossed \in BOOLEAN
    /\ mute \in BOOLEAN
    /\ device \in {"offline", "host"}
    /\ online \in BOOLEAN
    /\ usb_transport \in BOOLEAN
    /\ needs_retry \in BOOLEAN
    /\ connects \in 0..MaxConnects
    /\ framework_fd \in 0..connects
    /\ auth_fde \in 0..connects
    /\ polled \subseteq 1..connects
    /\ ended \subseteq 1..connects
    /\ answer \in [Fd -> {"none", "shown", "OK"}]
    /\ fresh \subseteq Fd
    /\ proof \in {"none", "open", "signature", "stale", "user", "earlier"}

\* A device that asks for authentication takes streams only on the strength of
\* a signature of its current token, or of an "OK" of the user after the host
\* offered its public key, both since the last CNXN.  The "OK" itself may be the
\* answer to a dialog of an earlier connection: adb_auth_event() cannot tell.
OnlineProven ==
    auth_enabled /\ online
        => proof = "signature" \/ (proof \in {"user", "earlier"} /\ usb_transport)

\* The user is asked only when none of the host's keys would do: the host has
\* tried each of them, on a token of its own, before it sends the public key.
\* (Its own key may become known through an earlier dialog meanwhile.)
Prompted ==
    (\E i \in DOMAIN toDevice : toDevice[i].type = "RSAPUBLICKEY") /\ ~crossed
        => authorized \subseteq {1}

\* When no packet is on the way, both ends agree: the host shows "device"
\* exactly if the device is online and takes its streams.  Handshakes that
\* cross each other, or a dialog accepted while another try is due, may leave
\* them in disagreement.
Agreed ==
    host # "down" /\ ~Busy /\ ~crossed => (host = "device" <=> online)

\* A host with a key that the device knows is let in, whichever of its keys
\* that is, unless its server ends first, handshakes cross, or one end could
\* make no token or no signature: send_auth_request() and send_auth_response()
\* then return, and the host waits for ever.
KnownConnects ==
    host # "down" /\ ~(authorized \subseteq {1})
        ~> host \in {"device", "down"} \/ crossed \/ mute
=============================================================================
