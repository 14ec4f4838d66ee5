---------------------------- MODULE AdbTransport ----------------------------
(***************************************************************************)
(* The life of a transport in the adb server: transport.c, the slots of    *)
(* transport_local.c, and the SYNC and CNXN cases of handle_packet().      *)
(*                                                                         *)
(* The main thread, an output thread and an input thread for each          *)
(* transport, and the threads that find devices run side by side.  A step  *)
(* is what one of them does under transport_lock or between two uses of    *)
(* shared state.  An atransport is one element of Transports; memory that  *)
(* was freed is not handed out again, and a thread that is left with a     *)
(* freed atransport takes no further step.                                 *)
(***************************************************************************)
EXTENDS Naturals, Integers, Sequences, FiniteSets

CONSTANTS
    Transports,  \* every atransport that is ever allocated
    Usb,         \* those of register_usb_transport()
    NoPerm,      \* USB devices that cannot be opened for writing
    Emulators,   \* those of local_connect(), with a slot in local_transports
    Serial,      \* Serial[t]: its serial; an emulator's names its port
    Disconnect,  \* those that a client may name in "disconnect:"
    MaxSlots,    \* ADB_LOCAL_TRANSPORT_MAX
    MaxFd        \* bound: descriptors of socket pairs open at once

ASSUME KindsAssumption ==
    /\ Usb \subseteq Transports
    /\ NoPerm \subseteq Usb
    /\ Emulators \subseteq Transports \ Usb
    /\ Disconnect \subseteq Transports \ (Usb \cup Emulators)

ASSUME LimitsAssumption ==
    /\ MaxSlots \in Nat
    /\ MaxFd \in Nat
    /\ IsFiniteSet(Transports)
    /\ Transports \cap {"none", "transport_list", "pending_list"} = {}

VARIABLES
    life,        \* where an atransport is between calloc() and free()
    links,       \* next and prev of every atransport and of both list heads
    slots,       \* what local_transports points to
    reg,         \* tmsgs in the registration socket: <<action, transport>>
    refs,        \* ref_count
    kicked,      \* kicked
    kicks,       \* how often t->kick() has run
    closes,      \* how often t->close() has run
    dev,         \* the device, socket or usb handle: "up" or "down"
    fd,          \* the number in t->fd, 0 before it is set
    owner,       \* owner[f]: whose half of a socket pair descriptor f is
    sync_token,  \* sync_token
    online,      \* online
    cnxn,        \* how far CNXN got: "unsent", "sent", "answered"
    active,      \* the input thread's flag
    toMain,      \* packets from the output thread to the main thread
    toIn,        \* packets from the main thread to the input thread
    pc           \* pc[t][a]: where agent a is with transport t

vars == <<life, links, slots, reg, refs, kicked, kicks, closes, dev, fd, owner,
          sync_token, online, cnxn, active, toMain, toIn, pc>>

lists   == <<life, links, slots>>
device  == <<kicked, kicks, closes, dev>>
pairs   == <<fd, owner>>
session == <<sync_token, online, cnxn, active, toMain, toIn>>

Agent == {"output", "input", "main"}

Fd == 1..MaxFd

Node == Transports \cup {"transport_list", "pending_list"}

Packet == [cmd: {"SYNC", "CNXN"}, arg0: 0..1, arg1: Nat]

Sync(arg0, arg1) == [cmd |-> "SYNC", arg0 |-> arg0, arg1 |-> arg1]

Cnxn == [cmd |-> "CNXN", arg0 |-> 0, arg1 |-> 0]

-----------------------------------------------------------------------------
(* The two circular lists. *)

Unlink(l, t) ==
    [nxt |-> [l.nxt EXCEPT ![l.prv[t]] = l.nxt[t]],
     prv |-> [l.prv EXCEPT ![l.nxt[t]] = l.prv[t]]]

\* t goes in front of the head h, that is, to the end.
LinkLast(l, h, t) ==
    [nxt |-> [l.nxt EXCEPT ![t] = h, ![l.prv[h]] = t],
     prv |-> [l.prv EXCEPT ![t] = l.prv[h], ![h] = t]]

\* What a walk from h along next meets before it is back at h.
Walk(l, h) ==
    LET met[n \in 0..Cardinality(Transports)] ==
            IF n = 0 THEN {l.nxt[h]}
            ELSE met[n - 1] \cup {l.nxt[m] : m \in met[n - 1] \ {h}}
    IN  met[Cardinality(Transports)] \ {h}

-----------------------------------------------------------------------------
(* Registration, on the thread that found the device. *)

\* The transports whose serial a new one must not repeat.
Known(t) ==
    {n \in Walk(links, "pending_list") \cup Walk(links, "transport_list") :
        Serial[n] = Serial[t]}

\* Whether init_socket_transport() takes a slot for t.
TakesSlot(t) == t \in Emulators

\* init_socket_transport(), for an emulator under local_transports_lock.  Of
\* a slot that points to freed memory nobody can say which port it shows.
init_socket_transport(t) ==
    LET dangling == {n \in slots : life[n] = "rejected"} IN
    /\ life[t] = "unborn" /\ t \notin Usb
    /\ \E seen \in SUBSET dangling :
          LET existing == {n \in (slots \ dangling) \cup seen :
                              Serial[n] = Serial[t]}
              fail == /\ TakesSlot(t)
                      /\ existing # {} \/ Cardinality(slots) >= MaxSlots
          IN
          /\ life' = [life EXCEPT ![t] = IF fail THEN "rejected" ELSE "init"]
          /\ slots' = IF TakesSlot(t) /\ ~fail THEN slots \cup {t} ELSE slots
    /\ UNCHANGED <<links, reg, refs, device, pairs, session, pc>>

\* The rest of register_socket_transport(): free(t) if the serial is known,
\* else the pending list and a message to the main thread.
register_socket_transport(t) ==
    /\ life[t] = "init"
    /\ \/ /\ Known(t) # {}
          /\ life' = [life EXCEPT ![t] = "rejected"]
          /\ UNCHANGED <<links, reg>>
       \/ /\ Known(t) = {}
          /\ life' = [life EXCEPT ![t] = "pending"]
          /\ links' = LinkLast(links, "pending_list", t)
          /\ reg' = Append(reg, <<1, t>>)
    /\ UNCHANGED <<slots, refs, device, pairs, session, pc>>

\* No serial is compared.
register_usb_transport(t) ==
    /\ life[t] = "unborn" /\ t \in Usb
    /\ life' = [life EXCEPT ![t] = "pending"]
    /\ links' = LinkLast(links, "pending_list", t)
    /\ reg' = Append(reg, <<1, t>>)
    /\ UNCHANGED <<slots, refs, device, pairs, session, pc>>

\* usb_kick() of a device without permission, once: the poll thread no longer
\* finds it.  A transport that is still pending is not found.
unregister_usb_transport(t) ==
    /\ t \in NoPerm /\ dev[t] = "up" /\ life[t] \in {"pending", "running"}
    /\ dev' = [dev EXCEPT ![t] = "down"]
    /\ links' = IF t \in Walk(links, "transport_list")
                THEN Unlink(links, t)
                ELSE links
    /\ UNCHANGED <<life, slots, reg, refs, kicked, kicks, closes, pairs,
                   session, pc>>

-----------------------------------------------------------------------------
(* transport_registration_func(), on the main thread. *)

MainIdle == \A t \in Transports : pc[t]["main"] = "none"

\* Onto the end of transport_list without leaving the pending list.
OntoMasterListOnly(l, t) == LinkLast(l, "transport_list", t)

OntoMasterList(l, t) == LinkLast(Unlink(l, t), "transport_list", t)

\* "initial references are the two threads"
OneReference == 1

InitialReferences == 2

\* Action 1: a socket pair and two threads, unless the device is unusable.
MainRegister(t) ==
    /\ MainIdle
    /\ reg # <<>> /\ Head(reg) = <<1, t>>
    /\ reg' = Tail(reg)
    /\ life' = [life EXCEPT ![t] = "running"]
    /\ links' = OntoMasterList(links, t)
    /\ \/ /\ t \in NoPerm
          /\ UNCHANGED <<refs, pairs, pc>>
       \/ /\ t \notin NoPerm
          /\ refs' = [refs EXCEPT ![t] = InitialReferences]
          /\ \E f \in {g \in Fd : owner[g] = "none"} :
                /\ fd' = [fd EXCEPT ![t] = f]
                /\ owner' = [owner EXCEPT ![f] = t]
          /\ pc' = [pc EXCEPT ![t]["output"] = "start", ![t]["input"] = "read"]
    /\ UNCHANGED <<slots, device, session>>

\* Action 0: both halves of the pair are closed, t leaves its list and is
\* freed with whatever its socket pair still held.
MainRemove(t) ==
    /\ MainIdle
    /\ reg # <<>> /\ Head(reg) = <<0, t>>
    /\ reg' = Tail(reg)
    /\ owner' = [owner EXCEPT ![fd[t]] = "none"]
    /\ links' = Unlink(links, t)
    /\ life' = [life EXCEPT ![t] = "freed"]
    /\ toMain' = [toMain EXCEPT ![t] = <<>>]
    /\ toIn' = [toIn EXCEPT ![t] = <<>>]
    /\ UNCHANGED <<slots, refs, device, fd, sync_token, online, cnxn, active, pc>>

-----------------------------------------------------------------------------
(* Packets between the threads. *)

\* The atransport still exists, so that a thread of it may go on.
Alive(t) == life[t] = "running"

\* t->fd is still this transport's half of its socket pair.
PairOpen(t) == fd[t] # 0 /\ owner[fd[t]] = t

\* output_thread() begins: SYNC(1, token).
OutputStart(t) ==
    /\ Alive(t) /\ pc[t]["output"] = "start"
    /\ sync_token' = [sync_token EXCEPT ![t] = @ + 1]
    /\ \/ /\ PairOpen(t)
          /\ toMain' = [toMain EXCEPT ![t] = Append(@, Sync(1, sync_token'[t]))]
          /\ pc' = [pc EXCEPT ![t]["output"] = "pump"]
       \/ /\ ~PairOpen(t)
          /\ UNCHANGED toMain
          /\ pc' = [pc EXCEPT ![t]["output"] = "kick"]
    /\ UNCHANGED <<lists, reg, refs, device, pairs, online, cnxn, active, toIn>>

\* The pump reads a packet of the remote: its CNXN, once it has had ours.
\* Packets of streams pass the same way and are left to AdbStreams.
OutputPump(t) ==
    /\ Alive(t) /\ pc[t]["output"] = "pump"
    /\ dev[t] = "up" /\ cnxn[t] = "sent"
    /\ cnxn' = [cnxn EXCEPT ![t] = "answered"]
    /\ \/ /\ PairOpen(t)
          /\ toMain' = [toMain EXCEPT ![t] = Append(@, Cnxn)]
          /\ UNCHANGED pc
       \/ /\ ~PairOpen(t)
          /\ UNCHANGED toMain
          /\ pc' = [pc EXCEPT ![t]["output"] = "kick"]
    /\ UNCHANGED <<lists, reg, refs, device, pairs, sync_token, online, active,
                   toIn>>

\* What the pump leaves behind for the main thread.
NoLastWord(q) == q

LastWordFirst(q) == <<Sync(0, 0)>> \o q

LastWord(q) == Append(q, Sync(0, 0))

\* read_from_remote() fails, with the device gone or on a malformed packet:
\* SYNC(0, 0), if it can still be written.
OutputFail(t) ==
    /\ Alive(t) /\ pc[t]["output"] = "pump"
    /\ toMain' = [toMain EXCEPT ![t] = IF PairOpen(t) THEN LastWord(@) ELSE @]
    /\ pc' = [pc EXCEPT ![t]["output"] = "kick"]
    /\ UNCHANGED <<lists, reg, refs, device, pairs, sync_token, online, cnxn,
                   active, toIn>>

\* What handle_packet() sends to the input thread for SYNC(1, token).
ConnectFirst(p) == <<Cnxn, p>>

EchoAndConnect(p) == <<p, Cnxn>>

\* The SYNC case of handle_packet().  If the other half of the pair is closed
\* and no read() waits on it, send_packet() ends the program.
HandleSync(t) ==
    /\ MainIdle /\ Alive(t)
    /\ PairOpen(t) \/ pc[t]["input"] = "read"
    /\ toMain[t] # <<>> /\ Head(toMain[t]).cmd = "SYNC"
    /\ toMain' = [toMain EXCEPT ![t] = Tail(@)]
    /\ LET p == Head(toMain[t]) IN
       \/ /\ p.arg0 = 1
          /\ toIn' = [toIn EXCEPT ![t] = @ \o EchoAndConnect(p)]
          /\ UNCHANGED online
       \/ /\ p.arg0 = 0
          /\ online' = [online EXCEPT ![t] = FALSE]
          /\ toIn' = [toIn EXCEPT ![t] = Append(@, p)]
    /\ UNCHANGED <<lists, reg, refs, device, pairs, sync_token, cnxn, active,
                   pc>>

\* The CNXN case: handle_online().
HandleCnxn(t) ==
    /\ MainIdle /\ Alive(t)
    /\ toMain[t] # <<>> /\ Head(toMain[t]).cmd = "CNXN"
    /\ toMain' = [toMain EXCEPT ![t] = Tail(@)]
    /\ online' = [online EXCEPT ![t] = TRUE]
    /\ UNCHANGED <<lists, reg, refs, device, pairs, sync_token, cnxn, active,
                   toIn, pc>>

\* input_thread() reads a packet.  A closed descriptor does not stop a
\* read() that already waits on it.
InputRead(t) ==
    LET p == Head(toIn[t]) IN
    /\ Alive(t) /\ pc[t]["input"] = "read"
    /\ toIn[t] # <<>>
    /\ toIn' = [toIn EXCEPT ![t] = Tail(@)]
    /\ pc' = IF p.cmd = "SYNC" /\ p.arg0 = 0
             THEN [pc EXCEPT ![t]["input"] = "sweep"]
             ELSE pc
    /\ active' = IF p = Sync(1, sync_token[t])
                 THEN [active EXCEPT ![t] = TRUE]
                 ELSE active
    /\ cnxn' = IF p.cmd = "CNXN" /\ active[t] /\ dev[t] = "up"
               THEN [cnxn EXCEPT ![t] = "sent"]
               ELSE cnxn
    /\ UNCHANGED <<lists, reg, refs, device, pairs, sync_token, online, toMain>>

\* read_packet() fails.
InputFail(t) ==
    /\ Alive(t) /\ pc[t]["input"] = "read" /\ ~PairOpen(t)
    /\ pc' = [pc EXCEPT ![t]["input"] = "sweep"]
    /\ UNCHANGED <<lists, reg, refs, device, pairs, session>>

\* close_all_sockets().
InputSweep(t) ==
    /\ Alive(t) /\ pc[t]["input"] = "sweep"
    /\ pc' = [pc EXCEPT ![t]["input"] = "kick"]
    /\ UNCHANGED <<lists, reg, refs, device, pairs, session>>

-----------------------------------------------------------------------------
(* kick_transport() and transport_unref(), by any of the three agents. *)

Goto(t, a, where) == pc' = [pc EXCEPT ![t][a] = where]

\* The first look at t->kicked, without the lock.
KickTest(t, a) ==
    /\ Alive(t) /\ pc[t][a] = "kick"
    /\ Goto(t, a, IF kicked[t] THEN "unref" ELSE "lock")
    /\ UNCHANGED <<lists, reg, refs, device, pairs, session>>

\* No second look under the lock.
KickUnchecked(t, a) ==
    /\ Alive(t) /\ pc[t][a] = "lock"
    /\ kicked' = [kicked EXCEPT ![t] = TRUE]
    /\ Goto(t, a, "kicking")
    /\ UNCHANGED <<lists, reg, refs, kicks, closes, dev, pairs, session>>

\* The second look, under transport_lock.
KickLock(t, a) ==
    /\ Alive(t) /\ pc[t][a] = "lock"
    /\ kicked' = [kicked EXCEPT ![t] = TRUE]
    /\ Goto(t, a, IF kicked[t] THEN "unref" ELSE "kicking")
    /\ UNCHANGED <<lists, reg, refs, kicks, closes, dev, pairs, session>>

\* t->kick(t) for a transport that keeps its slot.
KickDeviceOnly(t) ==
    /\ dev' = [dev EXCEPT ![t] = "down"]
    /\ kicks' = [kicks EXCEPT ![t] = @ + 1]
    /\ UNCHANGED slots

\* t->kick(t): the socket is shut down or the usb handle is dead, and an
\* emulator gives its slot back.
remote_kick(t) ==
    /\ dev' = [dev EXCEPT ![t] = "down"]
    /\ kicks' = [kicks EXCEPT ![t] = @ + 1]
    /\ slots' = slots \ {t}

KickRun(t, a) ==
    /\ Alive(t) /\ pc[t][a] = "kicking"
    /\ remote_kick(t)
    /\ Goto(t, a, "unref")
    /\ UNCHANGED <<life, links, reg, refs, kicked, closes, pairs, session>>

\* t->close(t): that of a socket transport is adb_close(t->fd).
remote_close(t) ==
    /\ closes' = [closes EXCEPT ![t] = @ + 1]
    /\ owner' = IF t \in Usb THEN owner ELSE [owner EXCEPT ![fd[t]] = "none"]

\* Whether n references are too few to go on.
NoneLeftOrFewer(n) == n <= 0

NoneLeft(n) == n = 0

\* transport_unref(), under transport_lock.  The agent is then done with t.
Unref(t, a) ==
    /\ Alive(t) /\ pc[t][a] = "unref"
    /\ refs' = [refs EXCEPT ![t] = @ - 1]
    /\ Goto(t, a, IF a = "main" THEN "none" ELSE "done")
    /\ \/ /\ NoneLeft(refs'[t])
          /\ kicked' = [kicked EXCEPT ![t] = TRUE]
          /\ IF kicked[t] THEN UNCHANGED <<dev, kicks, slots>> ELSE remote_kick(t)
          /\ remote_close(t)
          /\ reg' = Append(reg, <<0, t>>)
       \/ /\ ~NoneLeft(refs'[t])
          /\ UNCHANGED <<slots, reg, device, owner>>
    /\ UNCHANGED <<life, links, fd, session>>

\* "disconnect:" with a serial: find_transport() and the first half of
\* unregister_transport(), which takes t off its list; kick and unref follow.
Unregister(t) ==
    /\ MainIdle /\ t \in Disconnect
    /\ t \in Walk(links, "transport_list") /\ Alive(t)
    /\ links' = Unlink(links, t)
    /\ Goto(t, "main", "kick")
    /\ UNCHANGED <<life, slots, reg, refs, device, pairs, session>>

\* The device is unplugged, or the connection breaks.
LinkDown(t) ==
    /\ t \notin NoPerm /\ dev[t] = "up" /\ life[t] # "unborn"
    /\ dev' = [dev EXCEPT ![t] = "down"]
    /\ UNCHANGED <<lists, reg, refs, kicked, kicks, closes, pairs, session, pc>>

-----------------------------------------------------------------------------
\* Both lists are empty.
NoLinks == [nxt |-> [n \in Node |-> n], prv |-> [n \in Node |-> n]]

Init ==
    /\ life = [t \in Transports |-> "unborn"]
    /\ links = NoLinks
    /\ slots = {}
    /\ reg = <<>>
    /\ refs = [t \in Transports |-> 0]
    /\ kicked = [t \in Transports |-> FALSE]
    /\ kicks = [t \in Transports |-> 0]
    /\ closes = [t \in Transports |-> 0]
    /\ dev = [t \in Transports |-> "up"]
    /\ fd = [t \in Transports |-> 0]
    /\ owner = [f \in Fd |-> "none"]
    /\ sync_token = [t \in Transports |-> 1]
    /\ online = [t \in Transports |-> FALSE]
    /\ cnxn = [t \in Transports |-> "unsent"]
    /\ active = [t \in Transports |-> FALSE]
    /\ toMain = [t \in Transports |-> <<>>]
    /\ toIn = [t \in Transports |-> <<>>]
    /\ pc = [t \in Transports |-> [a \in Agent |-> "none"]]

Main(t) == MainRegister(t) \/ MainRemove(t) \/ HandleSync(t) \/ HandleCnxn(t)

Output(t) == OutputStart(t) \/ OutputPump(t) \/ OutputFail(t)

Input(t) == InputRead(t) \/ InputFail(t) \/ InputSweep(t)

Leave(t, a) == KickTest(t, a) \/ KickLock(t, a) \/ KickRun(t, a) \/ Unref(t, a)

Find(t) == \/ init_socket_transport(t)
           \/ register_socket_transport(t)
           \/ register_usb_transport(t)

Next == \E t \in Transports :
    \/ Find(t)
    \/ Main(t)
    \/ Output(t)
    \/ Input(t)
    \/ \E a \in Agent : Leave(t, a)
    \/ Unregister(t)
    \/ unregister_usb_transport(t)
    \/ LinkDown(t)

Spec == Init /\ [][Next]_vars

\* Every thread is scheduled.  A pump need only end if its device is gone, and
\* nothing makes devices appear, fail or answer, nor clients disconnect.
Fairness ==
    /\ WF_vars(\E t \in Transports : Main(t) \/ Leave(t, "main"))
    /\ \A t \in Transports :
          /\ WF_vars(\/ OutputStart(t)
                     \/ dev[t] = "down" /\ OutputFail(t)
                     \/ Leave(t, "output"))
          /\ WF_vars(Input(t) \/ Leave(t, "input"))

FairSpec == Spec /\ Fairness

-----------------------------------------------------------------------------
(* Properties. *)

Where == {"none", "start", "pump", "read", "sweep", "kick", "lock", "kicking",
          "unref", "done"}

Life == {"unborn", "init", "rejected", "pending", "running", "freed"}

\* The state has the types of struct atransport and of the threads; ref_count
\* drops below zero when there are more unrefs than references.
TypeOK ==
    /\ life \in [Transports -> Life]
    /\ links \in [nxt: [Node -> Node], prv: [Node -> Node]]
    /\ slots \subseteq Emulators
    /\ reg \in Seq((0..1) \X Transports)
    /\ refs \in [Transports -> Int]
    /\ kicked \in [Transports -> BOOLEAN]
    /\ kicks \in [Transports -> Nat]
    /\ closes \in [Transports -> Nat]
    /\ dev \in [Transports -> {"up", "down"}]
    /\ fd \in [Transports -> 0..MaxFd]
    /\ owner \in [Fd -> Transports \cup {"none"}]
    /\ sync_token \in [Transports -> Nat]
    /\ online \in [Transports -> BOOLEAN]
    /\ cnxn \in [Transports -> {"unsent", "sent", "answered"}]
    /\ active \in [Transports -> BOOLEAN]
    /\ toMain \in [Transports -> Seq(Packet)]
    /\ toIn \in [Transports -> Seq(Packet)]
    /\ pc \in [Transports -> [Agent -> Where]]

\* Both threads are done with t.
ThreadsExited(t) == pc[t]["output"] = "done" /\ pc[t]["input"] = "done"

\* The comment above output_thread(), "The transport will not actually be
\* closed until both threads exit", for a transport that no client may name
\* in "disconnect:".
ClosedAfterThreads ==
    \A t \in Transports \ Disconnect : closes[t] > 0 => ThreadsExited(t)

\* However the three agents race through kick_transport(), t->kick() runs at
\* most once: a second run would close a descriptor that is no longer t's.
KickedOnce == \A t \in Transports : kicks[t] <= 1

\* t->close() and the message that frees t happen at most once, also when
\* "disconnect:" drops a reference that nobody took.
RemovedOnce ==
    \A t \in Transports :
        /\ closes[t] <= 1
        /\ \A i, j \in DOMAIN reg :
              reg[i] = <<0, t>> /\ reg[j] = <<0, t>> => i = j

\* A walk along each list, forwards or backwards, meets exactly the
\* transports that belong there, "put us on the master device list"; and one
\* that the main thread has freed has given its slot back.
Listed ==
    LET back == [nxt |-> links.prv, prv |-> links.nxt]
        unplugged == {t \in NoPerm : dev[t] = "down"}
        unregistered == {t \in Disconnect : pc[t]["main"] # "none" \/ refs[t] < 2}
        running == {t \in Transports : life[t] = "running"}
        pending == {t \in Transports : life[t] = "pending"}
    IN  /\ \A l \in {links, back} :
            /\ Walk(l, "pending_list") = pending
            /\ Walk(l, "transport_list") \subseteq running
            /\ running \ (unplugged \cup unregistered)
                   \subseteq Walk(l, "transport_list")
        /\ \A t \in slots : life[t] # "freed"

\* A transport whose device fails is freed in the end: "to ensure shutdown".
Retires ==
    \A t \in Transports \ NoPerm :
        life[t] = "running" /\ dev[t] = "down" ~> life[t] = "freed"

\* A transport that was started sends CNXN, unless its device fails first.
Connects ==
    \A t \in Transports \ NoPerm :
        life[t] = "running" ~> cnxn[t] # "unsent" \/ dev[t] = "down"

\* The phases of AdbLifecycle, as the threads go through them.
PhaseOf(t) ==
    IF life[t] = "freed" THEN "freed"
    ELSE IF life[t] # "running" THEN "absent"
    ELSE IF pc[t]["input"] \notin {"none", "read", "sweep"} THEN "swept"
    ELSE IF online[t] THEN "online"
    ELSE IF \/ pc[t]["input"] = "sweep"
            \/ \E i \in DOMAIN toIn[t] : toIn[t][i] = Sync(0, 0)
    THEN "offline"
    ELSE "starting"

L == INSTANCE AdbLifecycle
        WITH Links <- Transports, phase <- [t \in Transports |-> PhaseOf(t)]

\* Three threads and four queues implement the phases that the rest of adb
\* relies on.
Lifecycle == L!Spec
=============================================================================
