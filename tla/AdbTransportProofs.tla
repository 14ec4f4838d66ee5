------------------------- MODULE AdbTransportProofs -------------------------
(***************************************************************************)
(* Proofs about AdbTransport, for any number of transports of any kinds:   *)
(* type correctness, that t->kick() runs at most once, that a transport    *)
(* which no client disconnects is closed after its threads, that every     *)
(* transport is closed and freed at most once, that the lists of           *)
(* transports are in order as long as no client disconnects one, and that  *)
(* the threads then implement the phases of AdbLifecycle.                  *)
(***************************************************************************)
EXTENDS AdbTransport, LinkedLists, FiniteSetTheorems, TLAPS

(* The lists stay inside Node. *)

Pointers == [nxt: [Node -> Node], prv: [Node -> Node]]

\* Taking an entry out of a list writes two pointers.
LEMMA UnlinkType ==
    ASSUME NEW l \in Pointers, NEW t \in Transports
    PROVE  Unlink(l, t) \in Pointers
<1>1. t \in Node
    BY DEF Node
<1>2. l.nxt \in [Node -> Node] /\ l.prv \in [Node -> Node]
    BY DEF Pointers
<1>3. l.nxt[t] \in Node /\ l.prv[t] \in Node
    BY <1>1, <1>2
<1>4. /\ [l.nxt EXCEPT ![l.prv[t]] = l.nxt[t]] \in [Node -> Node]
      /\ [l.prv EXCEPT ![l.nxt[t]] = l.prv[t]] \in [Node -> Node]
    BY <1>2, <1>3
<1> QED
    BY <1>4 DEF Unlink, Pointers

\* Adding an entry writes four.
LEMMA LinkLastType ==
    ASSUME NEW l \in Pointers, NEW t \in Transports,
           NEW h \in {"transport_list", "pending_list"}
    PROVE  LinkLast(l, h, t) \in Pointers
<1>1. t \in Node /\ h \in Node
    BY DEF Node
<1>2. l.nxt \in [Node -> Node] /\ l.prv \in [Node -> Node]
    BY DEF Pointers
<1>3. l.prv[h] \in Node
    BY <1>1, <1>2
<1>4. [[l.nxt EXCEPT ![t] = h] EXCEPT ![l.prv[h]] = t] \in [Node -> Node]
    BY <1>1, <1>2, <1>3
<1>5. [[l.prv EXCEPT ![t] = l.prv[h]] EXCEPT ![h] = t] \in [Node -> Node]
    BY <1>1, <1>2, <1>3
<1> QED
    BY <1>4, <1>5 DEF LinkLast, Pointers

-----------------------------------------------------------------------------
(* Type correctness. *)

\* A step of an agent of t moves its pc within Where.
LEMMA PcType ==
    ASSUME pc \in [Transports -> [Agent -> Where]],
           NEW t \in Transports, NEW a \in Agent, NEW w \in Where
    PROVE  [pc EXCEPT ![t][a] = w] \in [Transports -> [Agent -> Where]]
    OBVIOUS

\* Packets of the two kinds that are sent here.
LEMMA PacketType ==
    /\ Cnxn \in Packet
    /\ \A n \in Nat : Sync(1, n) \in Packet
    /\ Sync(0, 0) \in Packet
    BY DEF Cnxn, Packet, Sync

\* No transport exists yet.
LEMMA InitType == Init => TypeOK
<1> SUFFICES ASSUME Init PROVE TypeOK
    OBVIOUS
<1>1. links \in [nxt: [Node -> Node], prv: [Node -> Node]]
    BY DEF Init, NoLinks
<1>2. pc \in [Transports -> [Agent -> Where]]
    BY DEF Init, Where
<1>3. reg \in Seq((0..1) \X Transports)
    BY DEF Init
<1>4. toMain \in [Transports -> Seq(Packet)] /\ toIn \in [Transports -> Seq(Packet)]
    BY DEF Init
<1> QED
    BY <1>1, <1>2, <1>3, <1>4, LimitsAssumption DEF Init, TypeOK, Fd, Life

\* Registration.
LEMMA FindType ==
    ASSUME TypeOK, NEW t \in Transports, Find(t)
    PROVE  TypeOK'
<1> USE DEF lists, device, pairs, session
<1>a. life \in [Transports -> Life]
    BY DEF TypeOK
<1>b. links \in Pointers
    BY DEF TypeOK, Pointers
<1>c. reg \in Seq((0..1) \X Transports)
    BY DEF TypeOK
<1>d. LinkLast(links, "pending_list", t) \in Pointers
    BY <1>b, LinkLastType
<1>e. Append(reg, <<1, t>>) \in Seq((0..1) \X Transports)
    BY <1>c
<1>1. CASE init_socket_transport(t)
  <2>1. slots' \subseteq Emulators
    BY <1>1 DEF TypeOK, init_socket_transport, TakesSlot
  <2>2. life' \in [Transports -> Life]
    BY <1>1, <1>a DEF init_socket_transport, Life
  <2> QED
    BY <1>1, <2>1, <2>2 DEF TypeOK, init_socket_transport
<1>2. CASE register_socket_transport(t)
  <2>1. \/ links' = links /\ reg' = reg
        \/ /\ links' = LinkLast(links, "pending_list", t)
           /\ reg' = Append(reg, <<1, t>>)
    BY <1>2 DEF register_socket_transport
  <2>2. links' \in Pointers /\ reg' \in Seq((0..1) \X Transports)
    BY <2>1, <1>b, <1>c, <1>d, <1>e
  <2>3. \E w \in Life : life' = [life EXCEPT ![t] = w]
    BY <1>2 DEF register_socket_transport, Life
  <2>4. life' \in [Transports -> Life]
    BY <2>3, <1>a
  <2> QED
    BY <1>2, <2>2, <2>4 DEF TypeOK, register_socket_transport, Pointers
<1>3. CASE register_usb_transport(t)
  <2>1. links' \in Pointers /\ reg' \in Seq((0..1) \X Transports)
    BY <1>3, <1>d, <1>e DEF register_usb_transport
  <2>2. life' \in [Transports -> Life]
    BY <1>3, <1>a DEF register_usb_transport, Life
  <2> QED
    BY <1>3, <2>1, <2>2 DEF TypeOK, register_usb_transport, Pointers
<1> QED
    BY <1>1, <1>2, <1>3 DEF Find

\* transport_registration_func().
LEMMA RegistrationType ==
    ASSUME TypeOK, NEW t \in Transports, MainRegister(t) \/ MainRemove(t)
    PROVE  TypeOK'
<1> USE DEF lists, device, pairs, session
<1>a. life \in [Transports -> Life]
    BY DEF TypeOK
<1>b. links \in Pointers
    BY DEF TypeOK, Pointers
<1>c. reg \in Seq((0..1) \X Transports)
    BY DEF TypeOK
<1>d. Unlink(links, t) \in Pointers
    BY <1>b, UnlinkType
<1>e. pc \in [Transports -> [Agent -> Where]]
    BY DEF TypeOK
<1>f. owner \in [Fd -> Transports \cup {"none"}]
    BY DEF TypeOK
<1>1. CASE MainRegister(t)
  <2>1. links' \in Pointers
    BY <1>1, <1>d, LinkLastType DEF MainRegister, OntoMasterList
  <2>2. reg' \in Seq((0..1) \X Transports)
    BY <1>1, <1>c DEF MainRegister
  <2>3. refs' = refs \/ refs' = [refs EXCEPT ![t] = 2]
    BY <1>1 DEF MainRegister, InitialReferences
  <2>4. refs' \in [Transports -> Int]
    BY <2>3, SMTT(60) DEF TypeOK
  <2>5. \/ fd' = fd /\ owner' = owner
        \/ \E f \in Fd : /\ fd' = [fd EXCEPT ![t] = f]
                         /\ owner' = [owner EXCEPT ![f] = t]
    BY <1>1 DEF MainRegister
  <2>6. fd \in [Transports -> 0..MaxFd] /\ Fd \subseteq 0..MaxFd
    BY LimitsAssumption DEF TypeOK, Fd
  <2>7. fd' \in [Transports -> 0..MaxFd]
    BY <2>5, <2>6
  <2>8. owner' \in [Fd -> Transports \cup {"none"}]
    BY <2>5, <1>f
  <2>9. pc' = pc \/ pc' = [pc EXCEPT ![t]["output"] = "start",
                                     ![t]["input"] = "read"]
    BY <1>1 DEF MainRegister
  <2>10. pc' \in [Transports -> [Agent -> Where]]
    BY <2>9, <1>e DEF Agent, Where
  <2>11. life' \in [Transports -> Life]
    BY <1>1, <1>a DEF MainRegister, Life
  <2> QED
    BY <1>1, <2>1, <2>2, <2>4, <2>7, <2>8, <2>10, <2>11
    DEF TypeOK, MainRegister, Pointers
<1>2. CASE MainRemove(t)
  <2>1. links' \in Pointers
    BY <1>2, <1>d DEF MainRemove
  <2>2. reg' \in Seq((0..1) \X Transports)
    BY <1>2, <1>c DEF MainRemove
  <2>3. owner' \in [Fd -> Transports \cup {"none"}]
    BY <1>2, <1>f DEF MainRemove
  <2>4. /\ toMain \in [Transports -> Seq(Packet)]
        /\ toIn \in [Transports -> Seq(Packet)]
    BY DEF TypeOK
  <2>5. /\ toMain' = [toMain EXCEPT ![t] = <<>>]
        /\ toIn' = [toIn EXCEPT ![t] = <<>>]
    BY <1>2 DEF MainRemove
  <2>6. /\ toMain' \in [Transports -> Seq(Packet)]
        /\ toIn' \in [Transports -> Seq(Packet)]
    BY <2>4, <2>5
  <2>7. life' \in [Transports -> Life]
    BY <1>2, <1>a DEF MainRemove, Life
  <2> QED
    BY <1>2, <2>1, <2>2, <2>3, <2>6, <2>7 DEF TypeOK, MainRemove, Pointers
<1> QED
    BY <1>1, <1>2

\* handle_packet().
LEMMA PacketStepType ==
    ASSUME TypeOK, NEW t \in Transports, HandleSync(t) \/ HandleCnxn(t)
    PROVE  TypeOK'
<1> USE DEF lists, device, pairs, session
<1>a. toMain \in [Transports -> Seq(Packet)] /\ toIn \in [Transports -> Seq(Packet)]
    BY DEF TypeOK
<1>b. toMain' = [toMain EXCEPT ![t] = Tail(@)] /\ toMain[t] # <<>>
    BY DEF HandleSync, HandleCnxn
<1>c. toMain' \in [Transports -> Seq(Packet)]
    BY <1>a, <1>b
<1>d. online \in [Transports -> BOOLEAN]
    BY DEF TypeOK
<1>1. CASE HandleSync(t)
  <2> DEFINE p == Head(toMain[t])
  <2>1. toIn[t] \in Seq(Packet) /\ p \in Packet
    BY <1>a, <1>b
  <2>2. \/ toIn' = [toIn EXCEPT ![t] = @ \o EchoAndConnect(p)] /\ online' = online
        \/ /\ toIn' = [toIn EXCEPT ![t] = Append(@, p)]
           /\ online' = [online EXCEPT ![t] = FALSE]
    BY <1>1 DEF HandleSync
  <2> HIDE DEF p
  <2>3. EchoAndConnect(p) \in Seq(Packet)
    BY <2>1, PacketType DEF EchoAndConnect
  <2>4. toIn[t] \o EchoAndConnect(p) \in Seq(Packet)
    BY <2>1, <2>3
  <2>5. Append(toIn[t], p) \in Seq(Packet)
    BY <2>1
  <2>6. toIn' \in [Transports -> Seq(Packet)]
    BY <1>a, <2>2, <2>4, <2>5
  <2>7. online' \in [Transports -> BOOLEAN]
    BY <1>d, <2>2
  <2> QED
    BY <1>1, <1>c, <2>6, <2>7 DEF TypeOK, HandleSync
<1>2. CASE HandleCnxn(t)
  <2>1. online' \in [Transports -> BOOLEAN]
    BY <1>2, <1>d DEF HandleCnxn
  <2> QED
    BY <1>2, <1>c, <2>1 DEF TypeOK, HandleCnxn
<1> QED
    BY <1>1, <1>2

\* output_thread() and input_thread().
LEMMA ThreadType ==
    ASSUME TypeOK, NEW t \in Transports, Output(t) \/ Input(t)
    PROVE  TypeOK'
<1> USE DEF lists, device, pairs, session
<1>a. toMain \in [Transports -> Seq(Packet)] /\ toIn \in [Transports -> Seq(Packet)]
    BY DEF TypeOK
<1>b. pc \in [Transports -> [Agent -> Where]]
    BY DEF TypeOK
<1>c. sync_token \in [Transports -> Nat]
    BY DEF TypeOK
<1>d. /\ [pc EXCEPT ![t]["output"] = "pump"] \in [Transports -> [Agent -> Where]]
      /\ [pc EXCEPT ![t]["output"] = "kick"] \in [Transports -> [Agent -> Where]]
      /\ [pc EXCEPT ![t]["input"] = "sweep"] \in [Transports -> [Agent -> Where]]
      /\ [pc EXCEPT ![t]["input"] = "kick"] \in [Transports -> [Agent -> Where]]
    BY <1>b DEF Agent, Where
<1>e. cnxn \in [Transports -> {"unsent", "sent", "answered"}]
    BY DEF TypeOK
<1>f. toMain[t] \in Seq(Packet)
    BY <1>a
<1>1. CASE OutputStart(t)
  <2>1. sync_token' \in [Transports -> Nat]
    BY <1>1, <1>c DEF OutputStart
  <2>2. sync_token'[t] \in Nat
    BY <2>1
  <2>3. Append(toMain[t], Sync(1, sync_token'[t])) \in Seq(Packet)
    BY <2>2, <1>f, PacketType
  <2>4. \/ toMain' = toMain
        \/ toMain' = [toMain EXCEPT ![t] = Append(@, Sync(1, sync_token'[t]))]
    BY <1>1 DEF OutputStart
  <2>5. toMain' \in [Transports -> Seq(Packet)]
    BY <2>3, <2>4, <1>a
  <2>6. pc' \in [Transports -> [Agent -> Where]]
    BY <1>1, <1>d DEF OutputStart
  <2> QED
    BY <1>1, <2>1, <2>5, <2>6 DEF TypeOK, OutputStart
<1>2. CASE OutputPump(t)
  <2>1. Append(toMain[t], Cnxn) \in Seq(Packet)
    BY <1>f, PacketType
  <2>2. toMain' = toMain \/ toMain' = [toMain EXCEPT ![t] = Append(@, Cnxn)]
    BY <1>2 DEF OutputPump
  <2>3. toMain' \in [Transports -> Seq(Packet)]
    BY <2>1, <2>2, <1>a
  <2>4. pc' \in [Transports -> [Agent -> Where]]
    BY <1>2, <1>b, <1>d DEF OutputPump
  <2>5. cnxn' \in [Transports -> {"unsent", "sent", "answered"}]
    BY <1>2, <1>e DEF OutputPump
  <2> QED
    BY <1>2, <2>3, <2>4, <2>5 DEF TypeOK, OutputPump
<1>3. CASE OutputFail(t)
  <2>1. Append(toMain[t], Sync(0, 0)) \in Seq(Packet)
    BY <1>f, PacketType
  <2>2. \/ toMain' = [toMain EXCEPT ![t] = toMain[t]]
        \/ toMain' = [toMain EXCEPT ![t] = Append(@, Sync(0, 0))]
    BY <1>3 DEF OutputFail, LastWord
  <2>3. toMain' \in [Transports -> Seq(Packet)]
    BY <2>1, <2>2, <1>a
  <2>4. pc' \in [Transports -> [Agent -> Where]]
    BY <1>3, <1>d DEF OutputFail
  <2> QED
    BY <1>3, <2>3, <2>4 DEF TypeOK, OutputFail
<1>4. CASE InputRead(t)
  <2>1. toIn' = [toIn EXCEPT ![t] = Tail(@)] /\ toIn[t] # <<>>
    BY <1>4 DEF InputRead
  <2>2. toIn' \in [Transports -> Seq(Packet)]
    BY <2>1, <1>a
  <2>3. pc' = pc \/ pc' = [pc EXCEPT ![t]["input"] = "sweep"]
    BY <1>4 DEF InputRead
  <2>4. pc' \in [Transports -> [Agent -> Where]]
    BY <2>3, <1>b, <1>d
  <2>5. active' = active \/ active' = [active EXCEPT ![t] = TRUE]
    BY <1>4 DEF InputRead
  <2>6. active' \in [Transports -> BOOLEAN]
    BY <2>5 DEF TypeOK
  <2>7. cnxn' = cnxn \/ cnxn' = [cnxn EXCEPT ![t] = "sent"]
    BY <1>4 DEF InputRead
  <2>8. cnxn' \in [Transports -> {"unsent", "sent", "answered"}]
    BY <2>7, <1>e
  <2> QED
    BY <1>4, <2>2, <2>4, <2>6, <2>8 DEF TypeOK, InputRead
<1>5. CASE InputFail(t)
  <2>1. pc' \in [Transports -> [Agent -> Where]]
    BY <1>5, <1>d DEF InputFail
  <2> QED
    BY <1>5, <2>1 DEF TypeOK, InputFail
<1>6. CASE InputSweep(t)
  <2>1. pc' \in [Transports -> [Agent -> Where]]
    BY <1>6, <1>d DEF InputSweep
  <2> QED
    BY <1>6, <2>1 DEF TypeOK, InputSweep
<1> QED
    BY <1>1, <1>2, <1>3, <1>4, <1>5, <1>6 DEF Output, Input

\* kick_transport() and transport_unref().
LEMMA LeaveType ==
    ASSUME TypeOK, NEW t \in Transports, NEW a \in Agent, Leave(t, a)
    PROVE  TypeOK'
<1> USE DEF lists, device, pairs, session
<1>a. pc \in [Transports -> [Agent -> Where]]
    BY DEF TypeOK
<1>b. /\ [pc EXCEPT ![t][a] = "unref"] \in [Transports -> [Agent -> Where]]
      /\ [pc EXCEPT ![t][a] = "lock"] \in [Transports -> [Agent -> Where]]
      /\ [pc EXCEPT ![t][a] = "kicking"] \in [Transports -> [Agent -> Where]]
      /\ [pc EXCEPT ![t][a] = "none"] \in [Transports -> [Agent -> Where]]
      /\ [pc EXCEPT ![t][a] = "done"] \in [Transports -> [Agent -> Where]]
    BY <1>a, PcType DEF Where
<1>c. kicked \in [Transports -> BOOLEAN]
    BY DEF TypeOK
<1>d. /\ dev \in [Transports -> {"up", "down"}]
      /\ kicks \in [Transports -> Nat]
      /\ closes \in [Transports -> Nat]
      /\ slots \subseteq Emulators
    BY DEF TypeOK
<1>e. ASSUME remote_kick(t)
      PROVE  /\ dev' \in [Transports -> {"up", "down"}]
             /\ kicks' \in [Transports -> Nat]
             /\ slots' \subseteq Emulators
    BY <1>d, <1>e DEF remote_kick
<1>1. CASE KickTest(t, a)
  <2>1. \E w \in {"unref", "lock"} : pc' = [pc EXCEPT ![t][a] = w]
    BY <1>1 DEF KickTest, Goto
  <2>2. pc' \in [Transports -> [Agent -> Where]]
    BY <2>1, <1>b
  <2> QED
    BY <1>1, <2>2 DEF TypeOK, KickTest
<1>2. CASE KickLock(t, a)
  <2>1. \E w \in {"unref", "kicking"} : pc' = [pc EXCEPT ![t][a] = w]
    BY <1>2 DEF KickLock, Goto
  <2>2. pc' \in [Transports -> [Agent -> Where]]
    BY <2>1, <1>b
  <2>3. kicked' \in [Transports -> BOOLEAN]
    BY <1>2, <1>c DEF KickLock
  <2> QED
    BY <1>2, <2>2, <2>3 DEF TypeOK, KickLock
<1>3. CASE KickRun(t, a)
  <2>1. remote_kick(t)
    BY <1>3 DEF KickRun
  <2>2. pc' \in [Transports -> [Agent -> Where]]
    BY <1>3, <1>b DEF KickRun, Goto
  <2>3. /\ dev' \in [Transports -> {"up", "down"}]
        /\ kicks' \in [Transports -> Nat]
        /\ slots' \subseteq Emulators
    BY <2>1, <1>e
  <2> QED
    BY <1>3, <2>2, <2>3 DEF TypeOK, KickRun
<1>4. CASE Unref(t, a)
  <2>1. \E w \in {"none", "done"} : pc' = [pc EXCEPT ![t][a] = w]
    BY <1>4 DEF Unref, Goto
  <2>2. pc' \in [Transports -> [Agent -> Where]]
    BY <2>1, <1>b
  <2>3. refs' \in [Transports -> Int]
    BY <1>4 DEF TypeOK, Unref
  <2>4. CASE NoneLeft(refs'[t])
    <3>1. kicked' \in [Transports -> BOOLEAN]
      BY <1>4, <2>4, <1>c DEF Unref
    <3>2. (dev' = dev /\ kicks' = kicks /\ slots' = slots) \/ remote_kick(t)
      BY <1>4, <2>4 DEF Unref
    <3>3. /\ dev' \in [Transports -> {"up", "down"}]
          /\ kicks' \in [Transports -> Nat]
          /\ slots' \subseteq Emulators
      BY <3>2, <1>d, <1>e
    <3>4. remote_close(t) /\ reg' = Append(reg, <<0, t>>)
      BY <1>4, <2>4 DEF Unref
    <3>5. closes' \in [Transports -> Nat]
      BY <3>4, <1>d DEF remote_close
    <3>6. owner' \in [Fd -> Transports \cup {"none"}]
      BY <3>4 DEF TypeOK, remote_close
    <3>7. reg' \in Seq((0..1) \X Transports)
      BY <3>4 DEF TypeOK
    <3> QED
      BY <1>4, <2>2, <2>3, <3>1, <3>3, <3>5, <3>6, <3>7 DEF TypeOK, Unref
  <2>5. CASE ~NoneLeft(refs'[t])
    <3>1. UNCHANGED <<slots, reg, device, owner>>
      BY <1>4, <2>5 DEF Unref
    <3> QED
      BY <1>4, <3>1, <2>2, <2>3 DEF TypeOK, Unref
  <2> QED
    BY <2>4, <2>5
<1> QED
    BY <1>1, <1>2, <1>3, <1>4 DEF Leave

\* The environment and "disconnect:".
LEMMA OutsideType ==
    ASSUME TypeOK, NEW t \in Transports,
           Unregister(t) \/ unregister_usb_transport(t) \/ LinkDown(t)
    PROVE  TypeOK'
<1> USE DEF lists, device, pairs, session
<1>a. links \in Pointers
    BY DEF TypeOK, Pointers
<1>b. Unlink(links, t) \in Pointers
    BY <1>a, UnlinkType
<1>c. dev \in [Transports -> {"up", "down"}]
    BY DEF TypeOK
<1>d. [pc EXCEPT ![t]["main"] = "kick"] \in [Transports -> [Agent -> Where]]
    BY DEF TypeOK, Agent, Where
<1>1. CASE Unregister(t)
  <2>1. links' \in Pointers /\ pc' \in [Transports -> [Agent -> Where]]
    BY <1>1, <1>b, <1>d DEF Unregister, Goto
  <2> QED
    BY <1>1, <2>1 DEF TypeOK, Unregister, Pointers
<1>2. CASE unregister_usb_transport(t)
  <2>1. links' = links \/ links' = Unlink(links, t)
    BY <1>2 DEF unregister_usb_transport
  <2>2. links' \in Pointers
    BY <2>1, <1>a, <1>b
  <2>3. dev' \in [Transports -> {"up", "down"}]
    BY <1>2, <1>c DEF unregister_usb_transport
  <2> QED
    BY <1>2, <2>2, <2>3 DEF TypeOK, unregister_usb_transport, Pointers
<1>3. CASE LinkDown(t)
  <2>1. dev' \in [Transports -> {"up", "down"}]
    BY <1>3, <1>c DEF LinkDown
  <2> QED
    BY <1>3, <2>1 DEF TypeOK, LinkDown
<1> QED
    BY <1>1, <1>2, <1>3

\* TypeOK is inductive.
LEMMA TypeStep == TypeOK /\ [Next]_vars => TypeOK'
<1> SUFFICES ASSUME TypeOK, [Next]_vars PROVE TypeOK'
    OBVIOUS
<1>1. CASE UNCHANGED vars
    BY <1>1 DEF vars, TypeOK
<1>2. CASE Next
  <2>1. PICK t \in Transports :
            \/ Find(t) \/ Main(t) \/ Output(t) \/ Input(t)
            \/ \E a \in Agent : Leave(t, a)
            \/ Unregister(t) \/ unregister_usb_transport(t) \/ LinkDown(t)
    BY <1>2 DEF Next
  <2> QED
    BY <2>1, FindType, RegistrationType, PacketStepType, ThreadType, LeaveType,
       OutsideType DEF Main
<1> QED
    BY <1>1, <1>2

\* Every behaviour of the transports stays within the declared types.
THEOREM TypeCorrect == Spec => []TypeOK
<1>1. Init => TypeOK
    BY InitType
<1>2. TypeOK /\ [Next]_vars => TypeOK'
    BY TypeStep
<1> QED
    BY <1>1, <1>2, PTL DEF Spec

-----------------------------------------------------------------------------
(* kick_transport(). *)

\* Whoever is about to call t->kick() is the first and has set kicked.
KickInvOf(t) ==
    /\ ~kicked[t] => kicks[t] = 0 /\ \A a \in Agent : pc[t][a] # "kicking"
    /\ \A a \in Agent : pc[t][a] = "kicking" => kicks[t] = 0
    /\ \A a, b \in Agent :
          pc[t][a] = "kicking" /\ pc[t][b] = "kicking" => a = b
    /\ kicks[t] <= 1

KickInv == \A t \in Transports : KickInvOf(t)

\* A step that neither kicks nor sends an agent to kick.
LEMMA KickKept ==
    ASSUME KickInv, kicked' = kicked, kicks' = kicks,
           \A t \in Transports, a \in Agent :
               pc'[t][a] = "kicking" => pc[t][a] = "kicking"
    PROVE  KickInv'
    BY DEF KickInv, KickInvOf

\* Moving one agent to a place other than "kicking".
LEMMA GotoElsewhere ==
    ASSUME pc \in [Transports -> [Agent -> Where]],
           NEW t \in Transports, NEW a \in Agent, NEW w, w # "kicking",
           pc' = [pc EXCEPT ![t][a] = w]
    PROVE  \A u \in Transports, b \in Agent :
               pc'[u][b] = "kicking" => pc[u][b] = "kicking"
    OBVIOUS

\* KickInv is inductive, given the types.
LEMMA KickStep == TypeOK /\ KickInv /\ [Next]_vars => KickInv'
<1> SUFFICES ASSUME TypeOK, KickInv, [Next]_vars PROVE KickInv'
    OBVIOUS
<1> USE DEF lists, device, pairs, session
<1>a. pc \in [Transports -> [Agent -> Where]]
    BY DEF TypeOK
<1>b. kicked \in [Transports -> BOOLEAN] /\ kicks \in [Transports -> Nat]
    BY DEF TypeOK
<1>c. "output" \in Agent /\ "input" \in Agent /\ "main" \in Agent
    BY DEF Agent
<1>1. CASE UNCHANGED vars
    BY <1>1, KickKept DEF vars
<1>2. ASSUME NEW t \in Transports, Find(t)
      PROVE  KickInv'
  <2>1. kicked' = kicked /\ kicks' = kicks /\ pc' = pc
    BY <1>2 DEF Find, init_socket_transport, register_socket_transport,
                register_usb_transport
  <2> QED
    BY <2>1, KickKept
<1>3. ASSUME NEW t \in Transports, Main(t)
      PROVE  KickInv'
  <2>1. kicked' = kicked /\ kicks' = kicks
    BY <1>3 DEF Main, MainRegister, MainRemove, HandleSync, HandleCnxn
  <2>2. pc' = pc \/ pc' = [pc EXCEPT ![t]["output"] = "start",
                                     ![t]["input"] = "read"]
    BY <1>3 DEF Main, MainRegister, MainRemove, HandleSync, HandleCnxn
  <2>3. \A u \in Transports, b \in Agent :
            pc'[u][b] = "kicking" => pc[u][b] = "kicking"
    BY <2>2, <1>a, <1>c
  <2> QED
    BY <2>1, <2>3, KickKept
<1>4. ASSUME NEW t \in Transports, Output(t) \/ Input(t)
      PROVE  KickInv'
  <2>1. kicked' = kicked /\ kicks' = kicks
    BY <1>4 DEF Output, Input, OutputStart, OutputPump, OutputFail, InputRead,
                InputFail, InputSweep
  <2>2. \/ pc' = pc
        \/ \E a \in Agent, w \in Where \ {"kicking"} :
              pc' = [pc EXCEPT ![t][a] = w]
    BY <1>4, <1>c DEF Output, Input, OutputStart, OutputPump, OutputFail,
                InputRead, InputFail, InputSweep, Where
  <2>3. \A u \in Transports, b \in Agent :
            pc'[u][b] = "kicking" => pc[u][b] = "kicking"
    BY <2>2, <1>a, GotoElsewhere
  <2> QED
    BY <2>1, <2>3, KickKept
<1>5. ASSUME NEW t \in Transports, NEW a \in Agent, Leave(t, a)
      PROVE  KickInv'
  <2>1. CASE KickTest(t, a)
    <3>1. kicked' = kicked /\ kicks' = kicks
      BY <2>1 DEF KickTest
    <3>2. \E w \in {"unref", "lock"} : pc' = [pc EXCEPT ![t][a] = w]
      BY <2>1 DEF KickTest, Goto
    <3>3. \A u \in Transports, b \in Agent :
              pc'[u][b] = "kicking" => pc[u][b] = "kicking"
      BY <3>2, <1>a
    <3> QED
      BY <3>1, <3>3, KickKept
  <2>2. CASE KickLock(t, a)
    <3>1. kicked' = [kicked EXCEPT ![t] = TRUE] /\ kicks' = kicks
      BY <2>2 DEF KickLock
    <3>2. pc' = [pc EXCEPT ![t][a] = IF kicked[t] THEN "unref" ELSE "kicking"]
      BY <2>2 DEF KickLock, Goto
    <3> QED
      BY <3>1, <3>2, <1>a, <1>b DEF KickInv, KickInvOf
  <2>3. CASE KickRun(t, a)
    <3>1. /\ kicked' = kicked
          /\ kicks' = [kicks EXCEPT ![t] = @ + 1]
          /\ pc' = [pc EXCEPT ![t][a] = "unref"]
          /\ pc[t][a] = "kicking"
      BY <2>3 DEF KickRun, remote_kick, Goto
    <3> QED
      BY <3>1, <1>a, <1>b DEF KickInv, KickInvOf
  <2>4. CASE Unref(t, a)
    <3>1. \E w \in {"none", "done"} : pc' = [pc EXCEPT ![t][a] = w]
      BY <2>4 DEF Unref, Goto
    <3>2. \A u \in Transports, b \in Agent :
              pc'[u][b] = "kicking" => pc[u][b] = "kicking"
      BY <3>1, <1>a
    <3>3. CASE kicked[t]
      <4>1. kicked' = kicked \/ kicked' = [kicked EXCEPT ![t] = TRUE]
        BY <2>4 DEF Unref
      <4>2. kicked' = kicked
        BY <3>3, <4>1, <1>b
      <4>3. kicks' = kicks
        BY <2>4, <3>3 DEF Unref
      <4> QED
        BY <3>2, <4>2, <4>3, KickKept
    <3>4. CASE ~kicked[t]
      <4>1. \/ kicked' = kicked /\ kicks' = kicks
            \/ /\ kicked' = [kicked EXCEPT ![t] = TRUE]
               /\ kicks' = [kicks EXCEPT ![t] = @ + 1]
        BY <2>4, <3>4 DEF Unref, remote_kick
      <4>2. CASE kicked' = kicked /\ kicks' = kicks
        BY <3>2, <4>2, KickKept
      <4>3. CASE /\ kicked' = [kicked EXCEPT ![t] = TRUE]
                 /\ kicks' = [kicks EXCEPT ![t] = @ + 1]
        BY <4>3, <3>4, <3>2, <1>b DEF KickInv, KickInvOf
      <4> QED
        BY <4>1, <4>2, <4>3
    <3> QED
      BY <3>3, <3>4
  <2> QED
    BY <1>5, <2>1, <2>2, <2>3, <2>4 DEF Leave
<1>6. ASSUME NEW t \in Transports,
             Unregister(t) \/ unregister_usb_transport(t) \/ LinkDown(t)
      PROVE  KickInv'
  <2>1. kicked' = kicked /\ kicks' = kicks
    BY <1>6 DEF Unregister, unregister_usb_transport, LinkDown
  <2>2. pc' = pc \/ pc' = [pc EXCEPT ![t]["main"] = "kick"]
    BY <1>6 DEF Unregister, unregister_usb_transport, LinkDown, Goto
  <2>3. \A u \in Transports, b \in Agent :
            pc'[u][b] = "kicking" => pc[u][b] = "kicking"
    BY <2>2, <1>a, <1>c
  <2> QED
    BY <2>1, <2>3, KickKept
<1> QED
    BY <1>1, <1>2, <1>3, <1>4, <1>5, <1>6 DEF Next

\* Output thread, input thread and main thread race through the double check
\* of kick_transport() and through transport_unref_locked(): t->kick() runs at
\* most once, also for transports that are being disconnected.
THEOREM KickHolds == Spec => []KickedOnce
<1>1. Init => KickInv
    BY DEF Init, KickInv, KickInvOf
<1>2. TypeOK /\ KickInv /\ [Next]_vars => KickInv'
    BY KickStep
<1>3. KickInv => KickedOnce
    BY DEF KickInv, KickInvOf, KickedOnce
<1>4. Spec => []TypeOK
    BY TypeCorrect
<1> QED
    BY <1>1, <1>2, <1>3, <1>4, PTL DEF Spec

-----------------------------------------------------------------------------
(* transport_unref(). *)

\* A thread at x holds one of the references that InitialReferences counts.
Holds(x) == IF x \in {"none", "done"} THEN 0 ELSE 1

\* No thread of t has been started.
NotStarted(t) == pc[t]["output"] = "none"

\* The message that starts the threads is sent once, for a pending transport;
\* the one that frees it, only after that.
RegisterInv ==
    /\ \A i \in DOMAIN reg :
          life[reg[i][2]] \in IF reg[i][1] = 1 THEN {"pending"}
                                               ELSE {"running", "freed"}
    /\ \A i, j \in DOMAIN reg : reg[i][1] = 1 /\ reg[i] = reg[j] => i = j

\* Once the threads run, ref_count is the number of them that have not let go.
RefInvOf(t) ==
    /\ pc[t]["main"] = "none"
    /\ pc[t]["input"] = "none" <=> NotStarted(t)
    /\ life[t] \notin {"running", "freed"} => NotStarted(t)
    /\ IF NotStarted(t)
       THEN closes[t] = 0
       ELSE refs[t] = Holds(pc[t]["output"]) + Holds(pc[t]["input"])
    /\ closes[t] > 0 => ThreadsExited(t)

RefInv == \A t \in Transports \ Disconnect : RefInvOf(t)

\* Indices of a queue that lost its head.
LEMMA TailIndex ==
    ASSUME NEW S, NEW q \in Seq(S), q # <<>>
    PROVE  \A i \in DOMAIN Tail(q) : i + 1 \in DOMAIN q /\ Tail(q)[i] = q[i + 1]
    OBVIOUS

\* Indices of a queue that got one more entry.
LEMMA AppendIndex ==
    ASSUME NEW S, NEW q \in Seq(S), NEW x \in S
    PROVE  \A i \in DOMAIN Append(q, x) :
               \/ i \in DOMAIN q /\ Append(q, x)[i] = q[i]
               \/ i = Len(q) + 1 /\ Append(q, x)[i] = x
    OBVIOUS

\* What the main thread takes from the registration socket.
LEMMA RegisterTail ==
    ASSUME TypeOK, RegisterInv, NEW t \in Transports, NEW n \in {0, 1},
           reg # <<>>, Head(reg) = <<n, t>>, reg' = Tail(reg),
           NEW w \in {"running", "freed"}, life' = [life EXCEPT ![t] = w]
    PROVE  RegisterInv' /\ (n = 1 => life[t] = "pending")
<1>1. reg \in Seq((0..1) \X Transports) /\ life \in [Transports -> Life]
    BY DEF TypeOK
<1>2. \A i \in DOMAIN reg' : i + 1 \in DOMAIN reg /\ reg'[i] = reg[i + 1]
    BY <1>1, TailIndex
<1>3. 1 \in DOMAIN reg /\ reg[1] = <<n, t>>
    BY <1>1
<1>4. \A i \in DOMAIN reg : i \in Nat \ {0} /\ reg[i] \in (0..1) \X Transports
    BY <1>1
<1>5. n = 1 => life[t] = "pending"
    BY <1>3 DEF RegisterInv
<1>6. \A i \in DOMAIN reg' : reg'[i][1] = 1 => reg'[i][2] # t
  <2> SUFFICES ASSUME NEW i \in DOMAIN reg', reg'[i][1] = 1, reg'[i][2] = t
               PROVE  FALSE
    OBVIOUS
  <2>1. i + 1 \in DOMAIN reg /\ reg[i + 1][1] = 1 /\ reg[i + 1][2] = t
    BY <1>2
  <2>2. reg[i + 1] = <<1, t>> /\ life[t] = "pending"
    BY <2>1, <1>4 DEF RegisterInv
  <2>3. n = 1
    BY <2>2, <1>3 DEF RegisterInv
  <2>4. i + 1 = 1
    BY <2>1, <2>2, <2>3, <1>3 DEF RegisterInv
  <2>5. i \in Nat \ {0}
    BY <1>1
  <2> QED
    BY <2>4, <2>5
<1>7. \A i \in DOMAIN reg' :
          life'[reg'[i][2]] \in IF reg'[i][1] = 1 THEN {"pending"}
                                                ELSE {"running", "freed"}
  <2> SUFFICES ASSUME NEW i \in DOMAIN reg'
               PROVE  life'[reg'[i][2]] \in
                          IF reg'[i][1] = 1 THEN {"pending"} ELSE {"running", "freed"}
    OBVIOUS
  <2>1. reg'[i][2] \in Transports
    BY <1>2, <1>4
  <2>2. life[reg'[i][2]] \in IF reg'[i][1] = 1 THEN {"pending"}
                                               ELSE {"running", "freed"}
    BY <1>2 DEF RegisterInv
  <2>3. CASE reg'[i][2] = t
    BY <2>1, <2>3, <1>1, <1>6
  <2>4. CASE reg'[i][2] # t
    BY <2>1, <2>2, <2>4, <1>1
  <2> QED
    BY <2>3, <2>4
<1>8. \A i, j \in DOMAIN reg' : reg'[i][1] = 1 /\ reg'[i] = reg'[j] => i = j
  <2> SUFFICES ASSUME NEW i \in DOMAIN reg', NEW j \in DOMAIN reg',
                      reg'[i][1] = 1, reg'[i] = reg'[j]
               PROVE  i = j
    OBVIOUS
  <2>1. i + 1 = j + 1
    BY <1>2 DEF RegisterInv
  <2>2. i \in Nat /\ j \in Nat
    BY <1>1
  <2> QED
    BY <2>1, <2>2
<1> QED
    BY <1>5, <1>7, <1>8 DEF RegisterInv

\* What the other threads put into it.
LEMMA RegisterAppend ==
    ASSUME TypeOK, RegisterInv, NEW t \in Transports, NEW n \in {0, 1},
           reg' = Append(reg, <<n, t>>),
           \/ n = 0 /\ life[t] = "running" /\ life' = life
           \/ /\ n = 1 /\ life[t] \in {"unborn", "init"}
              /\ life' = [life EXCEPT ![t] = "pending"]
    PROVE  RegisterInv'
<1>1. reg \in Seq((0..1) \X Transports) /\ life \in [Transports -> Life]
    BY DEF TypeOK
<1>2. <<n, t>> \in (0..1) \X Transports
    OBVIOUS
<1>3. \A i \in DOMAIN reg' :
          \/ i \in DOMAIN reg /\ reg'[i] = reg[i]
          \/ i = Len(reg) + 1 /\ reg'[i] = <<n, t>>
    BY <1>1, <1>2, AppendIndex
<1>4. \A i \in DOMAIN reg : reg[i] \in (0..1) \X Transports
    BY <1>1
<1>5. n = 1 => \A i \in DOMAIN reg : reg[i][2] # t
    BY DEF RegisterInv
<1>6. \A i \in DOMAIN reg' :
          life'[reg'[i][2]] \in IF reg'[i][1] = 1 THEN {"pending"}
                                                ELSE {"running", "freed"}
  <2> SUFFICES ASSUME NEW i \in DOMAIN reg'
               PROVE  life'[reg'[i][2]] \in
                          IF reg'[i][1] = 1 THEN {"pending"} ELSE {"running", "freed"}
    OBVIOUS
  <2>1. CASE i \in DOMAIN reg /\ reg'[i] = reg[i]
    <3>1. reg[i][2] \in Transports
      BY <2>1, <1>4
    <3>2. life[reg[i][2]] \in IF reg[i][1] = 1 THEN {"pending"}
                                               ELSE {"running", "freed"}
      BY <2>1 DEF RegisterInv
    <3>3. life'[reg[i][2]] = life[reg[i][2]]
      BY <3>1, <2>1, <1>1, <1>5
    <3> QED
      BY <2>1, <3>2, <3>3
  <2>2. CASE reg'[i] = <<n, t>>
    BY <2>2, <1>1
  <2> QED
    BY <2>1, <2>2, <1>3
<1>7. \A i, j \in DOMAIN reg' : reg'[i][1] = 1 /\ reg'[i] = reg'[j] => i = j
  <2> SUFFICES ASSUME NEW i \in DOMAIN reg', NEW j \in DOMAIN reg',
                      reg'[i][1] = 1, reg'[i] = reg'[j]
               PROVE  i = j
    OBVIOUS
  <2>1. CASE n = 1
    BY <2>1, <1>3, <1>5 DEF RegisterInv
  <2>2. CASE n = 0
    BY <2>2, <1>3 DEF RegisterInv
  <2> QED
    BY <2>1, <2>2
<1> QED
    BY <1>6, <1>7 DEF RegisterInv

\* A step that leaves the references of u alone: its threads move, if at all,
\* between places where they hold one.
Same(u) ==
    /\ refs'[u] = refs[u] /\ closes'[u] = closes[u]
    /\ pc'[u]["main"] = pc[u]["main"]
    /\ \A x \in {"output", "input"} :
          \/ pc'[u][x] = pc[u][x]
          \/ pc[u][x] \notin {"none", "done"} /\ pc'[u][x] \notin {"none", "done"}
    /\ life[u] \in {"running", "freed"} => life'[u] \in {"running", "freed"}

\* A transport whose counters stand still keeps its part of the invariant.
LEMMA SameKeeps ==
    ASSUME NEW u \in Transports, RefInvOf(u), Same(u)
    PROVE  RefInvOf(u)'
<1>1. \A x \in {"output", "input"} :
          /\ pc'[u][x] = "none" <=> pc[u][x] = "none"
          /\ pc'[u][x] = "done" <=> pc[u][x] = "done"
          /\ Holds(pc'[u][x]) = Holds(pc[u][x])
    BY DEF Same, Holds
<1>2. NotStarted(u)' <=> NotStarted(u)
    BY <1>1 DEF NotStarted
<1>3. ThreadsExited(u)' <=> ThreadsExited(u)
    BY <1>1 DEF ThreadsExited
<1> QED
    BY <1>1, <1>2, <1>3 DEF RefInvOf, Same

\* Steps that touch neither the counters nor a place where nothing is held.
LEMMA SameStep ==
    ASSUME TypeOK, NEW t \in Transports, NEW a \in {"output", "input"},
           NEW w \in Where \ {"none", "done"},
           refs' = refs, closes' = closes, life' = life,
           pc' = pc \/ /\ pc' = [pc EXCEPT ![t][a] = w]
                       /\ pc[t][a] \notin {"none", "done"}
    PROVE  \A u \in Transports : Same(u)
<1>1. pc \in [Transports -> [Agent -> Where]]
    BY DEF TypeOK
<1> QED
    BY <1>1 DEF Same, Agent

\* The counters and places of every transport but t are unchanged.
LEMMA OthersSame ==
    ASSUME NEW t \in Transports, NEW u \in Transports, u # t,
           refs'[u] = refs[u], closes'[u] = closes[u], life'[u] = life[u],
           pc'[u] = pc[u]
    PROVE  Same(u)
    BY DEF Same

-----------------------------------------------------------------------------
(* One lemma for each kind of step. *)

\* A transport that is found or registered has no references and no threads.
LEMMA FindRefs ==
    ASSUME TypeOK, RegisterInv, RefInv, NEW t \in Transports, Find(t)
    PROVE  RegisterInv' /\ RefInv'
<1> USE DEF lists, device, pairs, session
<1>a. life \in [Transports -> Life]
    BY DEF TypeOK
<1>1. refs' = refs /\ closes' = closes /\ pc' = pc
    BY DEF Find, init_socket_transport, register_socket_transport,
           register_usb_transport
<1>2. life[t] \in {"unborn", "init"} /\ \E w \in Life : life' = [life EXCEPT ![t] = w]
    BY DEF Find, init_socket_transport, register_socket_transport,
           register_usb_transport, Life
<1>3. RefInv'
  <2>1. \A u \in Transports : Same(u)
    BY <1>1, <1>2, <1>a DEF Same
  <2> QED
    BY <2>1, SameKeeps DEF RefInv
<1>4. CASE reg' = reg
  <2>1. \A i \in DOMAIN reg : reg[i] \in (0..1) \X Transports
    BY DEF TypeOK
  <2>2. \A i \in DOMAIN reg : reg[i][2] # t
    BY <1>2 DEF RegisterInv
  <2>3. \A i \in DOMAIN reg : life'[reg[i][2]] = life[reg[i][2]]
    BY <2>1, <2>2, <1>2, <1>a
  <2> QED
    BY <1>3, <1>4, <2>3 DEF RegisterInv
<1>5. CASE reg' # reg
  <2>1. /\ reg' = Append(reg, <<1, t>>)
        /\ life' = [life EXCEPT ![t] = "pending"]
    BY <1>5 DEF Find, init_socket_transport, register_socket_transport,
                register_usb_transport
  <2>2. RegisterInv'
    BY <2>1, <1>2, RegisterAppend
  <2> QED
    BY <1>3, <2>2
<1> QED
    BY <1>4, <1>5

\* The main thread sets the references of a transport when it starts its
\* threads, and frees only what nobody holds.
LEMMA RegistrationRefs ==
    ASSUME TypeOK, RegisterInv, RefInv, NEW t \in Transports,
           MainRegister(t) \/ MainRemove(t)
    PROVE  RegisterInv' /\ RefInv'
<1> USE DEF lists, device, pairs, session
<1>a. life \in [Transports -> Life] /\ pc \in [Transports -> [Agent -> Where]]
    BY DEF TypeOK
<1>b. refs \in [Transports -> Int] /\ closes \in [Transports -> Nat]
    BY DEF TypeOK
<1>1. CASE MainRegister(t)
  <2>1. /\ reg # <<>> /\ Head(reg) = <<1, t>> /\ reg' = Tail(reg)
        /\ life' = [life EXCEPT ![t] = "running"]
        /\ closes' = closes
    BY <1>1 DEF MainRegister
  <2>2. RegisterInv' /\ life[t] = "pending"
    BY <2>1, RegisterTail
  <2>3. \/ refs' = refs /\ pc' = pc
        \/ /\ refs' = [refs EXCEPT ![t] = 2]
           /\ pc' = [pc EXCEPT ![t]["output"] = "start", ![t]["input"] = "read"]
    BY <1>1 DEF MainRegister, InitialReferences
  <2>4. ASSUME NEW u \in Transports \ Disconnect
        PROVE  RefInvOf(u)'
    <3>1. RefInvOf(u)
      BY DEF RefInv
    <3>2. CASE u # t
      <4>1. Same(u)
        BY <2>1, <2>3, <3>2, <1>a, <1>b, OthersSame
      <4> QED
        BY <3>1, <4>1, SameKeeps
    <3>3. CASE u = t /\ refs' = refs /\ pc' = pc
      <4>1. Same(u)
        BY <3>3, <2>1, <1>a DEF Same
      <4> QED
        BY <3>1, <4>1, SameKeeps
    <3>4. CASE /\ u = t
               /\ refs' = [refs EXCEPT ![t] = 2]
               /\ pc' = [pc EXCEPT ![t]["output"] = "start", ![t]["input"] = "read"]
      <4>1. NotStarted(t) /\ closes[t] = 0 /\ pc[t]["main"] = "none"
        BY <3>1, <3>4, <2>2 DEF RefInvOf
      <4>2. /\ refs'[t] = 2 /\ closes'[t] = 0
            /\ pc'[t]["output"] = "start" /\ pc'[t]["input"] = "read"
            /\ pc'[t]["main"] = "none"
            /\ life'[t] = "running"
        BY <4>1, <3>4, <2>1, <1>a, <1>b DEF Agent
      <4> QED
        BY <4>2, <3>4 DEF RefInvOf, NotStarted, Holds, ThreadsExited
    <3> QED
      BY <2>3, <3>2, <3>3, <3>4
  <2> QED
    BY <2>2, <2>4 DEF RefInv
<1>2. CASE MainRemove(t)
  <2>1. /\ reg # <<>> /\ Head(reg) = <<0, t>> /\ reg' = Tail(reg)
        /\ life' = [life EXCEPT ![t] = "freed"]
        /\ closes' = closes /\ refs' = refs /\ pc' = pc
    BY <1>2 DEF MainRemove
  <2>2. RegisterInv'
    BY <2>1, RegisterTail
  <2>3. \A u \in Transports : Same(u)
    BY <2>1, <1>a DEF Same
  <2> QED
    BY <2>2, <2>3, SameKeeps DEF RefInv
<1> QED
    BY <1>1, <1>2

\* Packets between the threads touch no reference.
LEMMA PumpRefs ==
    ASSUME TypeOK, RegisterInv, RefInv, NEW t \in Transports,
           HandleSync(t) \/ HandleCnxn(t) \/ Output(t) \/ Input(t)
    PROVE  RegisterInv' /\ RefInv'
<1> USE DEF lists, device, pairs, session
<1>1. refs' = refs /\ closes' = closes /\ life' = life /\ reg' = reg
    BY DEF HandleSync, HandleCnxn, Output, Input, OutputStart, OutputPump,
           OutputFail, InputRead, InputFail, InputSweep
<1>2. \/ pc' = pc
      \/ \E a \in {"output", "input"}, w \in Where \ {"none", "done"} :
            /\ pc' = [pc EXCEPT ![t][a] = w]
            /\ pc[t][a] \notin {"none", "done"}
    BY DEF HandleSync, HandleCnxn, Output, Input, OutputStart, OutputPump,
           OutputFail, InputRead, InputFail, InputSweep, Where
<1>3. "kick" \in Where \ {"none", "done"}
    BY DEF Where
<1>4. \A u \in Transports : Same(u)
    BY <1>1, <1>2, <1>3, SameStep
<1> QED
    BY <1>1, <1>4, SameKeeps DEF RefInv, RegisterInv

\* A client may only disconnect a transport of Disconnect; devices hold
\* nothing.
LEMMA OutsideRefs ==
    ASSUME TypeOK, RegisterInv, RefInv, NEW t \in Transports,
           Unregister(t) \/ unregister_usb_transport(t) \/ LinkDown(t)
    PROVE  RegisterInv' /\ RefInv'
<1> USE DEF lists, device, pairs, session
<1>1. refs' = refs /\ closes' = closes /\ life' = life /\ reg' = reg
    BY DEF Unregister, unregister_usb_transport, LinkDown
<1>2. pc' = pc \/ /\ pc' = [pc EXCEPT ![t]["main"] = "kick"]
                  /\ t \in Disconnect
    BY DEF Unregister, unregister_usb_transport, LinkDown, Goto
<1>3. \A u \in Transports \ Disconnect : pc'[u] = pc[u]
    BY <1>2 DEF TypeOK
<1>4. \A u \in Transports \ Disconnect : Same(u)
    BY <1>1, <1>3 DEF Same
<1> QED
    BY <1>1, <1>4, SameKeeps DEF RefInv, RegisterInv

\* An agent that leaves gives up exactly the reference it had.
LEMMA LeaveRefs ==
    ASSUME TypeOK, RegisterInv, RefInv, NEW t \in Transports, NEW a \in Agent,
           Leave(t, a)
    PROVE  RegisterInv' /\ RefInv'
<1> USE DEF lists, device, pairs, session
<1>a. pc \in [Transports -> [Agent -> Where]]
    BY DEF TypeOK
<1>b. refs \in [Transports -> Int] /\ closes \in [Transports -> Nat]
    BY DEF TypeOK
<1>1. CASE KickTest(t, a) \/ KickLock(t, a) \/ KickRun(t, a)
  <2>1. refs' = refs /\ closes' = closes /\ life' = life /\ reg' = reg
    BY <1>1 DEF KickTest, KickLock, KickRun
  <2>2. \E w \in {"lock", "kicking", "unref"} : pc' = [pc EXCEPT ![t][a] = w]
    BY <1>1 DEF KickTest, KickLock, KickRun, Goto
  <2>3. pc[t][a] \notin {"none", "done"}
    BY <1>1 DEF KickTest, KickLock, KickRun
  <2>4. ASSUME NEW u \in Transports \ Disconnect
        PROVE  Same(u)
    <3>1. u = t => a # "main"
      BY <2>3 DEF RefInv, RefInvOf
    <3> QED
      BY <2>1, <2>2, <2>3, <3>1, <1>a DEF Same, Agent
  <2> QED
    BY <2>1, <2>4, SameKeeps DEF RefInv, RegisterInv
<1>2. CASE Unref(t, a)
  <2>1. /\ Alive(t) /\ pc[t][a] = "unref"
        /\ refs' = [refs EXCEPT ![t] = @ - 1]
        /\ pc' = [pc EXCEPT ![t][a] = IF a = "main" THEN "none" ELSE "done"]
        /\ life' = life
    BY <1>2 DEF Unref, Goto
  <2>2. \/ /\ refs'[t] = 0
           /\ closes' = [closes EXCEPT ![t] = @ + 1]
           /\ reg' = Append(reg, <<0, t>>)
        \/ refs'[t] # 0 /\ closes' = closes /\ reg' = reg
    BY <1>2 DEF Unref, NoneLeft, remote_close
  <2>3. RegisterInv'
    <3>1. CASE reg' = reg
      BY <3>1, <2>1 DEF RegisterInv
    <3>2. CASE reg' = Append(reg, <<0, t>>)
      BY <3>2, <2>1, RegisterAppend DEF Alive
    <3> QED
      BY <2>2, <3>1, <3>2
  <2>4. ASSUME NEW u \in Transports \ Disconnect
        PROVE  RefInvOf(u)'
    <3>1. RefInvOf(u)
      BY DEF RefInv
    <3>2. CASE u # t
      <4>1. Same(u)
        BY <2>1, <2>2, <3>2, <1>a, <1>b, OthersSame
      <4> QED
        BY <3>1, <4>1, SameKeeps
    <3>3. CASE u = t
      <4>1. a \in {"output", "input"} /\ pc[t]["main"] = "none"
        BY <3>1, <3>3, <2>1 DEF RefInvOf, Agent
      <4> DEFINE b == IF a = "output" THEN "input" ELSE "output"
      <4>2. (a = "output" /\ b = "input") \/ (a = "input" /\ b = "output")
        BY <4>1
      <4> HIDE DEF b
      <4>3. /\ pc'[t][a] = "done" /\ pc'[t][b] = pc[t][b]
            /\ pc'[t]["main"] = "none"
            /\ refs'[t] = refs[t] - 1
            /\ life'[t] = "running"
        BY <2>1, <4>1, <4>2, <1>a, <1>b DEF Agent, Alive
      <4>4. pc[t][b] # "none" /\ ~NotStarted(t)
        BY <3>1, <3>3, <2>1, <4>1, <4>2 DEF RefInvOf, NotStarted
      <4>5. refs[t] = Holds(pc[t][a]) + Holds(pc[t][b])
        BY <3>1, <3>3, <4>1, <4>2, <4>4 DEF RefInvOf, Holds
      <4>6. refs'[t] = Holds(pc[t][b])
        BY <4>3, <4>5, <2>1 DEF Holds
      <4>7. closes'[t] > 0 => pc[t][b] = "done"
        <5>1. closes[t] = 0
          BY <3>1, <3>3, <2>1, <4>1, <1>b DEF RefInvOf, ThreadsExited
        <5>2. closes'[t] > 0 => refs'[t] = 0
          BY <2>2, <5>1, <1>b
        <5> QED
          BY <5>2, <4>4, <4>6 DEF Holds
      <4>8. ~NotStarted(t)' /\ pc'[t]["input"] # "none"
        BY <4>1, <4>2, <4>3, <4>4 DEF NotStarted
      <4>9. refs'[t] = Holds(pc'[t]["output"]) + Holds(pc'[t]["input"])
        BY <4>1, <4>2, <4>3, <4>6 DEF Holds
      <4>10. closes'[t] > 0 => ThreadsExited(t)'
        BY <4>1, <4>2, <4>3, <4>7 DEF ThreadsExited
      <4> QED
        BY <3>3, <4>3, <4>8, <4>9, <4>10 DEF RefInvOf
    <3> QED
      BY <3>2, <3>3
  <2> QED
    BY <2>3, <2>4 DEF RefInv
<1> QED
    BY <1>1, <1>2 DEF Leave

\* The invariant of the references is inductive.
LEMMA RefStep ==
    TypeOK /\ RegisterInv /\ RefInv /\ [Next]_vars => RegisterInv' /\ RefInv'
<1> SUFFICES ASSUME TypeOK, RegisterInv, RefInv, [Next]_vars
             PROVE  RegisterInv' /\ RefInv'
    OBVIOUS
<1>1. CASE UNCHANGED vars
  <2>1. refs' = refs /\ closes' = closes /\ life' = life /\ reg' = reg /\ pc' = pc
    BY <1>1 DEF vars
  <2>2. \A u \in Transports : Same(u)
    BY <2>1 DEF Same
  <2> QED
    BY <2>1, <2>2, SameKeeps DEF RefInv, RegisterInv
<1>2. CASE Next
  <2>1. PICK t \in Transports :
            \/ Find(t) \/ Main(t) \/ Output(t) \/ Input(t)
            \/ \E a \in Agent : Leave(t, a)
            \/ Unregister(t) \/ unregister_usb_transport(t) \/ LinkDown(t)
    BY <1>2 DEF Next
  <2> QED
    BY <2>1, FindRefs, RegistrationRefs, PumpRefs, OutsideRefs, LeaveRefs DEF Main
<1> QED
    BY <1>1, <1>2

\* A transport that no "disconnect:" names is closed, and its memory queued to
\* be freed, only when both of its threads have exited; the references that
\* transport_registration_func() counts are exactly those of the threads.
THEOREM ClosedHolds == Spec => []ClosedAfterThreads
<1>1. Init => RegisterInv /\ RefInv
    BY DEF Init, RegisterInv, RefInv, RefInvOf, NotStarted, Agent
<1>2. TypeOK /\ RegisterInv /\ RefInv /\ [Next]_vars => RegisterInv' /\ RefInv'
    BY RefStep
<1>3. RefInv => ClosedAfterThreads
    BY DEF RefInv, RefInvOf, ClosedAfterThreads
<1>4. Spec => []TypeOK
    BY TypeCorrect
<1> QED
    BY <1>1, <1>2, <1>3, <1>4, PTL DEF Spec

-----------------------------------------------------------------------------
(* The message that frees a transport. *)

\* The registration socket holds at most one message to free t, and none
\* before t->close() has run.
FreeMessages(t) ==
    /\ \A i \in DOMAIN reg : reg[i] = <<0, t>> => closes[t] > 0
    /\ \A i, j \in DOMAIN reg : reg[i] = <<0, t>> /\ reg[j] = <<0, t>> => i = j

\* t->close() runs when ref_count comes down to zero, so not while references
\* are left, and the count is set only once.  A device without permission has
\* no references and nobody who could drop one.
OnceInvOf(t) ==
    /\ closes[t] <= 1
    /\ t \in NoPerm => \A a \in Agent : pc[t][a] = "none"
    /\ life[t] \notin {"running", "freed"} => closes[t] = 0
    /\ life[t] \in {"running", "freed"} /\ refs[t] > 0 => closes[t] = 0
    /\ FreeMessages(t)

OnceInv == \A t \in Transports : OnceInvOf(t)

\* The messages to free u after the main thread has taken one.
LEMMA FreeTail ==
    ASSUME TypeOK, NEW u \in Transports, FreeMessages(u), closes'[u] = closes[u],
           reg # <<>>, reg' = Tail(reg)
    PROVE  FreeMessages(u)'
<1>1. reg \in Seq((0..1) \X Transports)
    BY DEF TypeOK
<1>2. \A i \in DOMAIN reg' : i \in Nat /\ i + 1 \in DOMAIN reg /\ reg'[i] = reg[i + 1]
  <2>1. \A i \in DOMAIN reg' : i + 1 \in DOMAIN reg /\ reg'[i] = reg[i + 1]
    BY <1>1, TailIndex
  <2>2. \A i \in DOMAIN reg' : i \in Nat
    BY <1>1
  <2> QED
    BY <2>1, <2>2
<1>3. \A i \in DOMAIN reg' : reg'[i] = <<0, u>> => closes'[u] > 0
    BY <1>2 DEF FreeMessages
<1>4. ASSUME NEW i \in DOMAIN reg', NEW j \in DOMAIN reg',
             reg'[i] = <<0, u>>, reg'[j] = <<0, u>>
      PROVE  i = j
  <2>1. i + 1 = j + 1
    BY <1>2, <1>4 DEF FreeMessages
  <2> QED
    BY <1>2, <2>1
<1> QED
    BY <1>3, <1>4 DEF FreeMessages

\* And after a message about t was put in.
LEMMA FreeAppend ==
    ASSUME TypeOK, NEW u \in Transports, NEW t \in Transports, NEW n \in {0, 1},
           FreeMessages(u), closes'[u] >= closes[u], closes' \in [Transports -> Nat],
           reg' = Append(reg, <<n, t>>),
           n = 0 /\ u = t => closes[t] = 0 /\ closes'[t] > 0
    PROVE  FreeMessages(u)'
<1>1. reg \in Seq((0..1) \X Transports) /\ closes \in [Transports -> Nat]
    BY DEF TypeOK
<1>2. <<n, t>> \in (0..1) \X Transports
    OBVIOUS
<1>3. \A i \in DOMAIN reg' :
          \/ i \in DOMAIN reg /\ reg'[i] = reg[i]
          \/ i = Len(reg) + 1 /\ reg'[i] = <<n, t>>
    BY <1>1, <1>2, AppendIndex
<1>4. \A i \in DOMAIN reg : reg[i] = <<0, u>> => closes[u] > 0
    BY DEF FreeMessages
<1>5. \A i, j \in DOMAIN reg : reg[i] = <<0, u>> /\ reg[j] = <<0, u>> => i = j
    BY DEF FreeMessages
<1>6. <<n, t>> = <<0, u>> => n = 0 /\ u = t
    OBVIOUS
<1>7. ASSUME NEW i \in DOMAIN reg', reg'[i] = <<0, u>> PROVE closes'[u] > 0
  <2>1. (i \in DOMAIN reg /\ reg[i] = <<0, u>>) \/ (n = 0 /\ u = t)
    BY <1>3, <1>6, <1>7
  <2>2. closes[u] > 0 \/ closes'[u] > 0
    BY <1>4, <2>1
  <2>3. closes[u] \in Nat /\ closes'[u] \in Nat
    BY <1>1
  <2> QED
    BY <2>2, <2>3
<1>8. ASSUME NEW i \in DOMAIN reg', NEW j \in DOMAIN reg',
             reg'[i] = <<0, u>>, reg'[j] = <<0, u>>
      PROVE  i = j
  <2>1. CASE n = 0 /\ u = t
    <3>1. \A k \in DOMAIN reg : reg[k] # <<0, u>>
      BY <1>4, <2>1
    <3> QED
      BY <1>3, <1>8, <3>1
  <2>2. CASE ~(n = 0 /\ u = t)
    BY <1>3, <1>5, <1>6, <1>8, <2>2
  <2> QED
    BY <2>1, <2>2
<1> QED
    BY <1>7, <1>8 DEF FreeMessages

\* A step that touches none of u's counters and none of the messages.
LEMMA OnceKept ==
    ASSUME NEW u \in Transports, OnceInvOf(u), FreeMessages(u)',
           closes'[u] = closes[u], refs'[u] = refs[u],
           u \in NoPerm => \A a \in Agent : pc'[u][a] = "none",
           \/ life'[u] = life[u]
           \/ life[u] \notin {"running", "freed"} /\ closes[u] = 0
           \/ {life[u], life'[u]} \subseteq {"running", "freed"}
    PROVE  OnceInvOf(u)'
    BY DEF OnceInvOf

LEMMA OnceStep == TypeOK /\ RegisterInv /\ OnceInv /\ [Next]_vars => OnceInv'
<1> SUFFICES ASSUME TypeOK, RegisterInv, OnceInv, [Next]_vars, NEW u \in Transports
             PROVE  OnceInvOf(u)'
    BY DEF OnceInv
<1> USE DEF lists, device, pairs, session
<1>a. life \in [Transports -> Life] /\ pc \in [Transports -> [Agent -> Where]]
    BY DEF TypeOK
<1>b. refs \in [Transports -> Int] /\ closes \in [Transports -> Nat]
    BY DEF TypeOK
<1>c. OnceInvOf(u) /\ FreeMessages(u)
    BY DEF OnceInv, OnceInvOf
<1>d. u \in NoPerm => u \in Usb /\ u \notin Disconnect
    BY KindsAssumption
<1>e. ASSUME closes' = closes, reg' = reg PROVE FreeMessages(u)'
    BY <1>c, <1>e DEF FreeMessages
<1>1. CASE UNCHANGED vars
  <2>1. refs' = refs /\ closes' = closes /\ life' = life /\ reg' = reg /\ pc' = pc
    BY <1>1 DEF vars
  <2> QED
    BY <2>1, <1>c, <1>e, OnceKept DEF OnceInvOf
<1>2. ASSUME NEW t \in Transports, Find(t)
      PROVE  OnceInvOf(u)'
  <2>1. refs' = refs /\ closes' = closes /\ pc' = pc
    BY <1>2 DEF Find, init_socket_transport, register_socket_transport,
                register_usb_transport
  <2>2. /\ life[t] \in {"unborn", "init"}
        /\ \E w \in Life : life' = [life EXCEPT ![t] = w]
        /\ reg' = reg \/ reg' = Append(reg, <<1, t>>)
    BY <1>2 DEF Find, init_socket_transport, register_socket_transport,
                register_usb_transport, Life
  <2>3. FreeMessages(u)'
    <3>1. closes' \in [Transports -> Nat] /\ closes'[u] >= closes[u]
      BY <2>1, <1>b
    <3>2. CASE reg' = Append(reg, <<1, t>>)
      BY <3>1, <3>2, <1>c, FreeAppend
    <3> QED
      BY <2>1, <2>2, <3>2, <1>e
  <2>4. \/ life'[u] = life[u]
        \/ life[u] \notin {"running", "freed"} /\ closes[u] = 0
    BY <2>2, <1>a, <1>c DEF OnceInvOf
  <2> QED
    BY <2>1, <2>3, <2>4, <1>c, OnceKept DEF OnceInvOf
<1>3. ASSUME NEW t \in Transports, MainRegister(t)
      PROVE  OnceInvOf(u)'
  <2>1. /\ reg # <<>> /\ Head(reg) = <<1, t>> /\ reg' = Tail(reg)
        /\ life' = [life EXCEPT ![t] = "running"]
        /\ closes' = closes
        /\ \/ pc' = pc /\ refs' = refs
           \/ /\ t \notin NoPerm
              /\ pc' = [pc EXCEPT ![t]["output"] = "start", ![t]["input"] = "read"]
              /\ refs' = [refs EXCEPT ![t] = 2]
    BY <1>3 DEF MainRegister, InitialReferences
  <2>2. life[t] = "pending"
    BY <2>1, RegisterTail
  <2>3. FreeMessages(u)'
    BY <2>1, <1>c, FreeTail
  <2>4. u \in NoPerm => \A a \in Agent : pc'[u][a] = "none"
    BY <2>1, <1>a, <1>c DEF OnceInvOf
  <2>5. CASE u # t
    BY <2>1, <2>3, <2>4, <2>5, <1>a, <1>b, <1>c, OnceKept
  <2>6. CASE u = t
    <3>1. closes'[u] = 0 /\ life'[u] = "running"
      BY <2>1, <2>2, <2>6, <1>a, <1>c DEF OnceInvOf
    <3> QED
      BY <2>3, <2>4, <3>1 DEF OnceInvOf
  <2> QED
    BY <2>5, <2>6
<1>4. ASSUME NEW t \in Transports, MainRemove(t)
      PROVE  OnceInvOf(u)'
  <2>1. /\ reg # <<>> /\ Head(reg) = <<0, t>> /\ reg' = Tail(reg)
        /\ life' = [life EXCEPT ![t] = "freed"]
        /\ closes' = closes /\ refs' = refs /\ pc' = pc
    BY <1>4 DEF MainRemove
  <2>2. FreeMessages(u)'
    BY <2>1, <1>c, FreeTail
  <2>3. life[t] \in {"running", "freed"}
    <3>1. reg \in Seq((0..1) \X Transports)
      BY DEF TypeOK
    <3>2. 1 \in DOMAIN reg /\ reg[1] = <<0, t>>
      BY <2>1, <3>1
    <3> QED
      BY <3>2 DEF RegisterInv
  <2>4. life'[u] = life[u] \/ {life[u], life'[u]} \subseteq {"running", "freed"}
    BY <2>1, <2>3, <1>a
  <2> QED
    BY <2>1, <2>2, <2>4, <1>c, OnceKept DEF OnceInvOf
<1>5. ASSUME NEW t \in Transports,
             HandleSync(t) \/ HandleCnxn(t) \/ Output(t) \/ Input(t)
      PROVE  OnceInvOf(u)'
  <2>1. refs' = refs /\ closes' = closes /\ life' = life /\ reg' = reg
    BY <1>5 DEF HandleSync, HandleCnxn, Output, Input, OutputStart, OutputPump,
           OutputFail, InputRead, InputFail, InputSweep
  <2>2. \/ pc' = pc
        \/ \E a \in Agent, w \in Where :
              pc' = [pc EXCEPT ![t][a] = w] /\ pc[t][a] # "none"
    BY <1>5 DEF HandleSync, HandleCnxn, Output, Input, OutputStart, OutputPump,
           OutputFail, InputRead, InputFail, InputSweep, Where, Agent
  <2>3. u \in NoPerm => \A a \in Agent : pc'[u][a] = "none"
    BY <2>2, <1>a, <1>c DEF OnceInvOf
  <2> QED
    BY <2>1, <2>3, <1>c, <1>e, OnceKept
<1>6. ASSUME NEW t \in Transports, NEW a \in Agent,
             KickTest(t, a) \/ KickLock(t, a) \/ KickRun(t, a)
      PROVE  OnceInvOf(u)'
  <2>1. refs' = refs /\ closes' = closes /\ life' = life /\ reg' = reg
    BY <1>6 DEF KickTest, KickLock, KickRun
  <2>2. \E w \in Where : pc' = [pc EXCEPT ![t][a] = w] /\ pc[t][a] # "none"
    BY <1>6 DEF KickTest, KickLock, KickRun, Goto, Where
  <2>3. u \in NoPerm => \A b \in Agent : pc'[u][b] = "none"
    BY <2>2, <1>a, <1>c DEF OnceInvOf
  <2> QED
    BY <2>1, <2>3, <1>c, <1>e, OnceKept
<1>7. ASSUME NEW t \in Transports, NEW a \in Agent, Unref(t, a)
      PROVE  OnceInvOf(u)'
  <2>1. /\ life[t] = "running" /\ pc[t][a] = "unref"
        /\ refs' = [refs EXCEPT ![t] = @ - 1]
        /\ \E w \in Where : pc' = [pc EXCEPT ![t][a] = w]
        /\ life' = life
    BY <1>7 DEF Unref, Goto, Alive, Where
  <2>2. \/ /\ refs'[t] = 0
           /\ closes' = [closes EXCEPT ![t] = @ + 1]
           /\ reg' = Append(reg, <<0, t>>)
        \/ refs'[t] # 0 /\ closes' = closes /\ reg' = reg
    BY <1>7 DEF Unref, NoneLeft, remote_close
  <2>3. u \in NoPerm => u # t
    BY <2>1, <1>c DEF OnceInvOf
  <2>4. u \in NoPerm => \A b \in Agent : pc'[u][b] = "none"
    BY <2>1, <2>3, <1>a, <1>c DEF OnceInvOf
  <2>5. CASE refs'[t] = 0 /\ reg' = Append(reg, <<0, t>>)
    <3>1. closes' = [closes EXCEPT ![t] = @ + 1]
      <4>1. reg' # reg
        <5>1. reg \in Seq((0..1) \X Transports)
          BY DEF TypeOK
        <5>2. Len(Append(reg, <<0, t>>)) = Len(reg) + 1 /\ Len(reg) \in Nat
          BY <5>1
        <5>3. Len(reg) + 1 # Len(reg)
          BY <5>2
        <5> QED
          BY <2>5, <5>2, <5>3
      <4> QED
        BY <2>2, <4>1
    <3>2. refs[t] = 1 /\ closes[t] = 0
      <4>1. refs[t] = 1
        BY <2>1, <2>5, <1>b
      <4> QED
        BY <2>1, <4>1 DEF OnceInv, OnceInvOf
    <3>3. closes' \in [Transports -> Nat] /\ closes'[t] = 1
      BY <3>1, <3>2, <1>b
    <3>4. closes'[u] >= closes[u]
      BY <3>1, <1>b
    <3>5. FreeMessages(u)'
      BY <2>5, <3>2, <3>3, <3>4, <1>c, FreeAppend
    <3>6. CASE u = t
      <4>1. closes'[u] = 1 /\ refs'[u] = 0 /\ life'[u] = "running"
        BY <2>1, <2>5, <3>3, <3>6
      <4> QED
        BY <2>4, <3>5, <4>1 DEF OnceInvOf
    <3>7. CASE u # t
      <4>1. closes'[u] = closes[u] /\ refs'[u] = refs[u] /\ life'[u] = life[u]
        BY <2>1, <3>1, <3>7, <1>b
      <4> QED
        BY <2>4, <3>5, <4>1, <1>c, OnceKept
    <3> QED
      BY <3>6, <3>7
  <2>6. CASE closes' = closes /\ reg' = reg
    <3>1. FreeMessages(u)'
      BY <2>6, <1>e
    <3>2. refs'[u] > 0 => refs[u] > 0
      BY <2>1, <1>b
    <3> QED
      BY <2>1, <2>4, <2>6, <3>1, <3>2, <1>c DEF OnceInvOf
  <2> QED
    BY <2>2, <2>5, <2>6
<1>8. ASSUME NEW t \in Transports,
             Unregister(t) \/ unregister_usb_transport(t) \/ LinkDown(t)
      PROVE  OnceInvOf(u)'
  <2>1. refs' = refs /\ closes' = closes /\ life' = life /\ reg' = reg
    BY <1>8 DEF Unregister, unregister_usb_transport, LinkDown
  <2>2. pc' = pc \/ (pc' = [pc EXCEPT ![t]["main"] = "kick"] /\ t \in Disconnect)
    BY <1>8 DEF Unregister, unregister_usb_transport, LinkDown, Goto
  <2>3. u \in NoPerm => \A a \in Agent : pc'[u][a] = "none"
    BY <2>2, <1>a, <1>c, <1>d DEF OnceInvOf
  <2> QED
    BY <2>1, <2>3, <1>c, <1>e, OnceKept
<1> QED
    BY <1>1, <1>2, <1>3, <1>4, <1>5, <1>6, <1>7, <1>8 DEF Next, Main, Leave

\* t->close() runs at most once and at most one message to free t is sent: the
\* reference that "disconnect:" drops without having one makes ref_count reach
\* zero earlier, and pass it afterwards, but never reach it twice.
THEOREM RemovedHolds == Spec => []RemovedOnce
<1>1. Init => RegisterInv /\ RefInv /\ OnceInv
    BY DEF Init, RegisterInv, RefInv, RefInvOf, NotStarted, Agent, OnceInv, OnceInvOf,
           FreeMessages
<1>2. TypeOK /\ RegisterInv /\ RefInv /\ [Next]_vars => RegisterInv' /\ RefInv'
    BY RefStep
<1>3. TypeOK /\ RegisterInv /\ OnceInv /\ [Next]_vars => OnceInv'
    BY OnceStep
<1>4. OnceInv => RemovedOnce
    BY DEF OnceInv, OnceInvOf, FreeMessages, RemovedOnce
<1>5. Spec => []TypeOK
    BY TypeCorrect
<1> QED
    BY <1>1, <1>2, <1>3, <1>4, <1>5, PTL DEF Spec

-----------------------------------------------------------------------------
(* The circular lists of transports. *)

Heads == {"transport_list", "pending_list"}

\* The n entries of the circular list of head h in l, in order, are c[1], ..., c[n].
Ring(l, h, n, c) ==
  /\ c \in [0..(n + 1) -> Node] /\ c[0] = h /\ c[n + 1] = h
  /\ \A i \in 1..n : c[i] \in Transports
  /\ \A i, j \in 1..n : c[i] = c[j] => i = j
  /\ \A i \in 0..n : l.nxt[c[i]] = c[i + 1] /\ l.prv[c[i + 1]] = c[i]

Entries(n, c) == {c[i] : i \in 1..n}

\* The entries of that list are those of S.
Circles(l, h, S) == \E n \in Nat : \E c : Ring(l, h, n, c) /\ S = Entries(n, c)

\* The head of a list is no transport.
LEMMA HeadsApart == \A h \in Heads : h \in Node /\ h \notin Transports
  BY LimitsAssumption DEF Heads, Node

\* The list as it looks from the other end.
Back(l) == [nxt |-> l.prv, prv |-> l.nxt]

\* It has the same entries.
LEMMA BackCircles ==
  ASSUME NEW l \in Pointers, NEW h \in Heads, NEW S, Circles(l, h, S)
  PROVE  Circles(Back(l), h, S)
<1>1. PICK n \in Nat : \E c : Ring(l, h, n, c) /\ S = Entries(n, c)
  BY DEF Circles
<1>2. PICK c : Ring(l, h, n, c) /\ S = Entries(n, c)
  BY <1>1
<1> DEFINE d == [i \in 0..(n + 1) |-> c[n + 1 - i]]
<1>3. /\ c \in [0..(n + 1) -> Node] /\ c[0] = h /\ c[n + 1] = h
      /\ \A i \in 1..n : c[i] \in Transports
      /\ \A i, j \in 1..n : c[i] = c[j] => i = j
      /\ \A i \in 0..n : l.nxt[c[i]] = c[i + 1] /\ l.prv[c[i + 1]] = c[i]
  BY <1>2 DEF Ring
<1>4. \A i \in 0..(n + 1) : n + 1 - i \in 0..(n + 1) /\ d[i] = c[n + 1 - i]
  OBVIOUS
<1>5. d \in [0..(n + 1) -> Node] /\ d[0] = h /\ d[n + 1] = h
  BY <1>3, <1>4
<1> HIDE DEF d
<1>6. \A i \in 1..n : n + 1 - i \in 1..n /\ d[i] = c[n + 1 - i] /\ n + 1 - (n + 1 - i) = i
  BY <1>4
<1>7. \A i \in 1..n : d[i] \in Transports
  BY <1>3, <1>6
<1>8. ASSUME NEW i \in 1..n, NEW j \in 1..n, d[i] = d[j] PROVE i = j
  <2> DEFINE a == n + 1 - i
             b == n + 1 - j
  <2>1. a \in 1..n /\ b \in 1..n /\ c[a] = c[b]
    BY <1>6, <1>8
  <2> HIDE DEF a, b
  <2>2. a = b
    BY <1>3, <2>1
  <2> QED BY <2>2 DEF a, b
<1>9. ASSUME NEW i \in 0..n
      PROVE  Back(l).nxt[d[i]] = d[i + 1] /\ Back(l).prv[d[i + 1]] = d[i]
  <2>1. n - i \in 0..n /\ n + 1 - i = (n - i) + 1 /\ n + 1 - (i + 1) = n - i
        /\ i \in 0..(n + 1) /\ i + 1 \in 0..(n + 1)
    OBVIOUS
  <2>2. d[i] = c[(n - i) + 1] /\ d[i + 1] = c[n - i]
    BY <1>4, <2>1
  <2>3. l.nxt[c[n - i]] = c[(n - i) + 1] /\ l.prv[c[(n - i) + 1]] = c[n - i]
    BY <1>3, <2>1
  <2> QED BY <2>2, <2>3 DEF Back
<1>10. S = Entries(n, d)
  <2>1. S = Entries(n, c)
    BY <1>2
  <2>2. Entries(n, c) \subseteq Entries(n, d)
    BY <1>6 DEF Entries
  <2>3. Entries(n, d) \subseteq Entries(n, c)
    BY <1>6 DEF Entries
  <2> QED BY <2>1, <2>2, <2>3
<1>11. Ring(Back(l), h, n, d)
  BY <1>5, <1>7, <1>8, <1>9 DEF Ring
<1> QED BY <1>10, <1>11 DEF Circles

\* Taking an entry out of the list writes to its neighbours only.
LEMMA UnlinkCircles ==
  ASSUME NEW l \in Pointers, NEW h \in Heads, NEW S, Circles(l, h, S), NEW t \in S
  PROVE  /\ t \in Transports
         /\ Circles(Unlink(l, t), h, S \ {t})
         /\ l.nxt[t] \in S \cup {h} /\ l.prv[t] \in S \cup {h}
<1>1. PICK n \in Nat : \E c : Ring(l, h, n, c) /\ S = Entries(n, c)
  BY DEF Circles
<1>2. PICK c : Ring(l, h, n, c) /\ S = Entries(n, c)
  BY <1>1
<1>3. /\ c \in [0..(n + 1) -> Node] /\ c[0] = h /\ c[n + 1] = h
      /\ \A i \in 1..n : c[i] \in Transports
      /\ \A i, j \in 1..n : c[i] = c[j] => i = j
      /\ \A i \in 0..n : l.nxt[c[i]] = c[i + 1] /\ l.prv[c[i + 1]] = c[i]
  BY <1>2 DEF Ring
<1>4. PICK k \in 1..n : c[k] = t
  BY <1>2 DEF Entries
<1>5. /\ l.nxt[t] = c[k + 1] /\ l.prv[t] = c[k - 1] /\ t \in Transports
      /\ k + 1 \in 0..(n + 1) /\ k - 1 \in 0..(n + 1)
  <2>1. k \in 0..n /\ k - 1 \in 0..n /\ (k - 1) + 1 = k
    OBVIOUS
  <2> QED BY <1>3, <1>4, <2>1
<1>6. l.nxt[t] \in S \cup {h} /\ l.prv[t] \in S \cup {h}
  <2>1. \A i \in 0..(n + 1) : c[i] \in S \cup {h}
    <3> SUFFICES ASSUME NEW i \in 0..(n + 1) PROVE c[i] \in S \cup {h}
      OBVIOUS
    <3>1. i \in 1..n \/ i = 0 \/ i = n + 1
      OBVIOUS
    <3> QED BY <1>2, <1>3, <3>1 DEF Entries
  <2> QED BY <1>5, <2>1
<1> DEFINE m == n - 1
           d == [i \in 0..(m + 1) |-> IF i < k THEN c[i] ELSE c[i + 1]]
           u == Unlink(l, t)
<1>7. m \in Nat /\ m + 1 = n
  OBVIOUS
<1>8. \A i \in 0..(m + 1) : /\ i < k => d[i] = c[i]
                            /\ i >= k => d[i] = c[i + 1]
  BY <1>7
<1>9. d \in [0..(m + 1) -> Node] /\ d[0] = h /\ d[m + 1] = h
  <2>1. \A i \in 0..(m + 1) : i \in 0..(n + 1) /\ i + 1 \in 0..(n + 1)
    BY <1>7
  <2>2. d \in [0..(m + 1) -> Node]
    BY <1>3, <2>1
  <2>3. 0 \in 0..(m + 1) /\ m + 1 \in 0..(m + 1) /\ 0 < k /\ m + 1 >= k
    BY <1>7
  <2> QED BY <1>3, <1>7, <1>8, <2>2, <2>3
<1> HIDE DEF d
<1>10. \A i \in 1..m : /\ i < k => i \in 1..n /\ i # k /\ d[i] = c[i]
                       /\ i >= k => i + 1 \in 1..n /\ i + 1 # k /\ d[i] = c[i + 1]
  BY <1>7, <1>8
<1>11. \A i \in 1..m : d[i] \in S \ {t}
  <2> SUFFICES ASSUME NEW i \in 1..m PROVE d[i] \in S \ {t}
    OBVIOUS
  <2>1. \E j \in 1..n : j # k /\ d[i] = c[j]
    BY <1>10
  <2> QED BY <1>2, <1>3, <1>4, <2>1 DEF Entries
<1>12. ASSUME NEW i \in 1..m, NEW j \in 1..m, d[i] = d[j] PROVE i = j
  <2> DEFINE a == IF i < k THEN i ELSE i + 1
             b == IF j < k THEN j ELSE j + 1
  <2>1. a \in 1..n /\ b \in 1..n /\ d[i] = c[a] /\ d[j] = c[b]
    BY <1>10
  <2>2. a = b
    <3> HIDE DEF a, b
    <3>1. c[a] = c[b] /\ a \in 1..n /\ b \in 1..n
      BY <1>12, <2>1
    <3>2. \A p, q \in 1..n : c[p] = c[q] => p = q
      BY <1>3
    <3> QED BY <3>1, <3>2
  <2> QED BY <2>2
<1>13. S \ {t} = Entries(m, d)
  <2>1. Entries(m, d) \subseteq S \ {t}
    BY <1>11 DEF Entries
  <2>2. ASSUME NEW x \in S \ {t} PROVE x \in Entries(m, d)
    <3>1. PICK j \in 1..n : c[j] = x
      BY <1>2, <2>2 DEF Entries
    <3>2. j # k
      BY <1>4, <2>2, <3>1
    <3>3. CASE j < k
      <4>1. j \in 1..m /\ d[j] = c[j]
        BY <1>7, <1>8, <3>3
      <4> QED BY <3>1, <4>1 DEF Entries
    <3>4. CASE j > k
      <4>1. j - 1 \in 1..m /\ j - 1 >= k /\ (j - 1) + 1 = j
        BY <1>7, <3>4
      <4>2. d[j - 1] = c[j]
        BY <1>10, <4>1
      <4> QED BY <3>1, <4>1, <4>2 DEF Entries
    <3> QED BY <3>2, <3>3, <3>4
  <2> QED BY <2>1, <2>2
<1>14. h \notin Transports /\ S \subseteq Transports
  BY <1>2, <1>3, HeadsApart DEF Entries
<1>15. u.nxt = [l.nxt EXCEPT ![c[k - 1]] = c[k + 1]]
       /\ u.prv = [l.prv EXCEPT ![c[k + 1]] = c[k - 1]]
  BY <1>5 DEF Unlink
<1>16. l.nxt \in [Node -> Node] /\ l.prv \in [Node -> Node] /\ \A i \in 0..(n + 1) : c[i] \in Node
  BY <1>3 DEF Pointers
\* Two places of the ring that are the same entry.
<1>17. /\ \A i, j \in 0..n : c[i] = c[j] => i = j
       /\ \A i, j \in 1..(n + 1) : c[i] = c[j] => i = j
  <2>1. \A i \in 1..n : c[i] # h
    BY <1>3, <1>14
  <2>2. ASSUME NEW i \in 0..n, NEW j \in 0..n, c[i] = c[j] PROVE i = j
    <3>1. (i = 0 \/ i \in 1..n) /\ (j = 0 \/ j \in 1..n)
      OBVIOUS
    <3> QED BY <1>3, <2>1, <2>2, <3>1
  <2>3. ASSUME NEW i \in 1..(n + 1), NEW j \in 1..(n + 1), c[i] = c[j] PROVE i = j
    <3>1. (i = n + 1 \/ i \in 1..n) /\ (j = n + 1 \/ j \in 1..n)
      OBVIOUS
    <3> QED BY <1>3, <2>1, <2>3, <3>1
  <2> QED BY <2>2, <2>3
<1> HIDE DEF u
<1>18. ASSUME NEW i \in 0..m
       PROVE  u.nxt[d[i]] = d[i + 1] /\ u.prv[d[i + 1]] = d[i]
  <2>1. CASE i = k - 1
    <3>1. i < k /\ i + 1 = k /\ i \in 0..(m + 1) /\ i + 1 \in 0..(m + 1)
      BY <1>7, <2>1
    <3>2. d[i] = c[k - 1] /\ d[i + 1] = c[k + 1]
      BY <1>8, <2>1, <3>1
    <3> QED BY <1>5, <1>15, <1>16, <3>2
  <2>2. CASE i < k - 1
    <3>1. i < k /\ i + 1 < k /\ i \in 0..n /\ i + 1 \in 0..(n + 1) /\ i \in 0..(m + 1)
          /\ i + 1 \in 0..(m + 1) /\ k - 1 \in 0..n /\ i + 1 \in 1..(n + 1) /\ k + 1 \in 1..(n + 1)
      BY <1>7, <2>2
    <3>2. d[i] = c[i] /\ d[i + 1] = c[i + 1]
      BY <1>8, <3>1
    <3>3. c[i] # c[k - 1] /\ c[i + 1] # c[k + 1]
      BY <1>17, <2>2, <3>1
    <3>4. l.nxt[c[i]] = c[i + 1] /\ l.prv[c[i + 1]] = c[i]
      BY <1>3, <3>1
    <3> QED BY <1>15, <1>16, <3>1, <3>2, <3>3, <3>4
  <2>3. CASE i > k - 1
    <3>1. i >= k /\ i + 1 >= k /\ i + 1 \in 0..n /\ (i + 1) + 1 \in 0..(n + 1) /\ i \in 0..(m + 1)
          /\ i + 1 \in 0..(m + 1) /\ k - 1 \in 0..n /\ (i + 1) + 1 \in 1..(n + 1) /\ k + 1 \in 1..(n + 1)
          /\ i + 1 \in 0..(n + 1)
      BY <1>7, <2>3
    <3>2. d[i] = c[i + 1] /\ d[i + 1] = c[(i + 1) + 1]
      BY <1>8, <3>1
    <3>3. c[i + 1] # c[k - 1] /\ c[(i + 1) + 1] # c[k + 1]
      <4>1. i + 1 # k - 1 /\ (i + 1) + 1 # k + 1
        BY <2>3
      <4> QED BY <1>17, <3>1, <4>1
    <3>4. l.nxt[c[i + 1]] = c[(i + 1) + 1] /\ l.prv[c[(i + 1) + 1]] = c[i + 1]
      BY <1>3, <3>1
    <3> QED BY <1>15, <1>16, <3>1, <3>2, <3>3, <3>4
  <2>4. i = k - 1 \/ i < k - 1 \/ i > k - 1
    OBVIOUS
  <2> QED BY <2>1, <2>2, <2>3, <2>4
<1>19. \A i \in 1..m : d[i] \in Transports
  BY <1>11, <1>14
<1> HIDE DEF m
<1>20. Ring(u, h, m, d)
  BY <1>9, <1>12, <1>18, <1>19 DEF Ring
<1>21. Circles(u, h, S \ {t})
  BY <1>7, <1>13, <1>20 DEF Circles
<1> QED BY <1>5, <1>6, <1>21 DEF u

\* A step that leaves the pointers of a list alone leaves the list alone.
LEMMA OtherCircles ==
  ASSUME NEW l, NEW m, NEW h \in Heads, NEW S, Circles(l, h, S),
         \A x \in S \cup {h} : m.nxt[x] = l.nxt[x] /\ m.prv[x] = l.prv[x]
  PROVE  Circles(m, h, S)
<1>1. PICK n \in Nat : \E c : Ring(l, h, n, c) /\ S = Entries(n, c)
  BY DEF Circles
<1>2. PICK c : Ring(l, h, n, c) /\ S = Entries(n, c)
  BY <1>1
<1>3. /\ c \in [0..(n + 1) -> Node] /\ c[0] = h /\ c[n + 1] = h
      /\ \A i \in 1..n : c[i] \in Transports
      /\ \A i, j \in 1..n : c[i] = c[j] => i = j
      /\ \A i \in 0..n : l.nxt[c[i]] = c[i + 1] /\ l.prv[c[i + 1]] = c[i]
  BY <1>2 DEF Ring
<1>4. \A i \in 0..(n + 1) : c[i] \in S \cup {h}
  <2> SUFFICES ASSUME NEW i \in 0..(n + 1) PROVE c[i] \in S \cup {h}
    OBVIOUS
  <2>1. i \in 1..n \/ i = 0 \/ i = n + 1
    OBVIOUS
  <2> QED BY <1>2, <1>3, <2>1 DEF Entries
<1>5. ASSUME NEW i \in 0..n PROVE m.nxt[c[i]] = c[i + 1] /\ m.prv[c[i + 1]] = c[i]
  <2>1. i \in 0..(n + 1) /\ i + 1 \in 0..(n + 1)
    OBVIOUS
  <2>2. c[i] \in S \cup {h} /\ c[i + 1] \in S \cup {h}
    BY <1>4, <2>1
  <2> QED BY <1>3, <2>2
<1>6. Ring(m, h, n, c)
  BY <1>3, <1>5 DEF Ring
<1> QED BY <1>2, <1>6 DEF Circles

\* Adding an entry writes to it, to the last one and to the head.
LEMMA LinkLastCircles ==
  ASSUME NEW l \in Pointers, NEW h \in Heads, NEW S, Circles(l, h, S),
         NEW t \in Transports, t \notin S
  PROVE  /\ Circles(LinkLast(l, h, t), h, S \cup {t})
         /\ l.prv[h] \in S \cup {h}
<1>1. PICK n \in Nat : \E c : Ring(l, h, n, c) /\ S = Entries(n, c)
  BY DEF Circles
<1>2. PICK c : Ring(l, h, n, c) /\ S = Entries(n, c)
  BY <1>1
<1>3. /\ c \in [0..(n + 1) -> Node] /\ c[0] = h /\ c[n + 1] = h
      /\ \A i \in 1..n : c[i] \in Transports
      /\ \A i, j \in 1..n : c[i] = c[j] => i = j
      /\ \A i \in 0..n : l.nxt[c[i]] = c[i + 1] /\ l.prv[c[i + 1]] = c[i]
  BY <1>2 DEF Ring
<1>4. /\ t \in Node /\ h \in Node /\ h \notin Transports /\ h # t
      /\ \A i \in 0..n : c[i] \in Node /\ c[i] # t
  <2>1. t \in Node /\ h \in Node /\ h \notin Transports /\ h # t
    BY HeadsApart DEF Node
  <2>2. ASSUME NEW i \in 0..n PROVE c[i] \in Node /\ c[i] # t
    <3>1. i \in 0..(n + 1) /\ (i = 0 \/ i \in 1..n)
      OBVIOUS
    <3> QED BY <1>2, <1>3, <2>1, <3>1 DEF Entries
  <2> QED BY <2>1, <2>2
<1>5. l.prv[h] = c[n]
  <2>1. n \in 0..n
    OBVIOUS
  <2> QED BY <1>3, <2>1
<1> DEFINE m == n + 1
           d == [i \in 0..(m + 1) |-> IF i <= n THEN c[i] ELSE IF i = m THEN t ELSE h]
           u == LinkLast(l, h, t)
<1>6. m \in Nat
  OBVIOUS
<1>7. d[m] = t /\ d[m + 1] = h /\ \A i \in 0..n : d[i] = c[i]
  OBVIOUS
<1>8. d \in [0..(m + 1) -> Node] /\ d[0] = h
  <2>1. \A i \in 0..(m + 1) : i <= n => i \in 0..n
    OBVIOUS
  <2>2. d \in [0..(m + 1) -> Node]
    BY <1>4, <2>1
  <2>3. 0 \in 0..n
    OBVIOUS
  <2> QED BY <1>3, <1>7, <2>2, <2>3
<1> HIDE DEF d
<1>9. \A i \in 1..m : (i = m /\ d[i] = t) \/ (i \in 1..n /\ d[i] = c[i] /\ c[i] # t)
  <2> SUFFICES ASSUME NEW i \in 1..m
               PROVE  (i = m /\ d[i] = t) \/ (i \in 1..n /\ d[i] = c[i] /\ c[i] # t)
    OBVIOUS
  <2>1. i = m \/ (i \in 1..n /\ i \in 0..n)
    OBVIOUS
  <2> QED BY <1>4, <1>7, <2>1
<1>10. \A i \in 1..m : d[i] \in Transports
  BY <1>3, <1>9
<1>11. ASSUME NEW i \in 1..m, NEW j \in 1..m, d[i] = d[j] PROVE i = j
  <2> HIDE DEF m
  <2> QED BY <1>3, <1>9, <1>11
<1>12. S \cup {t} = Entries(m, d)
  <2>1. Entries(m, d) \subseteq S \cup {t}
    BY <1>2, <1>9 DEF Entries
  <2>2. m \in 1..m /\ \A i \in 1..n : i \in 1..m /\ i \in 0..n
    OBVIOUS
  <2>3. S \cup {t} \subseteq Entries(m, d)
    BY <1>2, <1>7, <2>2 DEF Entries
  <2> QED BY <2>1, <2>3
<1>13. /\ u.nxt = [[l.nxt EXCEPT ![t] = h] EXCEPT ![c[n]] = t]
       /\ u.prv = [[l.prv EXCEPT ![t] = c[n]] EXCEPT ![h] = t]
  BY <1>5 DEF LinkLast
<1>14. l.nxt \in [Node -> Node] /\ l.prv \in [Node -> Node]
  BY DEF Pointers
<1>15. n \in 0..n /\ c[n] \in Node /\ c[n] # t
  BY <1>4
<1>16. /\ u.nxt[t] = h /\ u.nxt[c[n]] = t /\ u.prv[t] = c[n] /\ u.prv[h] = t
       /\ \A x \in Node : x # t /\ x # c[n] => u.nxt[x] = l.nxt[x]
       /\ \A x \in Node : x # t /\ x # h => u.prv[x] = l.prv[x]
  BY <1>4, <1>13, <1>14, <1>15
<1> HIDE DEF u
<1>17. \A i, j \in 0..n : c[i] = c[j] => i = j
  <2>1. \A i \in 1..n : c[i] # h
    BY <1>3, <1>4
  <2>2. ASSUME NEW i \in 0..n, NEW j \in 0..n, c[i] = c[j] PROVE i = j
    <3>1. (i = 0 \/ i \in 1..n) /\ (j = 0 \/ j \in 1..n)
      OBVIOUS
    <3> QED BY <1>3, <2>1, <2>2, <3>1
  <2> QED BY <2>2
<1>18. ASSUME NEW i \in 0..m PROVE u.nxt[d[i]] = d[i + 1] /\ u.prv[d[i + 1]] = d[i]
  <2>1. CASE i = m
    BY <1>7, <1>16, <2>1
  <2>2. CASE i = n
    BY <1>7, <1>15, <1>16, <2>2
  <2>3. CASE i < n
    <3>1. i \in 0..n /\ i + 1 \in 0..n /\ n \in 0..n /\ i # n /\ 0 \in 0..n /\ i + 1 # 0
      BY <2>3
    <3>2. d[i] = c[i] /\ d[i + 1] = c[i + 1]
      BY <1>7, <3>1
    <3>3. c[i] # c[n] /\ c[i + 1] # c[0]
      BY <1>17, <3>1
    <3>4. l.nxt[c[i]] = c[i + 1] /\ l.prv[c[i + 1]] = c[i]
      BY <1>3, <3>1
    <3> QED BY <1>3, <1>4, <1>16, <3>1, <3>2, <3>3, <3>4
  <2> QED BY <2>1, <2>2, <2>3
<1> HIDE DEF m
<1>19. Ring(u, h, m, d)
  <2>1. d[m + 1] = h
    BY <1>7
  <2> QED BY <1>8, <1>10, <1>11, <1>18, <2>1 DEF Ring
<1>20. Circles(u, h, S \cup {t})
  BY <1>6, <1>12, <1>19 DEF Circles
<1>21. c[n] \in S \cup {h}
  <2>1. n = 0 \/ n \in 1..n
    OBVIOUS
  <2> QED BY <1>2, <1>3, <2>1 DEF Entries
<1> QED BY <1>5, <1>20, <1>21 DEF u

\* A list of different transports is not longer than there are transports.
LEMMA RingShort ==
  ASSUME NEW l, NEW h, NEW n \in Nat, NEW c, Ring(l, h, n, c)
  PROVE  Cardinality(Transports) \in Nat /\ n <= Cardinality(Transports)
<1>1. IsFiniteSet(Transports) /\ Cardinality(Transports) \in Nat
  BY LimitsAssumption, FS_CardinalityType
<1>2. IsFiniteSet(1..n) /\ Cardinality(1..n) = n
  <2>1. /\ IsFiniteSet(1..n)
        /\ Cardinality(1..n) = IF 1 > n THEN 0 ELSE n - 1 + 1
    BY FS_Interval
  <2> QED BY <2>1
<1>3. SUFFICES ASSUME Cardinality(Transports) < n PROVE FALSE
  BY <1>1
<1> DEFINE f == [i \in 1..n |-> c[i]]
<1>4. f \in [1..n -> Transports]
  BY DEF Ring
<1>5. \E i, j \in 1..n : i # j /\ f[i] = f[j]
  <2> HIDE DEF f
  <2> QED BY <1>1, <1>2, <1>3, <1>4, FS_PigeonHole
<1> QED BY <1>5 DEF Ring

\* A walk meets the entries of the list.
LEMMA WalkMeets ==
  ASSUME NEW l \in Pointers, NEW h \in Heads, NEW S, Circles(l, h, S)
  PROVE  Walk(l, h) = S
<1>1. PICK n \in Nat : \E c : Ring(l, h, n, c) /\ S = Entries(n, c)
  BY DEF Circles
<1>2. PICK c : Ring(l, h, n, c) /\ S = Entries(n, c)
  BY <1>1
<1>3. /\ c \in [0..(n + 1) -> Node] /\ c[0] = h /\ c[n + 1] = h
      /\ \A i \in 1..n : c[i] \in Transports
      /\ \A i \in 0..n : l.nxt[c[i]] = c[i + 1]
  BY <1>2 DEF Ring
<1> DEFINE max == Cardinality(Transports)
           go(m) == m \cup {l.nxt[x] : x \in m \ {h}}
           Met(f) == f = [k \in 0..max |-> IF k = 0 THEN {l.nxt[h]} ELSE go(f[k - 1])]
           met == CHOOSE f : Met(f)
<1>4. max \in Nat /\ n <= max
  BY <1>2, RingShort
<1>5. l.nxt \in [Node -> Node] /\ h \in Node /\ h \notin Transports
  BY HeadsApart DEF Pointers
<1>6. \E f : Met(f)
  <2> DEFINE step == [k \in 1..max |-> [m \in SUBSET Node |-> go(m)]]
  <2>1. step \in [1..max -> [SUBSET Node -> SUBSET Node]]
    BY <1>5
  <2>2. {l.nxt[h]} \in SUBSET Node
    BY <1>5
  <2> HIDE DEF max
  <2>3. PICK f \in [0..max -> SUBSET Node] :
               f[0] = {l.nxt[h]} /\ \A k \in 1..max : f[k] = step[k][f[k - 1]]
    <3> DEFINE V == SUBSET Node
               a == {l.nxt[h]}
    <3>1. max \in Nat /\ a \in V /\ step \in [1..max -> [V -> V]]
      BY <1>4, <2>1, <2>2
    <3> HIDE DEF step, V, a
    <3>2. \E f : Recurs(f, max, V, a, step)
      BY <3>1, Recursion
    <3> QED BY <3>2 DEF V, a, Recurs
  <2>4. \A k \in 1..max : f[k] = go(f[k - 1])
    <3> SUFFICES ASSUME NEW k \in 1..max PROVE f[k] = go(f[k - 1])
      OBVIOUS
    <3>1. k - 1 \in 0..max
      BY <1>4
    <3>2. f[k - 1] \in SUBSET Node
      BY <3>1
    <3>3. step[k][f[k - 1]] = go(f[k - 1])
      BY <3>2
    <3> QED BY <2>3, <3>3
  <2>5. \A k \in 0..max : f[k] = IF k = 0 THEN {l.nxt[h]} ELSE go(f[k - 1])
    <3> SUFFICES ASSUME NEW k \in 0..max
                 PROVE  f[k] = IF k = 0 THEN {l.nxt[h]} ELSE go(f[k - 1])
      OBVIOUS
    <3>1. k = 0 \/ k \in 1..max
      BY <1>4
    <3> HIDE DEF go
    <3> QED BY <2>3, <2>4, <3>1
  <2> HIDE DEF go
  <2>6. Met(f)
    BY <2>5
  <2> QED BY <2>6
<1> HIDE DEF max
<1>7. Met(met)
  <2> HIDE DEF Met
  <2> QED BY <1>6
<1> HIDE DEF met
<1>8. \A k \in 0..max : met[k] = IF k = 0 THEN {l.nxt[h]} ELSE go(met[k - 1])
  <2> HIDE DEF go
  <2>1. DOMAIN met = 0..max
    BY <1>7
  <2> QED BY <1>7
\* Up to k steps meet the first k + 1 places.
<1> DEFINE First(k) == {c[i] : i \in {j \in 1..(n + 1) : j <= k + 1}}
           T == {k \in 0..max : met[k] = First(k)}
<1>9. 0 \in T
  <2>1. 0 \in 0..max /\ 0 \in 0..n
    BY <1>4
  <2>5. met[0] = {l.nxt[h]}
    BY <1>8, <2>1
  <2>2. l.nxt[h] = c[1]
    BY <1>3, <2>1
  <2>3. {j \in 1..(n + 1) : j <= 0 + 1} = {1}
    OBVIOUS
  <2>4. First(0) = {c[1]}
    BY <2>3
  <2> QED BY <2>1, <2>2, <2>4, <2>5
<1>10. ASSUME NEW k \in 1..max, k - 1 \in T PROVE k \in T
  <2>1. met[k - 1] = First(k - 1) /\ k \in 0..max /\ k # 0
    BY <1>4, <1>10
  <2>2. met[k] = go(First(k - 1))
    BY <1>8, <2>1
  <2>3. ASSUME NEW x \in go(First(k - 1)) PROVE x \in First(k)
    <3>1. CASE x \in First(k - 1)
      BY <1>4, <3>1
    <3>2. CASE x \in {l.nxt[y] : y \in First(k - 1) \ {h}}
      <4>1. PICK y \in First(k - 1) \ {h} : x = l.nxt[y]
        BY <3>2
      <4>2. PICK i \in 1..(n + 1) : i <= (k - 1) + 1 /\ y = c[i]
        BY <4>1
      <4>3. i # n + 1
        BY <1>3, <4>1, <4>2
      <4>4. i \in 0..n /\ i + 1 \in 1..(n + 1) /\ i + 1 <= k + 1
        BY <1>4, <4>2, <4>3
      <4>5. x = c[i + 1]
        BY <1>3, <4>1, <4>2, <4>4
      <4> QED BY <4>4, <4>5
    <3> QED BY <2>3, <3>1, <3>2
  <2>4. ASSUME NEW x \in First(k) PROVE x \in go(First(k - 1))
    <3>1. PICK i \in 1..(n + 1) : i <= k + 1 /\ x = c[i]
      BY <2>4
    <3>2. CASE i <= (k - 1) + 1
      BY <3>1, <3>2
    <3>3. CASE i = k + 1
      <4>1. i - 1 \in 1..n /\ i - 1 \in 1..(n + 1) /\ i - 1 <= (k - 1) + 1 /\ i - 1 \in 0..n
            /\ (i - 1) + 1 = i
        BY <1>4, <3>1, <3>3
      <4>2. c[i - 1] \in First(k - 1) /\ c[i - 1] # h
        BY <1>3, <1>5, <4>1
      <4>3. x = l.nxt[c[i - 1]]
        BY <1>3, <3>1, <4>1
      <4> QED BY <4>2, <4>3
    <3> QED BY <1>4, <3>1, <3>2, <3>3
  <2>5. met[k] = First(k)
    <3> HIDE DEF First, go
    <3> QED BY <2>2, <2>3, <2>4
  <2> QED BY <2>1, <2>5
<1>11. 0..max \subseteq T
  <2> HIDE DEF T
  <2> QED BY <1>4, <1>9, <1>10, BoundedInduction
<1>12. met[max] = First(max)
  <2>1. max \in 0..max
    BY <1>4
  <2> QED BY <1>11, <2>1
<1>13. First(max) \ {h} = Entries(n, c)
  <2>1. ASSUME NEW x \in First(max), x # h PROVE x \in Entries(n, c)
    <3>1. PICK i \in 1..(n + 1) : x = c[i]
      BY <2>1
    <3>2. i # n + 1
      BY <1>3, <2>1, <3>1
    <3>3. i \in 1..n
      BY <3>2
    <3> QED BY <3>1, <3>3 DEF Entries
  <2>2. ASSUME NEW x \in Entries(n, c) PROVE x \in First(max) /\ x # h
    <3>1. PICK i \in 1..n : x = c[i]
      BY <2>2 DEF Entries
    <3>2. i \in 1..(n + 1) /\ i <= max + 1
      BY <1>4
    <3> QED BY <1>3, <1>5, <3>1, <3>2
  <2> QED BY <2>1, <2>2
<1>14. Walk(l, h) = met[max] \ {h}
  BY DEF Walk, met, max
<1> QED BY <1>2, <1>12, <1>13, <1>14

-----------------------------------------------------------------------------
(***************************************************************************)
(* Both lists, in a server that no client tells to disconnect.  One that   *)
(* is told unlinks a transport twice, the second time through pointers     *)
(* that may be stale, and Listed fails.                                    *)
(***************************************************************************)

Pending == {t \in Transports : life[t] = "pending"}

Running == {t \in Transports : life[t] = "running"}

\* Devices without permission that usb_linux.c has given up.
Unplugged == {t \in NoPerm : dev[t] = "down"}

\* The master list has every transport that runs, but for devices without
\* permission that were unplugged.
MasterList(S) ==
    /\ Circles(links, "transport_list", S)
    /\ S \subseteq Running
    /\ Running \ Unplugged \subseteq S

ListInv == Circles(links, "pending_list", Pending) /\ \E S : MasterList(S)

\* A message to free t is about a transport that runs.
FreeInv == \A i \in DOMAIN reg : reg[i][1] = 0 => life[reg[i][2]] = "running"

\* A transport whose kick() has run has no slot; one that was closed was
\* kicked, and only one that was started is.
SlotInvOf(t) ==
    /\ t \in slots => /\ life[t] # "freed"
                      /\ kicked[t] => \E a \in Agent : pc[t][a] = "kicking"
    /\ closes[t] > 0 => kicked[t]
    /\ kicked[t] => life[t] \in {"running", "freed"}

SlotInv == \A t \in Transports : SlotInvOf(t)

\* Everything the lists depend on.
Before == TypeOK /\ RegisterInv /\ RefInv /\ OnceInv

\* What a message to free t tells of it, if no client disconnects.
LEMMA FreeMeans ==
    ASSUME Before, FreeInv, Disconnect = {}, NEW i \in DOMAIN reg,
           NEW t \in Transports, reg[i] = <<0, t>>
    PROVE  /\ life[t] = "running" /\ t \notin NoPerm /\ closes[t] > 0
           /\ \A a \in Agent : pc[t][a] # "kicking"
           /\ \A j \in DOMAIN reg : reg[j] = <<0, t>> => j = i
<1>1. reg[i][1] = 0 /\ reg[i][2] = t
    OBVIOUS
<1>2. life[t] = "running"
    BY <1>1 DEF FreeInv
<1>3. closes[t] > 0 /\ \A j \in DOMAIN reg : reg[j] = <<0, t>> => j = i
    BY DEF Before, OnceInv, OnceInvOf, FreeMessages
<1>4. /\ pc[t]["output"] = "done" /\ pc[t]["input"] = "done"
      /\ pc[t]["main"] = "none"
    BY <1>3 DEF Before, RefInv, RefInvOf, ThreadsExited
<1>5. t \notin NoPerm
    BY <1>4 DEF Before, OnceInv, OnceInvOf, Agent
<1> QED
    BY <1>2, <1>3, <1>4, <1>5 DEF Agent

\* The message the main thread takes.
LEMMA FirstMessage ==
    ASSUME TypeOK, reg # <<>>
    PROVE  /\ 1 \in DOMAIN reg /\ reg[1] = Head(reg)
           /\ \A i \in DOMAIN Tail(reg) : /\ i \in Nat \ {0} /\ i + 1 \in DOMAIN reg
                                          /\ Tail(reg)[i] = reg[i + 1]
           /\ \A i \in DOMAIN reg : /\ reg[i] \in (0..1) \X Transports
                                    /\ reg[i] = <<reg[i][1], reg[i][2]>>
                                    /\ reg[i][2] \in Transports
<1>1. reg \in Seq((0..1) \X Transports)
    BY DEF TypeOK
<1>2. \A i \in DOMAIN reg : reg[i] \in (0..1) \X Transports
    BY <1>1
<1>3. \A i \in DOMAIN Tail(reg) : i + 1 \in DOMAIN reg /\ Tail(reg)[i] = reg[i + 1]
    BY <1>1, TailIndex
<1>4. \A i \in DOMAIN Tail(reg) : i \in Nat \ {0}
    BY <1>1
<1>5. 1 \in DOMAIN reg /\ reg[1] = Head(reg)
    BY <1>1
<1> QED
    BY <1>2, <1>3, <1>4, <1>5

\* The messages to free a transport.
LEMMA FreeStep ==
    ASSUME Before, FreeInv, Disconnect = {}, [Next]_vars
    PROVE  FreeInv'
<1> USE DEF lists, device, pairs, session
<1>a. TypeOK /\ reg \in Seq((0..1) \X Transports) /\ life \in [Transports -> Life]
    BY DEF Before, TypeOK
<1>b. \A i \in DOMAIN reg : reg[i] \in (0..1) \X Transports /\ reg[i][2] \in Transports
    BY <1>a
<1>1. ASSUME reg' = reg, life' = life PROVE FreeInv'
    BY <1>1 DEF FreeInv
<1>2. ASSUME NEW t \in Transports, Find(t) PROVE FreeInv'
  <2>1. /\ life[t] \in {"unborn", "init"}
        /\ \E w \in Life : life' = [life EXCEPT ![t] = w]
        /\ reg' = reg \/ reg' = Append(reg, <<1, t>>)
    BY <1>2 DEF Find, init_socket_transport, register_socket_transport,
                register_usb_transport, Life
  <2>2. \A i \in DOMAIN reg : reg[i][1] = 0 => life'[reg[i][2]] = "running"
    BY <1>a, <1>b, <2>1 DEF FreeInv
  <2>3. <<1, t>> \in (0..1) \X Transports /\ <<1, t>>[1] = 1
    OBVIOUS
  <2>4. \A i \in DOMAIN reg' : (i \in DOMAIN reg /\ reg'[i] = reg[i]) \/ reg'[i] = <<1, t>>
    <3>1. CASE reg' = Append(reg, <<1, t>>)
      BY <1>a, <2>3, <3>1, AppendIndex
    <3> QED
      BY <2>1, <3>1
  <2> QED
    BY <2>2, <2>3, <2>4 DEF FreeInv
<1>3. ASSUME NEW t \in Transports, MainRegister(t) PROVE FreeInv'
  <2>1. reg # <<>> /\ reg' = Tail(reg) /\ life' = [life EXCEPT ![t] = "running"]
    BY <1>3 DEF MainRegister
  <2> QED
    BY <1>a, <1>b, <2>1, FirstMessage DEF FreeInv
<1>4. ASSUME NEW t \in Transports, MainRemove(t) PROVE FreeInv'
  <2>1. reg # <<>> /\ reg' = Tail(reg) /\ life' = [life EXCEPT ![t] = "freed"]
        /\ Head(reg) = <<0, t>>
    BY <1>4 DEF MainRemove
  <2>2. 1 \in DOMAIN reg /\ reg[1] = <<0, t>>
    BY <1>a, <2>1, FirstMessage
  <2>3. \A j \in DOMAIN reg : reg[j] = <<0, t>> => j = 1
    BY <2>2, FreeMeans
  <2>4. ASSUME NEW i \in DOMAIN reg', reg'[i][1] = 0 PROVE life'[reg'[i][2]] = "running"
    <3>1. /\ i \in Nat \ {0} /\ i + 1 \in DOMAIN reg /\ reg'[i] = reg[i + 1]
          /\ reg[i + 1] = <<reg[i + 1][1], reg[i + 1][2]>> /\ reg[i + 1][2] \in Transports
      BY <1>a, <2>1, FirstMessage
    <3>2. i + 1 # 1
      BY <3>1
    <3>3. reg[i + 1][1] = 0 /\ reg[i + 1][2] # t
      BY <2>3, <2>4, <3>1, <3>2
    <3>4. life[reg[i + 1][2]] = "running"
      BY <3>1, <3>3 DEF FreeInv
    <3> QED
      BY <1>a, <2>1, <3>1, <3>3, <3>4
  <2> QED
    BY <2>4 DEF FreeInv
<1>5. ASSUME NEW t \in Transports,
             HandleSync(t) \/ HandleCnxn(t) \/ Output(t) \/ Input(t)
      PROVE  FreeInv'
  <2>1. life' = life /\ reg' = reg
    BY <1>5 DEF HandleSync, HandleCnxn, Output, Input, OutputStart, OutputPump,
           OutputFail, InputRead, InputFail, InputSweep
  <2> QED
    BY <1>1, <2>1
<1>6. ASSUME NEW t \in Transports, NEW a \in Agent, Leave(t, a) PROVE FreeInv'
  <2>1. CASE KickTest(t, a) \/ KickLock(t, a) \/ KickRun(t, a)
    <3>1. life' = life /\ reg' = reg
      BY <2>1 DEF KickTest, KickLock, KickRun
    <3> QED
      BY <1>1, <3>1
  <2>2. CASE Unref(t, a)
    <3>1. life[t] = "running" /\ life' = life /\ (reg' = reg \/ reg' = Append(reg, <<0, t>>))
      BY <2>2 DEF Unref, Alive
    <3>2. <<0, t>> \in (0..1) \X Transports /\ <<0, t>>[2] = t
      OBVIOUS
    <3>3. \A i \in DOMAIN reg' : (i \in DOMAIN reg /\ reg'[i] = reg[i]) \/ reg'[i] = <<0, t>>
      <4>1. CASE reg' = Append(reg, <<0, t>>)
        BY <1>a, <3>2, <4>1, AppendIndex
      <4> QED
        BY <3>1, <4>1
    <3> QED
      BY <3>1, <3>2, <3>3 DEF FreeInv
  <2> QED
    BY <1>6, <2>1, <2>2 DEF Leave
<1>7. ASSUME NEW t \in Transports,
             Unregister(t) \/ unregister_usb_transport(t) \/ LinkDown(t)
      PROVE  FreeInv'
  <2>1. life' = life /\ reg' = reg
    BY <1>7 DEF Unregister, unregister_usb_transport, LinkDown
  <2> QED
    BY <1>1, <2>1
<1>8. CASE UNCHANGED vars
    BY <1>1, <1>8 DEF vars
<1> QED
    BY <1>2, <1>3, <1>4, <1>5, <1>6, <1>7, <1>8 DEF Next, Main

\* A slot is given back on every way that ends in free().
LEMMA SlotStep ==
    ASSUME Before, FreeInv, SlotInv, Disconnect = {}, [Next]_vars
    PROVE  SlotInv'
<1> SUFFICES ASSUME NEW u \in Transports PROVE SlotInvOf(u)'
    BY DEF SlotInv
<1> USE DEF lists, device, pairs, session
<1>a. /\ TypeOK /\ life \in [Transports -> Life] /\ pc \in [Transports -> [Agent -> Where]]
      /\ kicked \in [Transports -> BOOLEAN]
      /\ closes \in [Transports -> Nat] /\ refs \in [Transports -> Int]
    BY DEF Before, TypeOK
<1>b. SlotInvOf(u)
    BY DEF SlotInv
<1>c. ASSUME u \in slots' => u \in slots, closes'[u] = closes[u], kicked'[u] = kicked[u],
             life'[u] = life[u],
             \A a \in Agent : pc[u][a] = "kicking" => pc'[u][a] = "kicking"
      PROVE  SlotInvOf(u)'
    BY <1>b, <1>c DEF SlotInvOf
<1>1. CASE UNCHANGED vars
  <2>1. slots' = slots /\ closes' = closes /\ kicked' = kicked /\ life' = life /\ pc' = pc
    BY <1>1 DEF vars
  <2> QED
    BY <1>c, <2>1
<1>2. ASSUME NEW t \in Transports, Find(t) PROVE SlotInvOf(u)'
  <2>1. /\ kicked' = kicked /\ closes' = closes /\ pc' = pc
        /\ life[t] \in {"unborn", "init"}
        /\ \E w \in Life \ {"freed"} : life' = [life EXCEPT ![t] = w]
        /\ slots' = slots \/ slots' = slots \cup {t}
    BY <1>2 DEF Find, init_socket_transport, register_socket_transport,
                register_usb_transport, Life
  <2>2. CASE u = t
    <3>1. ~kicked[t]
      BY <1>b, <2>1, <2>2 DEF SlotInvOf
    <3>2. life'[t] # "freed"
      BY <1>a, <2>1
    <3> QED
      BY <1>b, <2>1, <2>2, <3>1, <3>2 DEF SlotInvOf
  <2>3. CASE u # t
    <3>1. life'[u] = life[u]
      BY <1>a, <2>1, <2>3
    <3> QED
      BY <1>c, <2>1, <2>3, <3>1
  <2> QED
    BY <2>2, <2>3
<1>3. ASSUME NEW t \in Transports, MainRegister(t) PROVE SlotInvOf(u)'
  <2>1. /\ kicked' = kicked /\ closes' = closes /\ slots' = slots
        /\ life' = [life EXCEPT ![t] = "running"]
        /\ \/ pc' = pc
           \/ pc' = [pc EXCEPT ![t]["output"] = "start", ![t]["input"] = "read"]
        /\ reg # <<>> /\ Head(reg) = <<1, t>> /\ reg' = Tail(reg)
    BY <1>3 DEF MainRegister
  <2>2. CASE u = t
    <3>1. life[t] = "pending"
      BY <1>a, <2>1, RegisterTail DEF Before
    <3>2. ~kicked[t] /\ life'[t] = "running"
      BY <1>a, <1>b, <2>1, <2>2, <3>1 DEF SlotInvOf
    <3> QED
      BY <1>b, <2>1, <2>2, <3>2 DEF SlotInvOf
  <2>3. CASE u # t
    <3>1. life'[u] = life[u] /\ pc'[u] = pc[u]
      BY <1>a, <2>1, <2>3
    <3> QED
      BY <1>c, <2>1, <3>1
  <2> QED
    BY <2>2, <2>3
<1>4. ASSUME NEW t \in Transports, MainRemove(t) PROVE SlotInvOf(u)'
  <2>1. /\ kicked' = kicked /\ closes' = closes /\ slots' = slots /\ pc' = pc
        /\ life' = [life EXCEPT ![t] = "freed"]
        /\ reg # <<>> /\ Head(reg) = <<0, t>>
    BY <1>4 DEF MainRemove
  <2>2. CASE u = t
    <3>1. 1 \in DOMAIN reg /\ reg[1] = <<0, t>>
      BY <1>a, <2>1, FirstMessage
    <3>2. closes[t] > 0 /\ \A a \in Agent : pc[t][a] # "kicking"
      BY <3>1, FreeMeans
    <3>3. t \notin slots /\ kicked[t] /\ life'[t] = "freed"
      BY <1>a, <1>b, <2>1, <2>2, <3>2 DEF SlotInvOf
    <3> QED
      BY <1>b, <2>1, <2>2, <3>3 DEF SlotInvOf
  <2>3. CASE u # t
    <3>1. life'[u] = life[u]
      BY <1>a, <2>1, <2>3
    <3> QED
      BY <1>c, <2>1, <3>1
  <2> QED
    BY <2>2, <2>3
<1>5. ASSUME NEW t \in Transports,
             HandleSync(t) \/ HandleCnxn(t) \/ Output(t) \/ Input(t)
      PROVE  SlotInvOf(u)'
  <2>1. kicked' = kicked /\ closes' = closes /\ slots' = slots /\ life' = life
    BY <1>5 DEF HandleSync, HandleCnxn, Output, Input, OutputStart, OutputPump,
           OutputFail, InputRead, InputFail, InputSweep
  <2>2. \/ pc' = pc
        \/ \E a \in Agent, w \in Where :
              pc' = [pc EXCEPT ![t][a] = w] /\ pc[t][a] # "kicking"
    BY <1>5 DEF HandleSync, HandleCnxn, Output, Input, OutputStart, OutputPump,
           OutputFail, InputRead, InputFail, InputSweep, Where, Agent
  <2>3. \A a \in Agent : pc[u][a] = "kicking" => pc'[u][a] = "kicking"
    BY <1>a, <2>2
  <2> QED
    BY <1>c, <2>1, <2>3
<1>6. ASSUME NEW t \in Transports, NEW a \in Agent, Leave(t, a) PROVE SlotInvOf(u)'
  <2>a. /\ life[t] = "running" /\ life' = life
        /\ \E w \in Where : pc' = [pc EXCEPT ![t][a] = w]
    BY <1>6 DEF Leave, KickTest, KickLock, KickRun, Unref, Goto, Alive, Where
  <2>b. u # t => pc'[u] = pc[u] /\ life'[u] = life[u]
    BY <1>a, <2>a
  <2>c. pc[t][a] # "kicking" => \A b \in Agent : pc[t][b] = "kicking" => pc'[t][b] = "kicking"
    BY <1>a, <2>a
  <2>1. CASE KickTest(t, a)
    <3>1. kicked' = kicked /\ closes' = closes /\ slots' = slots /\ pc[t][a] # "kicking"
      BY <2>1 DEF KickTest
    <3> QED
      BY <1>c, <2>a, <2>b, <2>c, <3>1
  <2>2. CASE KickLock(t, a)
    <3>1. /\ kicked' = [kicked EXCEPT ![t] = TRUE] /\ closes' = closes /\ slots' = slots
          /\ pc[t][a] # "kicking"
          /\ ~kicked[t] => pc' = [pc EXCEPT ![t][a] = "kicking"]
      BY <2>2 DEF KickLock, Goto
    <3>2. CASE u = t
      <4>1. ~kicked[t] => pc'[t][a] = "kicking"
        BY <1>a, <3>1
      <4>2. kicked'[t] /\ life'[t] = "running"
        BY <1>a, <2>a, <3>1
      <4> QED
        BY <1>b, <2>c, <3>1, <3>2, <4>1, <4>2 DEF SlotInvOf
    <3>3. CASE u # t
      <4>1. kicked'[u] = kicked[u]
        BY <1>a, <3>1, <3>3
      <4> QED
        BY <1>c, <2>b, <3>1, <3>3, <4>1
    <3> QED
      BY <3>2, <3>3
  <2>3. CASE KickRun(t, a)
    <3>1. kicked' = kicked /\ closes' = closes /\ slots' = slots \ {t}
      BY <2>3 DEF KickRun, remote_kick
    <3>2. CASE u = t
      BY <1>b, <2>a, <3>1, <3>2 DEF SlotInvOf
    <3>3. CASE u # t
      BY <1>c, <2>b, <3>1, <3>3
    <3> QED
      BY <3>2, <3>3
  <2>4. CASE Unref(t, a)
    <3>1. /\ pc[t][a] # "kicking"
          /\ \/ /\ kicked' = [kicked EXCEPT ![t] = TRUE]
                /\ closes' = [closes EXCEPT ![t] = @ + 1]
                /\ IF kicked[t] THEN slots' = slots ELSE slots' = slots \ {t}
             \/ kicked' = kicked /\ closes' = closes /\ slots' = slots
      BY <2>4 DEF Unref, remote_kick, remote_close
    <3>2. CASE u = t
      <4>1. CASE kicked' = kicked /\ closes' = closes /\ slots' = slots
        BY <1>c, <2>a, <2>c, <3>1, <3>2, <4>1
      <4>2. CASE /\ kicked' = [kicked EXCEPT ![t] = TRUE]
                 /\ IF kicked[t] THEN slots' = slots ELSE slots' = slots \ {t}
        <5>1. kicked'[t] /\ life'[t] = "running"
          BY <1>a, <2>a, <4>2
        <5> QED
          BY <1>b, <2>c, <3>1, <3>2, <4>2, <5>1 DEF SlotInvOf
      <4> QED
        BY <3>1, <4>1, <4>2
    <3>3. CASE u # t
      <4>1. kicked'[u] = kicked[u] /\ closes'[u] = closes[u] /\ (u \in slots' => u \in slots)
        BY <1>a, <3>1, <3>3
      <4> QED
        BY <1>c, <2>b, <3>3, <4>1
    <3> QED
      BY <3>2, <3>3
  <2> QED
    BY <1>6, <2>1, <2>2, <2>3, <2>4 DEF Leave
<1>7. ASSUME NEW t \in Transports,
             Unregister(t) \/ unregister_usb_transport(t) \/ LinkDown(t)
      PROVE  SlotInvOf(u)'
  <2>1. kicked' = kicked /\ closes' = closes /\ slots' = slots /\ life' = life /\ pc' = pc
    BY <1>7 DEF Unregister, unregister_usb_transport, LinkDown
  <2> QED
    BY <1>c, <2>1
<1> QED
    BY <1>1, <1>2, <1>3, <1>4, <1>5, <1>6, <1>7 DEF Next, Main

\* The pointers of one list are not those of the other.
LEMMA ListsApart ==
    ASSUME NEW l \in Pointers, NEW h \in Heads, NEW g \in Heads, h # g,
           NEW S, NEW T, S \cap T = {}, Circles(l, h, S), Circles(l, g, T)
    PROVE  /\ \A t \in T : Circles(Unlink(l, t), h, S)
           /\ \A t \in Transports : t \notin S \cup T => Circles(LinkLast(l, g, t), h, S)
<1>1. S \subseteq Transports /\ T \subseteq Transports
    BY DEF Circles, Ring, Entries
<1>2. h \in Node /\ g \in Node /\ h \notin Transports /\ g \notin Transports
    BY HeadsApart
<1>3. l.nxt \in [Node -> Node] /\ l.prv \in [Node -> Node] /\ Transports \subseteq Node
    BY DEF Pointers, Node
<1>4. ASSUME NEW t \in T PROVE Circles(Unlink(l, t), h, S)
  <2>1. l.nxt[t] \in T \cup {g} /\ l.prv[t] \in T \cup {g}
    BY UnlinkCircles
  <2>2. ASSUME NEW x \in S \cup {h}
        PROVE  Unlink(l, t).nxt[x] = l.nxt[x] /\ Unlink(l, t).prv[x] = l.prv[x]
    <3>1. x \in Node /\ x # l.nxt[t] /\ x # l.prv[t]
      BY <1>1, <1>2, <1>3, <2>1
    <3> QED
      BY <1>3, <3>1 DEF Unlink
  <2> QED
    BY <2>2, OtherCircles
<1>5. ASSUME NEW t \in Transports, t \notin S \cup T PROVE Circles(LinkLast(l, g, t), h, S)
  <2>1. l.prv[g] \in T \cup {g}
    BY <1>5, LinkLastCircles
  <2>2. ASSUME NEW x \in S \cup {h}
        PROVE  LinkLast(l, g, t).nxt[x] = l.nxt[x] /\ LinkLast(l, g, t).prv[x] = l.prv[x]
    <3>1. x \in Node /\ x # l.prv[g] /\ x # g /\ x # t
      BY <1>1, <1>2, <1>3, <1>5, <2>1
    <3> QED
      BY <1>3, <3>1 DEF LinkLast
  <2> QED
    BY <2>2, OtherCircles
<1> QED
    BY <1>4, <1>5

\* Every step keeps both lists in order.
LEMMA ListStep ==
    ASSUME Before, FreeInv, ListInv, Disconnect = {}, [Next]_vars
    PROVE  ListInv'
<1> USE DEF lists, device, pairs, session
<1>a. /\ TypeOK /\ life \in [Transports -> Life] /\ links \in Pointers
      /\ dev \in [Transports -> {"up", "down"}]
    BY DEF Before, TypeOK, Pointers
<1>b. Circles(links, "pending_list", Pending)
    BY DEF ListInv
<1>c. PICK S : MasterList(S)
    BY DEF ListInv
<1>d. /\ Circles(links, "transport_list", S)
      /\ S \subseteq Running /\ Running \ Unplugged \subseteq S
    BY <1>c DEF MasterList
<1>e. /\ "transport_list" \in Heads /\ "pending_list" \in Heads
      /\ "transport_list" # "pending_list"
    BY DEF Heads
<1>f. Pending \cap S = {} /\ S \cap Pending = {}
    BY <1>d DEF Pending, Running
<1>g. ASSUME NEW P, NEW T, Circles(links', "pending_list", P), P = Pending',
             Circles(links', "transport_list", T), T \subseteq Running',
             Running' \ Unplugged' \subseteq T
      PROVE  ListInv'
  <2>1. MasterList(T)'
    BY <1>g DEF MasterList
  <2>2. \E X : MasterList(X)'
    BY <2>1
  <2> QED
    BY <1>g, <2>2 DEF ListInv
<1>h. ASSUME links' = links, life' = life,
             \A t \in NoPerm : dev[t] = "down" => dev'[t] = "down"
      PROVE  ListInv'
  <2>1. Pending' = Pending /\ Running' = Running /\ Unplugged \subseteq Unplugged'
    BY <1>h DEF Pending, Running, Unplugged
  <2> HIDE DEF Pending, Running, Unplugged
  <2> QED
    BY <1>b, <1>d, <1>g, <1>h, <2>1
<1>1. CASE UNCHANGED vars
    BY <1>1, <1>h DEF vars
<1>2. ASSUME NEW t \in Transports, Find(t) PROVE ListInv'
  <2>1. /\ life[t] \in {"unborn", "init"} /\ dev' = dev
        /\ \/ links' = links /\ \E w \in {"init", "rejected"} : life' = [life EXCEPT ![t] = w]
           \/ /\ links' = LinkLast(links, "pending_list", t)
              /\ life' = [life EXCEPT ![t] = "pending"]
    BY <1>2 DEF Find, init_socket_transport, register_socket_transport,
                register_usb_transport
  <2>2. /\ t \notin Pending /\ t \notin Running /\ t \notin S
        /\ Running' = Running /\ Unplugged' = Unplugged
    BY <1>a, <1>d, <2>1 DEF Pending, Running, Unplugged
  <2>3. CASE links' = links /\ \E w \in {"init", "rejected"} : life' = [life EXCEPT ![t] = w]
    <3>1. Pending' = Pending
      BY <1>a, <2>1, <2>3 DEF Pending
    <3> QED
      BY <1>b, <1>d, <1>g, <2>2, <2>3, <3>1
  <2>4. CASE /\ links' = LinkLast(links, "pending_list", t)
             /\ life' = [life EXCEPT ![t] = "pending"]
    <3>1. Pending' = Pending \cup {t}
      BY <1>a, <2>4 DEF Pending
    <3>2. Circles(links', "pending_list", Pending \cup {t})
      BY <1>a, <1>b, <1>e, <2>2, <2>4, LinkLastCircles
    <3>3. Circles(links', "transport_list", S)
      BY <1>a, <1>b, <1>d, <1>e, <1>f, <2>2, <2>4, ListsApart
    <3> QED
      BY <1>d, <1>g, <2>2, <3>1, <3>2, <3>3
  <2> QED
    BY <2>1, <2>3, <2>4
<1>3. ASSUME NEW t \in Transports, MainRegister(t) PROVE ListInv'
  <2>1. /\ life' = [life EXCEPT ![t] = "running"] /\ dev' = dev
        /\ links' = LinkLast(Unlink(links, t), "transport_list", t)
        /\ reg # <<>> /\ Head(reg) = <<1, t>> /\ reg' = Tail(reg)
    BY <1>3 DEF MainRegister, OntoMasterList
  <2>2. life[t] = "pending"
    BY <1>a, <2>1, RegisterTail DEF Before
  <2>3. /\ t \in Pending /\ t \notin S /\ Pending' = Pending \ {t}
        /\ Running' = Running \cup {t} /\ Unplugged' = Unplugged
    BY <1>a, <1>f, <2>1, <2>2 DEF Pending, Running, Unplugged
  <2> DEFINE l == Unlink(links, t)
  <2>4. l \in Pointers
    BY <1>a, UnlinkType
  <2>5. Circles(l, "pending_list", Pending \ {t})
    BY <1>a, <1>b, <1>e, <2>3, UnlinkCircles
  <2>6. Circles(l, "transport_list", S)
    BY <1>a, <1>b, <1>d, <1>e, <1>f, <2>3, ListsApart
  <2>7. t \notin S \cup (Pending \ {t}) /\ (Pending \ {t}) \cap S = {}
    BY <1>f, <2>3
  <2>8. links' = LinkLast(l, "transport_list", t)
    BY <2>1
  <2> HIDE DEF l
  <2>9. Circles(links', "transport_list", S \cup {t})
    BY <1>e, <2>3, <2>4, <2>6, <2>8, LinkLastCircles
  <2>10. Circles(links', "pending_list", Pending \ {t})
    BY <1>e, <2>4, <2>5, <2>6, <2>7, <2>8, ListsApart
  <2>11. S \cup {t} \subseteq Running' /\ Running' \ Unplugged' \subseteq S \cup {t}
    BY <1>d, <2>3
  <2> QED
    BY <1>g, <2>3, <2>9, <2>10, <2>11
<1>4. ASSUME NEW t \in Transports, MainRemove(t) PROVE ListInv'
  <2>1. /\ life' = [life EXCEPT ![t] = "freed"] /\ dev' = dev
        /\ links' = Unlink(links, t)
        /\ reg # <<>> /\ Head(reg) = <<0, t>>
    BY <1>4 DEF MainRemove
  <2>2. 1 \in DOMAIN reg /\ reg[1] = <<0, t>>
    BY <1>a, <2>1, FirstMessage
  <2>3. life[t] = "running" /\ t \notin NoPerm
    BY <2>2, FreeMeans
  <2>4. t \in S
    BY <1>d, <2>3 DEF Running, Unplugged
  <2>5. Pending' = Pending /\ Running' = Running \ {t} /\ Unplugged' = Unplugged
    BY <1>a, <2>1, <2>3 DEF Pending, Running, Unplugged
  <2>6. Circles(links', "transport_list", S \ {t})
    BY <1>a, <1>d, <1>e, <2>1, <2>4, UnlinkCircles
  <2>7. Circles(links', "pending_list", Pending)
    BY <1>a, <1>b, <1>d, <1>e, <1>f, <2>1, <2>4, ListsApart
  <2>8. S \ {t} \subseteq Running' /\ Running' \ Unplugged' \subseteq S \ {t}
    BY <1>d, <2>5
  <2> QED
    BY <1>g, <2>5, <2>6, <2>7, <2>8
<1>5. ASSUME NEW t \in Transports, unregister_usb_transport(t) PROVE ListInv'
  <2>1. /\ t \in NoPerm /\ dev' = [dev EXCEPT ![t] = "down"] /\ life' = life
        /\ links' = IF t \in Walk(links, "transport_list") THEN Unlink(links, t) ELSE links
    BY <1>5 DEF unregister_usb_transport
  <2>2. Walk(links, "transport_list") = S
    BY <1>a, <1>d, <1>e, WalkMeets
  <2>3. Pending' = Pending /\ Running' = Running /\ Unplugged' = Unplugged \cup {t}
    BY <1>a, <2>1 DEF Pending, Running, Unplugged
  <2>4. CASE t \in S
    <3>1. links' = Unlink(links, t)
      BY <2>1, <2>2, <2>4
    <3>2. Circles(links', "transport_list", S \ {t})
      BY <1>a, <1>d, <1>e, <2>4, <3>1, UnlinkCircles
    <3>3. Circles(links', "pending_list", Pending)
      BY <1>a, <1>b, <1>d, <1>e, <1>f, <2>4, <3>1, ListsApart
    <3>4. S \ {t} \subseteq Running' /\ Running' \ Unplugged' \subseteq S \ {t}
      BY <1>d, <2>3
    <3> QED
      BY <1>g, <2>3, <3>2, <3>3, <3>4
  <2>5. CASE t \notin S
    <3>1. links' = links
      BY <2>1, <2>2, <2>5
    <3>2. S \subseteq Running' /\ Running' \ Unplugged' \subseteq S
      BY <1>d, <2>3
    <3> QED
      BY <1>b, <1>d, <1>g, <2>3, <3>1, <3>2
  <2> QED
    BY <2>4, <2>5
<1>6. ASSUME NEW t \in Transports,
             \/ HandleSync(t) \/ HandleCnxn(t) \/ Output(t) \/ Input(t)
             \/ Unregister(t) \/ LinkDown(t)
      PROVE  ListInv'
  <2>1. /\ life' = life /\ links' = links
        /\ dev' = dev \/ dev' = [dev EXCEPT ![t] = "down"]
    BY <1>6 DEF HandleSync, HandleCnxn, Output, Input, OutputStart, OutputPump,
           OutputFail, InputRead, InputFail, InputSweep, Unregister, LinkDown
  <2>2. \A n \in NoPerm : dev[n] = "down" => dev'[n] = "down"
    BY <1>a, <2>1, KindsAssumption
  <2> QED
    BY <1>h, <2>1, <2>2
<1>7. ASSUME NEW t \in Transports, NEW a \in Agent, Leave(t, a) PROVE ListInv'
  <2>1. /\ life' = life /\ links' = links
        /\ dev' = dev \/ dev' = [dev EXCEPT ![t] = "down"]
    BY <1>7 DEF Leave, KickTest, KickLock, KickRun, Unref, remote_kick, remote_close
  <2>2. \A n \in NoPerm : dev[n] = "down" => dev'[n] = "down"
    BY <1>a, <2>1, KindsAssumption
  <2> QED
    BY <1>h, <2>1, <2>2
<1> QED
    BY <1>1, <1>2, <1>3, <1>4, <1>5, <1>6, <1>7 DEF Next, Main

\* Both lists begin empty.
LEMMA ListInit == Init => FreeInv /\ SlotInv /\ ListInv
<1> SUFFICES ASSUME Init PROVE FreeInv /\ SlotInv /\ ListInv
    OBVIOUS
<1>1. FreeInv /\ SlotInv
    BY DEF Init, FreeInv, SlotInv, SlotInvOf
<1>2. ASSUME NEW h \in Heads PROVE Circles(links, h, {})
  <2> DEFINE c == [i \in 0..(0 + 1) |-> h]
  <2>1. h \in Node /\ links.nxt[h] = h /\ links.prv[h] = h
    BY HeadsApart DEF Init, NoLinks
  <2>2. Ring(links, h, 0, c)
    BY <2>1 DEF Ring
  <2>3. {} = Entries(0, c)
    BY DEF Entries
  <2> QED
    BY <2>2, <2>3 DEF Circles
<1>3. Pending = {} /\ Running = {}
    BY DEF Init, Pending, Running
<1>4. MasterList({})
    BY <1>2, <1>3 DEF MasterList, Heads
<1> QED
    BY <1>1, <1>2, <1>3, <1>4 DEF ListInv, Heads

\* What Listed says follows.
LEMMA ListMeans ==
    ASSUME TypeOK, SlotInv, ListInv
    PROVE  Listed
<1>1. links \in Pointers /\ slots \subseteq Transports
    BY KindsAssumption DEF TypeOK, Pointers
<1>2. PICK S : MasterList(S)
    BY DEF ListInv
<1>3. /\ Circles(links, "pending_list", Pending) /\ Circles(links, "transport_list", S)
      /\ S \subseteq Running /\ Running \ Unplugged \subseteq S
    BY <1>2 DEF MasterList, ListInv
<1>4. ASSUME NEW h \in Heads, NEW T, Circles(links, h, T)
      PROVE  Walk(links, h) = T /\ Walk(Back(links), h) = T
  <2>1. Back(links) \in Pointers
    BY <1>1 DEF Back, Pointers
  <2>2. Circles(Back(links), h, T)
    BY <1>1, <1>4, BackCircles
  <2> QED
    BY <1>1, <1>4, <2>1, <2>2, WalkMeets
<1>5. \A l \in {links, Back(links)} :
         Walk(l, "pending_list") = Pending /\ Walk(l, "transport_list") = S
    BY <1>3, <1>4 DEF Heads
<1>6. \A t \in slots : life[t] # "freed"
    BY <1>1 DEF SlotInv, SlotInvOf
<1> DEFINE gone == {t \in Disconnect : pc[t]["main"] # "none" \/ refs[t] < 2}
<1>7. Running \ (Unplugged \cup gone) \subseteq S
    BY <1>3
<1>8. \A l \in {links, Back(links)} :
            /\ Walk(l, "pending_list") = Pending
            /\ Walk(l, "transport_list") \subseteq Running
            /\ Running \ (Unplugged \cup gone) \subseteq Walk(l, "transport_list")
    BY <1>3, <1>5, <1>7
<1> QED
    BY <1>6, <1>8 DEF Listed, Back, Running, Pending, Unplugged

\* However registration, unplugging and removal interleave, both lists, read
\* forwards or backwards, have exactly the transports that belong there, and
\* a freed transport has left its slot in local_transports: in a server whose
\* clients send no "disconnect:".
THEOREM ListedHolds ==
    ASSUME Disconnect = {}
    PROVE  Spec => []Listed
<1> DEFINE Inv == Before /\ FreeInv /\ SlotInv /\ ListInv
<1>1. Init => Inv
  <2>1. Init => RegisterInv /\ RefInv /\ OnceInv
    BY DEF Init, RegisterInv, RefInv, RefInvOf, NotStarted, Agent, OnceInv, OnceInvOf,
           FreeMessages
  <2> QED
    BY <2>1, InitType, ListInit DEF Before
<1>2. Inv /\ [Next]_vars => Inv'
  <2> SUFFICES ASSUME Inv, [Next]_vars PROVE Inv'
    OBVIOUS
  <2>1. TypeOK' /\ RegisterInv' /\ RefInv' /\ OnceInv'
    BY TypeStep, RefStep, OnceStep DEF Before
  <2>2. FreeInv' /\ SlotInv' /\ ListInv'
    BY FreeStep, SlotStep, ListStep
  <2> QED
    BY <2>1, <2>2 DEF Before
<1>3. Inv => Listed
    BY ListMeans DEF Before
<1> QED
    BY <1>1, <1>2, <1>3, PTL DEF Spec

-----------------------------------------------------------------------------
(* The phases of AdbLifecycle. *)

\* A transport with a socket shares the descriptors with no other: its own are
\* closed twice, and may be another's by then.
SocketAlone == \A t \in Transports \ Usb : Transports \ NoPerm = {t}

\* The socket pair of t is its own until t->close() of a socket closes it.
PairInvOf(t) ==
    life[t] = "running" /\ t \notin NoPerm /\ (closes[t] = 0 \/ t \in Usb) => PairOpen(t)

PairInv == \A t \in Transports : PairInvOf(t)

\* A step after which the descriptors of u are what they were.
LEMMA PairKept ==
    ASSUME NEW u \in Transports, PairInvOf(u), fd'[u] = fd[u],
           PairOpen(u) => owner'[fd[u]] = owner[fd[u]],
           closes'[u] = 0 => closes[u] = 0,
           life'[u] = "running" => life[u] = "running"
    PROVE  PairInvOf(u)'
    BY DEF PairInvOf, PairOpen

\* The descriptors of a transport stay its own through every step.
LEMMA PairStep ==
    ASSUME Before, FreeInv, PairInv, Disconnect = {}, SocketAlone, [Next]_vars
    PROVE  PairInv'
<1> SUFFICES ASSUME NEW u \in Transports PROVE PairInvOf(u)'
    BY DEF PairInv
<1> USE DEF lists, device, pairs, session
<1>a. /\ TypeOK /\ life \in [Transports -> Life] /\ fd \in [Transports -> 0..MaxFd]
      /\ owner \in [Fd -> Transports \cup {"none"}] /\ closes \in [Transports -> Nat]
    BY DEF Before, TypeOK
<1>b. PairInvOf(u)
    BY DEF PairInv
<1>c. NoPerm \subseteq Usb /\ "none" \notin Transports /\ MaxFd \in Nat
    BY KindsAssumption, LimitsAssumption
<1>d. \A t \in Transports : PairOpen(t) => fd[t] \in Fd
    BY <1>a, <1>c DEF PairOpen, Fd
<1>1. ASSUME fd' = fd, owner' = owner, closes' = closes, life' = life PROVE PairInvOf(u)'
    BY <1>b, <1>1, PairKept
<1>2. ASSUME NEW t \in Transports, Find(t) PROVE PairInvOf(u)'
  <2>1. /\ fd' = fd /\ owner' = owner /\ closes' = closes
        /\ \E w \in Life \ {"running"} : life' = [life EXCEPT ![t] = w]
    BY <1>2 DEF Find, init_socket_transport, register_socket_transport,
                register_usb_transport, Life
  <2>2. life'[u] = "running" => life[u] = "running"
    BY <1>a, <2>1
  <2> QED BY <1>b, <2>1, <2>2, PairKept
<1>3. ASSUME NEW t \in Transports, MainRegister(t) PROVE PairInvOf(u)'
  <2>1. closes' = closes /\ life' = [life EXCEPT ![t] = "running"]
    BY <1>3 DEF MainRegister
  <2>2. CASE t \in NoPerm
    <3>1. fd' = fd /\ owner' = owner
      BY <1>3, <2>2 DEF MainRegister
    <3>2. CASE u = t
      BY <2>2, <3>2 DEF PairInvOf
    <3>3. CASE u # t
      <4>1. life'[u] = life[u]
        BY <1>a, <2>1, <3>3
      <4> QED BY <1>b, <2>1, <3>1, <4>1, PairKept
    <3> QED BY <3>2, <3>3
  <2>3. CASE t \notin NoPerm
    <3>1. PICK f \in Fd : /\ owner[f] = "none" /\ fd' = [fd EXCEPT ![t] = f]
                          /\ owner' = [owner EXCEPT ![f] = t]
      BY <1>3, <2>3 DEF MainRegister
    <3>2. CASE u = t
      <4>1. fd'[t] = f /\ owner'[f] = t /\ f # 0
        BY <1>a, <1>c, <3>1 DEF Fd
      <4> QED BY <3>2, <4>1 DEF PairInvOf, PairOpen
    <3>3. CASE u # t
      <4>1. life'[u] = life[u] /\ fd'[u] = fd[u]
        BY <1>a, <2>1, <3>1, <3>3
      <4>2. ASSUME PairOpen(u) PROVE owner'[fd[u]] = owner[fd[u]]
        <5>1. fd[u] \in Fd /\ fd[u] # f
          BY <1>c, <1>d, <3>1, <4>2 DEF PairOpen
        <5> QED BY <1>a, <3>1, <5>1
      <4> QED BY <1>b, <2>1, <4>1, <4>2, PairKept
    <3> QED BY <3>2, <3>3
  <2> QED BY <2>2, <2>3
<1>4. ASSUME NEW t \in Transports, MainRemove(t) PROVE PairInvOf(u)'
  <2>1. /\ fd' = fd /\ closes' = closes /\ life' = [life EXCEPT ![t] = "freed"]
        /\ owner' = [owner EXCEPT ![fd[t]] = "none"] /\ reg # <<>> /\ Head(reg) = <<0, t>>
    BY <1>4 DEF MainRemove
  <2>2. CASE u = t
    <3>1. life'[u] # "running"
      BY <1>a, <2>1, <2>2
    <3> QED BY <3>1 DEF PairInvOf
  <2>3. CASE u # t
    <3>1. life'[u] = life[u]
      BY <1>a, <2>1, <2>3
    <3>2. CASE u \in NoPerm
      BY <3>2 DEF PairInvOf
    <3>3. CASE u \notin NoPerm
      <4>1. 1 \in DOMAIN reg /\ reg[1] = <<0, t>>
        BY <1>a, <2>1, FirstMessage
      <4>2. life[t] = "running" /\ t \notin NoPerm
        BY <4>1, FreeMeans
      <4>3. t \in Usb
        BY <2>3, <3>3 DEF SocketAlone
      <4>4. PairOpen(t)
        BY <4>2, <4>3 DEF PairInv, PairInvOf
      <4>5. ASSUME PairOpen(u) PROVE owner'[fd[u]] = owner[fd[u]]
        <5>1. fd[u] \in Fd /\ fd[u] # fd[t]
          BY <1>d, <2>3, <4>4, <4>5 DEF PairOpen
        <5> QED BY <1>a, <2>1, <5>1
      <4> QED BY <1>b, <2>1, <3>1, <4>5, PairKept
    <3> QED BY <3>2, <3>3
  <2> QED BY <2>2, <2>3
<1>5. ASSUME NEW t \in Transports,
             HandleSync(t) \/ HandleCnxn(t) \/ Output(t) \/ Input(t)
      PROVE  PairInvOf(u)'
  <2>1. fd' = fd /\ owner' = owner /\ closes' = closes /\ life' = life
    BY <1>5 DEF HandleSync, HandleCnxn, Output, Input, OutputStart, OutputPump,
           OutputFail, InputRead, InputFail, InputSweep
  <2> QED BY <1>1, <2>1
<1>6. ASSUME NEW t \in Transports, NEW a \in Agent, Leave(t, a) PROVE PairInvOf(u)'
  <2>1. CASE KickTest(t, a) \/ KickLock(t, a) \/ KickRun(t, a)
    <3>1. fd' = fd /\ owner' = owner /\ closes' = closes /\ life' = life
      BY <2>1 DEF KickTest, KickLock, KickRun, remote_kick
    <3> QED BY <1>1, <3>1
  <2>2. CASE Unref(t, a)
    <3>1. /\ fd' = fd /\ life' = life
          /\ \/ owner' = owner /\ closes' = closes
             \/ /\ closes' = [closes EXCEPT ![t] = @ + 1]
                /\ t \in Usb => owner' = owner
      BY <2>2 DEF Unref, remote_close
    <3>2. CASE owner' = owner /\ closes' = closes
      BY <1>1, <3>1, <3>2
    <3>3. CASE closes' = [closes EXCEPT ![t] = @ + 1] /\ (t \in Usb => owner' = owner)
      <4>1. closes'[u] = 0 => closes[u] = 0 /\ u # t
        BY <1>a, <3>3
      <4>2. CASE t \in Usb
        BY <1>b, <3>1, <3>3, <4>1, <4>2, PairKept
      <4>3. CASE t \notin Usb
        <5>1. Transports \ NoPerm = {t}
          BY <4>3 DEF SocketAlone
        <5>2. CASE u \in NoPerm
          BY <5>2 DEF PairInvOf
        <5>3. CASE u \notin NoPerm
          <6>1. u = t
            BY <5>1, <5>3
          <6>2. u \notin Usb /\ closes'[u] # 0
            BY <4>1, <4>3, <6>1
          <6> QED BY <6>2 DEF PairInvOf
        <5> QED BY <5>2, <5>3
      <4> QED BY <4>2, <4>3
    <3> QED BY <3>1, <3>2, <3>3
  <2> QED BY <1>6, <2>1, <2>2 DEF Leave
<1>7. ASSUME NEW t \in Transports,
             Unregister(t) \/ unregister_usb_transport(t) \/ LinkDown(t)
      PROVE  PairInvOf(u)'
  <2>1. fd' = fd /\ owner' = owner /\ closes' = closes /\ life' = life
    BY <1>7 DEF Unregister, unregister_usb_transport, LinkDown
  <2> QED BY <1>1, <2>1
<1>8. CASE UNCHANGED vars
    BY <1>1, <1>8 DEF vars
<1> QED
    BY <1>2, <1>3, <1>4, <1>5, <1>6, <1>7, <1>8 DEF Next, Main

\* The output thread has left its pump.
Over(x) == x \notin {"none", "start", "pump"}

\* The last word to a thread.
Quits(p) == p.cmd = "SYNC" /\ p.arg0 = 0

\* The main thread has sent the last word to the input thread.
Stopped(t) ==
    \/ pc[t]["input"] \notin {"none", "read"}
    \/ \E i \in DOMAIN toIn[t] : toIn[t][i] = Sync(0, 0)

\* The last word of the output thread is the last packet it sends, and the
\* main thread gives it to the input thread.  After that it has heard
\* everything and the transport is offline.
TalkInvOf(t) ==
    /\ pc[t]["input"] = "none" => toMain[t] = <<>> /\ toIn[t] = <<>> /\ ~online[t]
    /\ \A i \in DOMAIN toMain[t] :
          Quits(toMain[t][i]) => /\ toMain[t][i] = Sync(0, 0) /\ i = Len(toMain[t])
                                 /\ Over(pc[t]["output"])
    /\ \A i \in DOMAIN toIn[t] : Quits(toIn[t][i]) => toIn[t][i] = Sync(0, 0)
    /\ Stopped(t) => toMain[t] = <<>> /\ ~online[t] /\ Over(pc[t]["output"])

TalkInv == \A t \in Transports : TalkInvOf(t)

\* A step that leaves the packets of u and its threads alone.
LEMMA TalkKept ==
    ASSUME NEW u \in Transports, TalkInvOf(u), pc'[u] = pc[u], toMain'[u] = toMain[u],
           toIn'[u] = toIn[u], online'[u] = online[u]
    PROVE  TalkInvOf(u)'
    BY DEF TalkInvOf, Stopped

\* A thread that goes on to leave.
LEMMA TalkLeaves ==
    ASSUME NEW u \in Transports, TalkInvOf(u), toMain'[u] = toMain[u],
           toIn'[u] = toIn[u], online'[u] = online[u],
           Over(pc[u]["output"]) => Over(pc'[u]["output"]),
           \/ pc'[u]["input"] = pc[u]["input"]
           \/ pc[u]["input"] \notin {"none", "read"} /\ pc'[u]["input"] \notin {"none", "read"}
    PROVE  TalkInvOf(u)'
    BY DEF TalkInvOf, Stopped

\* The packet a thread takes.
LEMMA FirstPacket ==
    ASSUME NEW q \in Seq(Packet), q # <<>>
    PROVE  /\ Head(q) \in Packet /\ 1 \in DOMAIN q /\ q[1] = Head(q)
           /\ Len(Tail(q)) = Len(q) - 1 /\ Len(q) \in Nat \ {0} /\ Tail(q) \in Seq(Packet)
           /\ \A i \in DOMAIN Tail(q) : /\ i \in Nat \ {0} /\ i + 1 \in DOMAIN q
                                        /\ Tail(q)[i] = q[i + 1]
           /\ \A i \in DOMAIN q : i # 1 => i - 1 \in DOMAIN Tail(q) /\ Tail(q)[i - 1] = q[i]
<1>1. \A i \in DOMAIN Tail(q) : i + 1 \in DOMAIN q /\ Tail(q)[i] = q[i + 1]
    BY TailIndex
<1>2. DOMAIN q = 1..Len(q) /\ Len(q) \in Nat \ {0} /\ Len(Tail(q)) = Len(q) - 1
      /\ DOMAIN Tail(q) = 1..(Len(q) - 1) /\ Head(q) = q[1] /\ Head(q) \in Packet
      /\ Tail(q) \in Seq(Packet)
    OBVIOUS
<1>3. ASSUME NEW i \in DOMAIN q, i # 1 PROVE i - 1 \in DOMAIN Tail(q) /\ Tail(q)[i - 1] = q[i]
  <2>1. i - 1 \in DOMAIN Tail(q) /\ (i - 1) + 1 = i
    BY <1>2, <1>3
  <2> QED BY <1>1, <2>1
<1> QED
    BY <1>1, <1>2, <1>3

\* The echo and CNXN behind what the input thread still has to read.
LEMMA EchoIndex ==
    ASSUME NEW q \in Seq(Packet), NEW a \in Packet, NEW b \in Packet
    PROVE  /\ q \o <<a, b>> \in Seq(Packet)
           /\ \A i \in DOMAIN (q \o <<a, b>>) :
                 \/ i \in DOMAIN q /\ (q \o <<a, b>>)[i] = q[i]
                 \/ (q \o <<a, b>>)[i] \in {a, b}
    OBVIOUS

\* Every step keeps what the threads have said to each other in order.
LEMMA TalkStep ==
    ASSUME Before, PairInv, TalkInv, Disconnect = {}, [Next]_vars
    PROVE  TalkInv'
<1> SUFFICES ASSUME NEW u \in Transports PROVE TalkInvOf(u)'
    BY DEF TalkInv
<1> USE DEF lists, device, pairs, session
<1>a. /\ TypeOK /\ life \in [Transports -> Life] /\ pc \in [Transports -> [Agent -> Where]]
      /\ toMain \in [Transports -> Seq(Packet)] /\ toIn \in [Transports -> Seq(Packet)]
      /\ online \in [Transports -> BOOLEAN] /\ sync_token \in [Transports -> Nat]
    BY DEF Before, TypeOK
<1>b. TalkInvOf(u)
    BY DEF TalkInv
<1>c. toMain[u] \in Seq(Packet) /\ toIn[u] \in Seq(Packet)
    BY <1>a
<1>1. ASSUME pc' = pc, toMain' = toMain, toIn' = toIn, online' = online PROVE TalkInvOf(u)'
    BY <1>b, <1>1, TalkKept
<1>2. ASSUME NEW t \in Transports,
             Find(t) \/ Unregister(t) \/ unregister_usb_transport(t) \/ LinkDown(t)
      PROVE TalkInvOf(u)'
  <2>1. pc' = pc /\ toMain' = toMain /\ toIn' = toIn /\ online' = online
    BY <1>2 DEF Find, init_socket_transport, register_socket_transport,
                register_usb_transport, Unregister, unregister_usb_transport, LinkDown
  <2> QED BY <1>1, <2>1
<1>3. ASSUME NEW t \in Transports, MainRegister(t) PROVE TalkInvOf(u)'
  <2>1. /\ toMain' = toMain /\ toIn' = toIn /\ online' = online
        /\ \/ pc' = pc
           \/ pc' = [pc EXCEPT ![t]["output"] = "start", ![t]["input"] = "read"]
        /\ life' = [life EXCEPT ![t] = "running"]
        /\ reg # <<>> /\ Head(reg) = <<1, t>> /\ reg' = Tail(reg)
    BY <1>3 DEF MainRegister
  <2>2. CASE pc' = pc
    BY <1>1, <2>1, <2>2
  <2>3. CASE u # t
    <3>1. pc'[u] = pc[u]
      BY <1>a, <2>1, <2>3
    <3> QED BY <1>b, <2>1, <3>1, TalkKept
  <2>4. CASE u = t /\ pc' = [pc EXCEPT ![t]["output"] = "start", ![t]["input"] = "read"]
    <3>1. life[t] = "pending"
      BY <1>a, <2>1, RegisterTail DEF Before
    <3>2. pc[t]["input"] = "none"
      BY <3>1 DEF Before, RefInv, RefInvOf
    <3>3. toMain[t] = <<>> /\ toIn[t] = <<>> /\ ~online[t]
      BY <1>b, <2>4, <3>2 DEF TalkInvOf
    <3>4. pc'[t]["input"] = "read"
      BY <1>a, <2>4 DEF Agent
    <3>5. toMain'[t] = <<>> /\ toIn'[t] = <<>>
      BY <2>1, <3>3
    <3>6. ~ Stopped(t)'
      BY <3>4, <3>5 DEF Stopped
    <3>7. DOMAIN toMain'[t] = {} /\ DOMAIN toIn'[t] = {}
      BY <3>5
    <3> QED BY <2>4, <3>4, <3>6, <3>7 DEF TalkInvOf
  <2> QED BY <2>1, <2>2, <2>3, <2>4
<1>4. ASSUME NEW t \in Transports, MainRemove(t) PROVE TalkInvOf(u)'
  <2>1. /\ online' = online /\ pc' = pc
        /\ toMain' = [toMain EXCEPT ![t] = <<>>] /\ toIn' = [toIn EXCEPT ![t] = <<>>]
    BY <1>4 DEF MainRemove
  <2>2. CASE u = t
    <3>1. toMain'[u] = <<>> /\ toIn'[u] = <<>>
      BY <1>a, <2>1, <2>2
    <3> QED BY <1>b, <2>1, <3>1 DEF TalkInvOf, Stopped
  <2>3. CASE u # t
    <3>1. toMain'[u] = toMain[u] /\ toIn'[u] = toIn[u]
      BY <1>a, <2>1, <2>3
    <3> QED BY <1>b, <2>1, <3>1, TalkKept
  <2> QED BY <2>2, <2>3
<1>5. ASSUME NEW t \in Transports, HandleSync(t) PROVE TalkInvOf(u)'
  <2> DEFINE m == toMain[t]
             q == toIn[t]
             p == Head(m)
  <2>1. /\ m # <<>> /\ p.cmd = "SYNC" /\ pc' = pc
        /\ toMain' = [toMain EXCEPT ![t] = Tail(m)]
        /\ \/ /\ p.arg0 = 1 /\ toIn' = [toIn EXCEPT ![t] = q \o <<p, Cnxn>>]
              /\ online' = online
           \/ /\ p.arg0 = 0 /\ toIn' = [toIn EXCEPT ![t] = Append(q, p)]
              /\ online' = [online EXCEPT ![t] = FALSE]
    BY <1>5 DEF HandleSync, EchoAndConnect
  <2>2. CASE u # t
    <3>1. toMain'[u] = toMain[u] /\ toIn'[u] = toIn[u] /\ online'[u] = online[u]
      BY <1>a, <2>1, <2>2
    <3> QED BY <1>b, <2>1, <3>1, TalkKept
  <2>3. CASE u = t
    <3>1. toMain'[t] = Tail(m) /\ m \in Seq(Packet) /\ q \in Seq(Packet)
      BY <1>a, <2>1
    <3>2. TalkInvOf(t)
      BY <1>b, <2>3
    <3>3. ~ Stopped(t) /\ pc[t]["input"] # "none"
      BY <2>1, <3>2 DEF TalkInvOf
    <3> HIDE DEF m, q, p
    <3>4. /\ p \in Packet /\ 1 \in DOMAIN m /\ m[1] = p
          /\ Len(Tail(m)) = Len(m) - 1 /\ Len(m) \in Nat \ {0} /\ Tail(m) \in Seq(Packet)
          /\ \A i \in DOMAIN Tail(m) : /\ i \in Nat \ {0} /\ i + 1 \in DOMAIN m
                                       /\ Tail(m)[i] = m[i + 1]
      BY <2>1, <3>1, FirstPacket DEF p
    <3>5. /\ \A i \in DOMAIN m :
                Quits(m[i]) => m[i] = Sync(0, 0) /\ i = Len(m) /\ Over(pc[t]["output"])
          /\ \A i \in DOMAIN q : Quits(q[i]) => q[i] = Sync(0, 0)
          /\ \A i \in DOMAIN q : q[i] # Sync(0, 0)
      BY <3>2, <3>3 DEF TalkInvOf, Stopped, m, q
    <3>6. ASSUME NEW i \in DOMAIN Tail(m), Quits(Tail(m)[i])
          PROVE  Tail(m)[i] = Sync(0, 0) /\ i = Len(Tail(m)) /\ Over(pc[t]["output"])
      <4>1. i + 1 \in DOMAIN m /\ Tail(m)[i] = m[i + 1] /\ i \in Nat
        BY <3>4
      <4>2. m[i + 1] = Sync(0, 0) /\ i + 1 = Len(m) /\ Over(pc[t]["output"])
        BY <3>5, <3>6, <4>1
      <4> QED BY <3>4, <4>1, <4>2
    <3>7. CASE p.arg0 = 1
      <4>1. toIn'[t] = q \o <<p, Cnxn>> /\ online' = online
        BY <1>a, <2>1, <3>7, SMTT(60) DEF q
      <4>2. Cnxn \in Packet /\ ~ Quits(Cnxn) /\ ~ Quits(p)
        BY <3>7 DEF Cnxn, Packet, Quits
      <4>3. \A i \in DOMAIN toIn'[t] :
              \/ i \in DOMAIN q /\ toIn'[t][i] = q[i]
              \/ toIn'[t][i] \in {p, Cnxn}
        BY <3>1, <3>4, <4>1, <4>2, EchoIndex
      <4>4. Quits(Sync(0, 0))
        BY DEF Quits, Sync
      <4>5. \A i \in DOMAIN toIn'[t] : ~ Quits(toIn'[t][i]) /\ toIn'[t][i] # Sync(0, 0)
        BY <3>5, <4>2, <4>3, <4>4
      <4>6. ~ Stopped(t)'
        BY <2>1, <3>3, <4>5 DEF Stopped
      <4> QED BY <2>1, <2>3, <3>1, <3>3, <3>6, <4>5, <4>6 DEF TalkInvOf
    <3>8. CASE p.arg0 = 0
      <4>1. toIn'[t] = Append(q, p) /\ ~ online'[t]
        BY <1>a, <2>1, <3>8 DEF q
      <4>2. Quits(p)
        BY <2>1, <3>8 DEF Quits
      <4>3. p = Sync(0, 0) /\ Len(m) = 1 /\ Over(pc[t]["output"])
        BY <3>4, <3>5, <4>2
      <4>4. Tail(m) = <<>>
        BY <3>4, <4>3
      <4>5. \A i \in DOMAIN toIn'[t] : (i \in DOMAIN q /\ toIn'[t][i] = q[i]) \/ toIn'[t][i] = p
        BY <3>1, <3>4, <4>1, AppendIndex
      <4>6. \A i \in DOMAIN toIn'[t] : Quits(toIn'[t][i]) => toIn'[t][i] = Sync(0, 0)
        BY <3>5, <4>3, <4>5
      <4> QED BY <2>1, <2>3, <3>1, <3>3, <4>1, <4>3, <4>4, <4>6 DEF TalkInvOf
    <3> QED BY <2>1, <3>7, <3>8
  <2> QED BY <2>2, <2>3
<1>6. ASSUME NEW t \in Transports, HandleCnxn(t) PROVE TalkInvOf(u)'
  <2> DEFINE m == toMain[t]
  <2>1. /\ m # <<>> /\ pc' = pc /\ toMain' = [toMain EXCEPT ![t] = Tail(m)]
        /\ toIn' = toIn /\ online' = [online EXCEPT ![t] = TRUE]
    BY <1>6 DEF HandleCnxn
  <2>2. CASE u # t
    <3>1. toMain'[u] = toMain[u] /\ online'[u] = online[u]
      BY <1>a, <2>1, <2>2
    <3> QED BY <1>b, <2>1, <3>1, TalkKept
  <2>3. CASE u = t
    <3>1. toMain'[t] = Tail(m) /\ m \in Seq(Packet)
      BY <1>a, <2>1
    <3>2. TalkInvOf(t)
      BY <1>b, <2>3
    <3>3. ~ Stopped(t) /\ pc[t]["input"] # "none"
      BY <2>1, <3>2 DEF TalkInvOf
    <3> HIDE DEF m
    <3>4. /\ Len(Tail(m)) = Len(m) - 1 /\ Len(m) \in Nat \ {0}
          /\ \A i \in DOMAIN Tail(m) : /\ i \in Nat \ {0} /\ i + 1 \in DOMAIN m
                                       /\ Tail(m)[i] = m[i + 1]
      BY <2>1, <3>1, FirstPacket
    <3>5. \A i \in DOMAIN m :
            Quits(m[i]) => m[i] = Sync(0, 0) /\ i = Len(m) /\ Over(pc[t]["output"])
      BY <3>2 DEF TalkInvOf, m
    <3>6. ASSUME NEW i \in DOMAIN Tail(m), Quits(Tail(m)[i])
          PROVE  Tail(m)[i] = Sync(0, 0) /\ i = Len(Tail(m)) /\ Over(pc[t]["output"])
      <4>1. i + 1 \in DOMAIN m /\ Tail(m)[i] = m[i + 1] /\ i \in Nat
        BY <3>4
      <4>2. m[i + 1] = Sync(0, 0) /\ i + 1 = Len(m) /\ Over(pc[t]["output"])
        BY <3>5, <3>6, <4>1
      <4> QED BY <3>4, <4>1, <4>2
    <3>7. ~ Stopped(t)'
      BY <2>1, <3>3 DEF Stopped
    <3>8. \A i \in DOMAIN toIn'[t] : Quits(toIn'[t][i]) => toIn'[t][i] = Sync(0, 0)
      BY <2>1, <3>2 DEF TalkInvOf
    <3> QED BY <2>1, <2>3, <3>1, <3>3, <3>6, <3>7, <3>8 DEF TalkInvOf
  <2> QED BY <2>2, <2>3
<1>7. ASSUME NEW t \in Transports, Output(t) PROVE TalkInvOf(u)'
  <2> DEFINE m == toMain[t]
             y == pc[t]["output"]
  <2>1. /\ y \in {"start", "pump"} /\ toIn' = toIn /\ online' = online
        /\ \/ /\ toMain' = toMain
              /\ pc' = pc \/ pc' = [pc EXCEPT ![t]["output"] = "kick"]
           \/ /\ \E n \in Nat : toMain' = [toMain EXCEPT ![t] = Append(m, Sync(1, n))]
              /\ pc' = [pc EXCEPT ![t]["output"] = "pump"]
           \/ /\ toMain' = [toMain EXCEPT ![t] = Append(m, Cnxn)]
              /\ pc' = pc
           \/ /\ toMain' = [toMain EXCEPT ![t] = Append(m, Sync(0, 0))]
              /\ pc' = [pc EXCEPT ![t]["output"] = "kick"]
    <3>1. CASE OutputStart(t)
      <4>1. sync_token'[t] \in Nat
        BY <1>a, <3>1 DEF OutputStart
      <4> QED BY <3>1, <4>1 DEF OutputStart
    <3>2. CASE OutputPump(t)
      BY <3>2 DEF OutputPump
    <3>3. CASE OutputFail(t)
      <4>1. toMain' = [toMain EXCEPT ![t] = IF PairOpen(t) THEN Append(m, Sync(0, 0)) ELSE m]
        BY <3>3 DEF OutputFail, LastWord
      <4>2. toMain = [toMain EXCEPT ![t] = m]
        BY <1>a
      <4>3. toMain' = toMain \/ toMain' = [toMain EXCEPT ![t] = Append(m, Sync(0, 0))]
        BY <4>1, <4>2
      <4> QED BY <3>3, <4>3 DEF OutputFail
    <3> QED BY <1>7, <3>1, <3>2, <3>3 DEF Output
  <2>2. CASE u # t
    <3>1. toMain'[u] = toMain[u] /\ pc'[u] = pc[u]
      BY <1>a, <2>1, <2>2
    <3> QED BY <1>b, <2>1, <3>1, TalkKept
  <2>3. CASE u = t
    <3>1. TalkInvOf(t) /\ m \in Seq(Packet) /\ ~ Over(y)
      BY <1>b, <1>c, <2>1, <2>3 DEF Over
    <3>2. ~ Stopped(t) /\ \A i \in DOMAIN m : ~ Quits(m[i])
      BY <3>1 DEF TalkInvOf
    <3>3. pc'[t]["input"] = pc[t]["input"]
      BY <1>a, <2>1 DEF Agent
    <3>4. pc[t]["input"] # "none"
      BY <2>1 DEF Before, RefInv, RefInvOf, NotStarted
    <3>5. ~ Stopped(t)'
      BY <2>1, <3>2, <3>3 DEF Stopped
    <3>6. \A i \in DOMAIN toIn'[t] : Quits(toIn'[t][i]) => toIn'[t][i] = Sync(0, 0)
      BY <2>1, <3>1 DEF TalkInvOf
    <3> SUFFICES ASSUME NEW i \in DOMAIN toMain'[t], Quits(toMain'[t][i])
                 PROVE  /\ toMain'[t][i] = Sync(0, 0) /\ i = Len(toMain'[t])
                        /\ Over(pc'[t]["output"])
      BY <2>3, <3>3, <3>4, <3>5, <3>6 DEF TalkInvOf
    <3>7. PICK x \in Packet :
            /\ toMain'[t] = m \/ toMain'[t] = Append(m, x)
            /\ \/ ~ Quits(x)
               \/ /\ x = Sync(0, 0) /\ pc' = [pc EXCEPT ![t]["output"] = "kick"]
      <4>1. ASSUME NEW n \in Nat PROVE Sync(1, n) \in Packet /\ ~ Quits(Sync(1, n))
        BY DEF Sync, Packet, Quits
      <4>2. Cnxn \in Packet /\ ~ Quits(Cnxn)
        BY DEF Cnxn, Packet, Quits
      <4>3. Sync(0, 0) \in Packet
        BY DEF Sync, Packet
      <4>4. CASE toMain' = toMain
        BY <4>2, <4>4
      <4>5. CASE \E n \in Nat : toMain' = [toMain EXCEPT ![t] = Append(m, Sync(1, n))]
        <5>1. PICK n \in Nat : toMain' = [toMain EXCEPT ![t] = Append(m, Sync(1, n))]
          BY <4>5
        <5>2. toMain'[t] = Append(m, Sync(1, n))
          BY <1>a, <5>1
        <5> QED BY <4>1, <5>2
      <4>6. CASE toMain' = [toMain EXCEPT ![t] = Append(m, Cnxn)]
        <5>1. toMain'[t] = Append(m, Cnxn)
          BY <1>a, <4>6
        <5> QED BY <4>2, <5>1
      <4>7. CASE /\ toMain' = [toMain EXCEPT ![t] = Append(m, Sync(0, 0))]
                 /\ pc' = [pc EXCEPT ![t]["output"] = "kick"]
        <5>1. toMain'[t] = Append(m, Sync(0, 0))
          BY <1>a, <4>7
        <5> QED BY <4>3, <4>7, <5>1
      <4> QED BY <2>1, <4>4, <4>5, <4>6, <4>7
    <3> HIDE DEF m
    <3>8. toMain'[t] = Append(m, x) /\ i = Len(m) + 1 /\ toMain'[t][i] = x
      <4>1. CASE toMain'[t] = m
        BY <3>2, <4>1
      <4>2. CASE toMain'[t] = Append(m, x)
        BY <3>1, <3>2, <4>2, AppendIndex
      <4> QED BY <3>7, <4>1, <4>2
    <3>9. x = Sync(0, 0) /\ pc' = [pc EXCEPT ![t]["output"] = "kick"]
      BY <3>7, <3>8
    <3>10. Over(pc'[t]["output"])
      BY <1>a, <3>9 DEF Over, Agent
    <3> QED BY <3>1, <3>8, <3>9, <3>10
  <2> QED BY <2>2, <2>3
<1>8. ASSUME NEW t \in Transports, InputRead(t) PROVE TalkInvOf(u)'
  <2> DEFINE q == toIn[t]
             p == Head(q)
  <2>1. /\ q # <<>> /\ toMain' = toMain /\ online' = online /\ pc[t]["input"] = "read"
        /\ toIn' = [toIn EXCEPT ![t] = Tail(q)]
        /\ IF Quits(p) THEN pc' = [pc EXCEPT ![t]["input"] = "sweep"] ELSE pc' = pc
    BY <1>8 DEF InputRead, Quits
  <2>2. CASE u # t
    <3>1. toIn'[u] = toIn[u] /\ pc'[u] = pc[u]
      BY <1>a, <2>1, <2>2
    <3> QED BY <1>b, <2>1, <3>1, TalkKept
  <2>3. CASE u = t
    <3>1. TalkInvOf(t) /\ q \in Seq(Packet) /\ toIn'[t] = Tail(q)
      BY <1>a, <1>b, <1>c, <2>1, <2>3
    <3>2. /\ pc'[t]["output"] = pc[t]["output"] /\ pc'[t]["input"] # "none"
          /\ ~ Quits(p) => pc'[t]["input"] = "read"
      BY <1>a, <2>1 DEF Agent
    <3>3. \A i \in DOMAIN q : Quits(q[i]) => q[i] = Sync(0, 0)
      BY <3>1 DEF TalkInvOf
    <3> HIDE DEF q, p
    <3>4. /\ 1 \in DOMAIN q /\ q[1] = p
          /\ \A i \in DOMAIN Tail(q) : i + 1 \in DOMAIN q /\ Tail(q)[i] = q[i + 1]
      BY <2>1, <3>1, FirstPacket DEF p
    <3>5. \A i \in DOMAIN toIn'[t] : Quits(toIn'[t][i]) => toIn'[t][i] = Sync(0, 0)
      BY <3>1, <3>3, <3>4
    <3>6. Stopped(t)' => Stopped(t)
      <4>1. CASE Quits(p)
        BY <3>3, <3>4, <4>1 DEF Stopped, q
      <4>2. CASE ~ Quits(p)
        BY <3>1, <3>2, <3>4, <4>2 DEF Stopped, q
      <4> QED BY <4>1, <4>2
    <3>7. /\ \A i \in DOMAIN toMain[t] :
                Quits(toMain[t][i]) => /\ toMain[t][i] = Sync(0, 0) /\ i = Len(toMain[t])
                                       /\ Over(pc[t]["output"])
          /\ Stopped(t) => toMain[t] = <<>> /\ ~online[t] /\ Over(pc[t]["output"])
      BY <3>1 DEF TalkInvOf
    <3> QED BY <2>1, <2>3, <3>2, <3>5, <3>6, <3>7 DEF TalkInvOf
  <2> QED BY <2>2, <2>3
<1>9. ASSUME NEW t \in Transports, InputFail(t) \/ InputSweep(t) PROVE TalkInvOf(u)'
  <2>1. ~ InputFail(t)
    <3> SUFFICES ASSUME InputFail(t) PROVE FALSE
      OBVIOUS
    <3>1. life[t] = "running" /\ pc[t]["input"] = "read" /\ ~ PairOpen(t)
      BY DEF InputFail, Alive
    <3>2. closes[t] = 0
      <4>1. ~ (closes[t] > 0) /\ closes[t] \in Nat
        BY <3>1 DEF Before, RefInv, RefInvOf, ThreadsExited, TypeOK
      <4> QED BY <4>1
    <3>3. t \notin NoPerm
      BY <3>1 DEF Before, OnceInv, OnceInvOf, Agent
    <3> QED BY <3>1, <3>2, <3>3 DEF PairInv, PairInvOf
  <2>2. /\ toMain' = toMain /\ toIn' = toIn /\ online' = online
        /\ pc[t]["input"] = "sweep" /\ pc' = [pc EXCEPT ![t]["input"] = "kick"]
    BY <1>9, <2>1 DEF InputSweep
  <2>3. /\ pc'[u]["output"] = pc[u]["output"]
        /\ \/ pc'[u]["input"] = pc[u]["input"]
           \/ pc[u]["input"] \notin {"none", "read"} /\ pc'[u]["input"] \notin {"none", "read"}
    BY <1>a, <2>2 DEF Agent
  <2> QED BY <1>b, <2>2, <2>3, TalkLeaves
<1>10. ASSUME NEW t \in Transports, NEW a \in Agent, Leave(t, a) PROVE TalkInvOf(u)'
  <2>1. toMain' = toMain /\ toIn' = toIn /\ online' = online
    BY <1>10 DEF Leave, KickTest, KickLock, KickRun, Unref
  <2>2. /\ pc[t][a] \in {"kick", "lock", "kicking", "unref"}
        /\ \E w \in {"lock", "kicking", "unref", "none", "done"} :
              pc' = [pc EXCEPT ![t][a] = w] /\ (a # "main" => w # "none")
    BY <1>10 DEF Leave, KickTest, KickLock, KickRun, Unref, Goto
  <2>3. PICK w \in {"lock", "kicking", "unref", "none", "done"} :
              pc' = [pc EXCEPT ![t][a] = w] /\ (a # "main" => w # "none")
    BY <2>2
  <2>4. /\ Over(pc[u]["output"]) => Over(pc'[u]["output"])
        /\ \/ pc'[u]["input"] = pc[u]["input"]
           \/ pc[u]["input"] \notin {"none", "read"} /\ pc'[u]["input"] \notin {"none", "read"}
    BY <1>a, <2>2, <2>3 DEF Agent, Over
  <2> QED BY <1>b, <2>1, <2>4, TalkLeaves
<1>11. CASE UNCHANGED vars
    BY <1>1, <1>11 DEF vars
<1> QED
    BY <1>2, <1>3, <1>4, <1>5, <1>6, <1>7, <1>8, <1>9, <1>10, <1>11 DEF Next, Main, Input

\* A step that leaves the phase of u alone.
LEMMA PhaseKept ==
    ASSUME NEW u \in Transports, life'[u] = life[u], pc'[u]["input"] = pc[u]["input"],
           online'[u] = online[u], toIn'[u] = toIn[u]
    PROVE  PhaseOf(u)' = PhaseOf(u)
    BY DEF PhaseOf

\* The phase of a transport whose threads run.
LEMMA PhaseRunning ==
    ASSUME NEW t \in Transports, life[t] = "running", TalkInvOf(t)
    PROVE  /\ pc[t]["input"] \notin {"none", "read", "sweep"} => PhaseOf(t) = "swept"
           /\ pc[t]["input"] = "sweep" => PhaseOf(t) = "offline"
           /\ pc[t]["input"] \in {"none", "read"} /\ Stopped(t) => PhaseOf(t) = "offline"
           /\ ~ Stopped(t) /\ online[t] => PhaseOf(t) = "online"
           /\ ~ Stopped(t) /\ ~ online[t] => PhaseOf(t) = "starting"
<1>1. Stopped(t) => ~ online[t]
    BY DEF TalkInvOf
<1>2. CASE Stopped(t)
    BY <1>1, <1>2 DEF PhaseOf, Stopped
<1>3. CASE ~ Stopped(t)
    BY <1>3 DEF PhaseOf, Stopped
<1> QED
    BY <1>2, <1>3

\* A step of the threads is a step of one phase, or of none.
LEMMA PhaseStep ==
    ASSUME Before, FreeInv, PairInv, TalkInv, TalkInv', Disconnect = {}, [Next]_vars
    PROVE  [L!Next]_[t \in Transports |-> PhaseOf(t)]
<1> DEFINE ph == [t \in Transports |-> PhaseOf(t)]
<1> USE DEF lists, device, pairs, session
<1>a. /\ TypeOK /\ life \in [Transports -> Life] /\ pc \in [Transports -> [Agent -> Where]]
      /\ toMain \in [Transports -> Seq(Packet)] /\ toIn \in [Transports -> Seq(Packet)]
      /\ online \in [Transports -> BOOLEAN]
    BY DEF Before, TypeOK
<1>b. \A t \in Transports : TalkInvOf(t) /\ TalkInvOf(t)'
    BY DEF TalkInv
<1>1. ASSUME \A t \in Transports : PhaseOf(t)' = PhaseOf(t) PROVE [L!Next]_ph
    BY <1>1
<1>2. ASSUME NEW t \in Transports,
             \A u \in Transports \ {t} : PhaseOf(u)' = PhaseOf(u),
             \/ PhaseOf(t)' = PhaseOf(t)
             \/ PhaseOf(t) = "absent" /\ PhaseOf(t)' = "starting"
             \/ PhaseOf(t) = "starting" /\ PhaseOf(t)' = "online"
             \/ PhaseOf(t) \in {"starting", "online"} /\ PhaseOf(t)' = "offline"
             \/ PhaseOf(t) = "offline" /\ PhaseOf(t)' = "swept"
             \/ PhaseOf(t) = "swept" /\ PhaseOf(t)' = "freed"
      PROVE  [L!Next]_ph
  <2>1. CASE PhaseOf(t)' = PhaseOf(t)
    BY <1>1, <1>2, <2>1
  <2>2. ph[t] = PhaseOf(t) /\ ph' = [ph EXCEPT ![t] = PhaseOf(t)']
    BY <1>2
  <2>3. CASE PhaseOf(t) = "absent" /\ PhaseOf(t)' = "starting"
    <3>1. L!Start(t)
      BY <2>2, <2>3 DEF L!Start, L!Becomes
    <3> QED BY <3>1 DEF L!Next
  <2>4. CASE PhaseOf(t) = "starting" /\ PhaseOf(t)' = "online"
    <3>1. L!Online(t)
      BY <2>2, <2>4 DEF L!Online, L!Becomes
    <3> QED BY <3>1 DEF L!Next
  <2>5. CASE PhaseOf(t) \in {"starting", "online"} /\ PhaseOf(t)' = "offline"
    <3>1. L!Offline(t)
      BY <2>2, <2>5 DEF L!Offline, L!Becomes
    <3> QED BY <3>1 DEF L!Next
  <2>6. CASE PhaseOf(t) = "offline" /\ PhaseOf(t)' = "swept"
    <3>1. L!Sweep(t)
      BY <2>2, <2>6 DEF L!Sweep, L!Becomes
    <3> QED BY <3>1 DEF L!Next
  <2>7. CASE PhaseOf(t) = "swept" /\ PhaseOf(t)' = "freed"
    <3>1. L!Free(t)
      BY <2>2, <2>7 DEF L!Free, L!Becomes
    <3> QED BY <3>1 DEF L!Next
  <2> QED BY <1>2, <2>1, <2>3, <2>4, <2>5, <2>6, <2>7
<1> SUFFICES [L!Next]_ph
    BY DEF ph
<1> HIDE DEF ph
<1>3. ASSUME NEW t \in Transports, Find(t) PROVE [L!Next]_ph
  <2>1. /\ pc' = pc /\ toIn' = toIn /\ online' = online
        /\ life[t] \in {"unborn", "init"}
        /\ \E w \in Life \ {"freed", "running"} : life' = [life EXCEPT ![t] = w]
    BY <1>3 DEF Find, init_socket_transport, register_socket_transport,
                register_usb_transport, Life
  <2>2. life'[t] \notin {"freed", "running"} /\ \A u \in Transports \ {t} : life'[u] = life[u]
    BY <1>a, <2>1
  <2>3. PhaseOf(t) = "absent" /\ PhaseOf(t)' = "absent"
    BY <2>1, <2>2 DEF PhaseOf
  <2>4. \A u \in Transports \ {t} : PhaseOf(u)' = PhaseOf(u)
    BY <2>1, <2>2, PhaseKept
  <2> QED BY <1>2, <2>3, <2>4
<1>4. ASSUME NEW t \in Transports, MainRegister(t) PROVE [L!Next]_ph
  <2>1. /\ toIn' = toIn /\ online' = online
        /\ \/ pc' = pc
           \/ pc' = [pc EXCEPT ![t]["output"] = "start", ![t]["input"] = "read"]
        /\ life' = [life EXCEPT ![t] = "running"]
        /\ reg # <<>> /\ Head(reg) = <<1, t>> /\ reg' = Tail(reg)
    BY <1>4 DEF MainRegister
  <2>2. life[t] = "pending"
    BY <1>a, <2>1, RegisterTail DEF Before
  <2>3. pc[t]["input"] = "none"
    BY <2>2 DEF Before, RefInv, RefInvOf
  <2>4. toIn[t] = <<>> /\ ~online[t]
    BY <1>b, <2>3 DEF TalkInvOf
  <2>5. life'[t] = "running" /\ pc'[t]["input"] \in {"none", "read"}
    BY <1>a, <2>1, <2>3 DEF Agent
  <2>6. ~ Stopped(t)' /\ ~ online'[t]
    BY <2>1, <2>4, <2>5 DEF Stopped
  <2>7. PhaseOf(t) = "absent"
    BY <2>2 DEF PhaseOf
  <2>8. PhaseOf(t)' = "starting"
    BY <2>5, <2>6 DEF PhaseOf, Stopped
  <2>9. ASSUME NEW u \in Transports \ {t} PROVE PhaseOf(u)' = PhaseOf(u)
    <3>1. life'[u] = life[u] /\ pc'[u] = pc[u]
      BY <1>a, <2>1
    <3> QED BY <2>1, <3>1, PhaseKept
  <2> QED BY <1>2, <2>7, <2>8, <2>9
<1>5. ASSUME NEW t \in Transports, MainRemove(t) PROVE [L!Next]_ph
  <2>1. /\ online' = online /\ pc' = pc /\ life' = [life EXCEPT ![t] = "freed"]
        /\ toIn' = [toIn EXCEPT ![t] = <<>>] /\ reg # <<>> /\ Head(reg) = <<0, t>>
    BY <1>5 DEF MainRemove
  <2>2. 1 \in DOMAIN reg /\ reg[1] = <<0, t>>
    BY <1>a, <2>1, FirstMessage
  <2>3. life[t] = "running" /\ closes[t] > 0
    BY <2>2, FreeMeans
  <2>4. pc[t]["input"] = "done"
    BY <2>3 DEF Before, RefInv, RefInvOf, ThreadsExited
  <2>5. PhaseOf(t) = "swept"
    BY <2>3, <2>4 DEF PhaseOf
  <2>6. PhaseOf(t)' = "freed"
    BY <1>a, <2>1 DEF PhaseOf
  <2>7. ASSUME NEW u \in Transports \ {t} PROVE PhaseOf(u)' = PhaseOf(u)
    <3>1. life'[u] = life[u] /\ toIn'[u] = toIn[u]
      BY <1>a, <2>1
    <3> QED BY <2>1, <3>1, PhaseKept
  <2> QED BY <1>2, <2>5, <2>6, <2>7
<1>6. ASSUME NEW t \in Transports, HandleSync(t) PROVE [L!Next]_ph
  <2> DEFINE p == Head(toMain[t])
  <2>1. /\ life[t] = "running" /\ life' = life /\ pc' = pc /\ toMain[t] # <<>> /\ p.cmd = "SYNC"
        /\ \/ p.arg0 = 1 /\ online' = online
              /\ toIn' = [toIn EXCEPT ![t] = @ \o EchoAndConnect(p)]
           \/ p.arg0 = 0 /\ online' = [online EXCEPT ![t] = FALSE]
              /\ toIn' = [toIn EXCEPT ![t] = Append(@, p)]
    BY <1>6 DEF HandleSync, Alive
  <2>2. \A u \in Transports \ {t} : PhaseOf(u)' = PhaseOf(u)
    <3> SUFFICES ASSUME NEW u \in Transports \ {t} PROVE PhaseOf(u)' = PhaseOf(u)
      OBVIOUS
    <3>1. online'[u] = online[u] /\ toIn'[u] = toIn[u]
      BY <1>a, <2>1
    <3> QED BY <2>1, <3>1, PhaseKept
  <2>3. ~ Stopped(t) /\ pc[t]["input"] = "read"
    <3>1. ~ Stopped(t) /\ pc[t]["input"] # "none"
      BY <1>b, <2>1 DEF TalkInvOf
    <3> QED BY <3>1 DEF Stopped
  <2>4. PhaseOf(t) \in {"starting", "online"}
    BY <1>b, <2>1, <2>3, PhaseRunning
  <2>5. toMain[t] \in Seq(Packet) /\ toIn[t] \in Seq(Packet)
    BY <1>a
  <2>6. p \in Packet /\ 1 \in DOMAIN toMain[t] /\ toMain[t][1] = p
    BY <2>1, <2>5, FirstPacket
  <2>7. CASE p.arg0 = 1
    <3> DEFINE q == toIn[t]
    <3>1. toIn'[t] = q \o <<p, Cnxn>> /\ online' = online
      BY <1>a, <2>1, <2>7 DEF EchoAndConnect
    <3> HIDE DEF p
    <3>2. Cnxn \in Packet /\ Cnxn # Sync(0, 0) /\ p # Sync(0, 0)
      BY <2>7 DEF Cnxn, Packet, Sync
    <3>3. \A i \in DOMAIN q : q[i] # Sync(0, 0)
      BY <2>3 DEF Stopped
    <3> HIDE DEF q
    <3>4. \A i \in DOMAIN toIn'[t] :
              (i \in DOMAIN q /\ toIn'[t][i] = q[i]) \/ toIn'[t][i] \in {p, Cnxn}
      BY <2>5, <2>6, <3>1, <3>2, EchoIndex DEF q
    <3>5. \A i \in DOMAIN toIn'[t] : toIn'[t][i] # Sync(0, 0)
      BY <3>2, <3>3, <3>4
    <3>6. PhaseOf(t)' = PhaseOf(t)
      BY <2>1, <2>3, <3>1, <3>5 DEF PhaseOf, Stopped
    <3> QED BY <1>2, <2>2, <3>6
  <2>8. CASE p.arg0 = 0
    <3>1. toIn'[t] = Append(toIn[t], p) /\ ~ online'[t]
      BY <1>a, <2>1, <2>8
    <3>2. Quits(p)
      BY <2>1, <2>8 DEF Quits
    <3>3. p = Sync(0, 0)
      BY <1>b, <2>6, <3>2 DEF TalkInvOf
    <3> HIDE DEF p
    <3>4. Len(toIn[t]) + 1 \in DOMAIN toIn'[t] /\ toIn'[t][Len(toIn[t]) + 1] = p
      BY <2>5, <2>6, <3>1
    <3>5. PhaseOf(t)' = "offline"
      BY <2>1, <2>3, <3>1, <3>3, <3>4 DEF PhaseOf
    <3> QED BY <1>2, <2>2, <2>4, <3>5
  <2> QED BY <2>1, <2>7, <2>8
<1>7. ASSUME NEW t \in Transports, HandleCnxn(t) PROVE [L!Next]_ph
  <2>1. /\ life[t] = "running" /\ life' = life /\ pc' = pc /\ toIn' = toIn
        /\ toMain[t] # <<>> /\ online' = [online EXCEPT ![t] = TRUE]
    BY <1>7 DEF HandleCnxn, Alive
  <2>2. ~ Stopped(t)
    BY <1>b, <2>1 DEF TalkInvOf
  <2>3. PhaseOf(t) \in {"starting", "online"}
    BY <1>b, <2>1, <2>2, PhaseRunning
  <2>4. online'[t]
    BY <1>a, <2>1
  <2>5. PhaseOf(t)' = "online"
    BY <2>1, <2>2, <2>4 DEF PhaseOf, Stopped
  <2>6. ASSUME NEW u \in Transports \ {t} PROVE PhaseOf(u)' = PhaseOf(u)
    <3>1. online'[u] = online[u]
      BY <1>a, <2>1
    <3> QED BY <2>1, <3>1, PhaseKept
  <2> QED BY <1>2, <2>3, <2>5, <2>6
<1>8. ASSUME NEW t \in Transports, Output(t) PROVE [L!Next]_ph
  <2>1. /\ life' = life /\ online' = online /\ toIn' = toIn
        /\ pc' = pc \/ \E w \in Where : pc' = [pc EXCEPT ![t]["output"] = w]
    BY <1>8 DEF Output, OutputStart, OutputPump, OutputFail, Where
  <2>2. ASSUME NEW u \in Transports PROVE pc'[u]["input"] = pc[u]["input"]
    <3>1. CASE pc' = pc
      BY ONLY <3>1
    <3>2. ASSUME NEW w \in Where, pc' = [pc EXCEPT ![t]["output"] = w]
          PROVE  pc'[u]["input"] = pc[u]["input"]
      <4>1. pc \in [Transports -> [Agent -> Where]] /\ "input" \in Agent
        BY <1>a DEF Agent
      <4> QED BY ONLY <3>2, <4>1
    <3> QED BY <2>1, <3>1, <3>2
  <2> QED BY <1>1, <2>1, <2>2, PhaseKept
<1>9. ASSUME NEW t \in Transports, InputRead(t) PROVE [L!Next]_ph
  <2> DEFINE q == toIn[t]
             p == Head(q)
  <2>1. /\ life[t] = "running" /\ life' = life /\ q # <<>> /\ online' = online
        /\ pc[t]["input"] = "read" /\ toIn' = [toIn EXCEPT ![t] = Tail(q)]
        /\ IF Quits(p) THEN pc' = [pc EXCEPT ![t]["input"] = "sweep"] ELSE pc' = pc
    BY <1>9 DEF InputRead, Quits, Alive
  <2>2. ASSUME NEW u \in Transports \ {t} PROVE PhaseOf(u)' = PhaseOf(u)
    <3>1. pc'[u] = pc[u] /\ toIn'[u] = toIn[u]
      BY <1>a, <2>1
    <3> QED BY <2>1, <3>1, PhaseKept
  <2>3. q \in Seq(Packet) /\ toIn'[t] = Tail(q)
    BY <1>a, <2>1
  <2> HIDE DEF q, p
  <2>4. /\ 1 \in DOMAIN q /\ q[1] = p
        /\ \A i \in DOMAIN Tail(q) : i + 1 \in DOMAIN q /\ Tail(q)[i] = q[i + 1]
        /\ \A i \in DOMAIN q : i # 1 => i - 1 \in DOMAIN Tail(q) /\ Tail(q)[i - 1] = q[i]
    BY <2>1, <2>3, FirstPacket DEF p
  <2>5. CASE Quits(p)
    <3>1. p = Sync(0, 0)
      BY <1>b, <2>4, <2>5 DEF TalkInvOf, q
    <3>2. Stopped(t)
      BY <2>4, <3>1 DEF Stopped, q
    <3>3. PhaseOf(t) = "offline"
      BY <1>b, <2>1, <3>2, PhaseRunning
    <3>4. life'[t] = "running" /\ pc'[t]["input"] = "sweep"
      BY <1>a, <2>1, <2>5 DEF Agent
    <3>5. TalkInvOf(t)'
      BY <1>b
    <3>6. ~ online'[t]
      BY <3>4, <3>5 DEF TalkInvOf, Stopped
    <3>7. PhaseOf(t)' = "offline"
      BY <3>4, <3>6 DEF PhaseOf
    <3> QED BY <1>2, <2>2, <3>3, <3>7
  <2>6. CASE ~ Quits(p)
    <3>1. p # Sync(0, 0)
      BY <2>6 DEF Quits, Sync
    <3>2. (\E i \in DOMAIN toIn'[t] : toIn'[t][i] = Sync(0, 0))
          <=> (\E i \in DOMAIN toIn[t] : toIn[t][i] = Sync(0, 0))
      <4> DEFINE z == Sync(0, 0)
      <4>1. p # z
        BY <3>1
      <4> HIDE DEF z
      <4>2. ASSUME NEW i \in DOMAIN Tail(q), Tail(q)[i] = z
            PROVE  \E j \in DOMAIN q : q[j] = z
        BY <2>4, <4>2
      <4>3. ASSUME NEW i \in DOMAIN q, q[i] = z
            PROVE  \E j \in DOMAIN Tail(q) : Tail(q)[j] = z
        <5>1. i # 1
          BY <2>4, <4>1, <4>3
        <5>2. i - 1 \in DOMAIN Tail(q) /\ Tail(q)[i - 1] = z
          BY <2>4, <4>3, <5>1
        <5> QED BY <5>2
      <4>4. (\E j \in DOMAIN Tail(q) : Tail(q)[j] = z) <=> (\E j \in DOMAIN q : q[j] = z)
        BY ONLY <4>2, <4>3
      <4>5. toIn'[t] = Tail(q) /\ toIn[t] = q
        BY <2>3 DEF q
      <4> QED BY ONLY <4>4, <4>5 DEF z
    <3>3. PhaseOf(t)' = PhaseOf(t)
      BY <2>1, <2>6, <3>2 DEF PhaseOf
    <3> QED BY <1>2, <2>2, <3>3
  <2> QED BY <2>5, <2>6
<1>10. ASSUME NEW t \in Transports, InputFail(t) PROVE FALSE
  <2>1. life[t] = "running" /\ pc[t]["input"] = "read" /\ ~ PairOpen(t)
    BY <1>10 DEF InputFail, Alive
  <2>2. closes[t] = 0
    <3>1. ~ (closes[t] > 0) /\ closes[t] \in Nat
      BY <2>1 DEF Before, RefInv, RefInvOf, ThreadsExited, TypeOK
    <3> QED BY <3>1
  <2>3. t \notin NoPerm
    BY <2>1 DEF Before, OnceInv, OnceInvOf, Agent
  <2> QED BY <2>1, <2>2, <2>3 DEF PairInv, PairInvOf
<1>11. ASSUME NEW t \in Transports, InputSweep(t) PROVE [L!Next]_ph
  <2>1. /\ life[t] = "running" /\ life' = life /\ online' = online /\ toIn' = toIn
        /\ pc[t]["input"] = "sweep" /\ pc' = [pc EXCEPT ![t]["input"] = "kick"]
    BY <1>11 DEF InputSweep, Alive
  <2>2. PhaseOf(t) = "offline"
    BY <1>b, <2>1, PhaseRunning
  <2>3. pc'[t]["input"] = "kick"
    BY <1>a, <2>1 DEF Agent
  <2>4. PhaseOf(t)' = "swept"
    BY <2>1, <2>3 DEF PhaseOf
  <2>5. ASSUME NEW u \in Transports \ {t} PROVE PhaseOf(u)' = PhaseOf(u)
    <3>1. pc'[u] = pc[u]
      BY <1>a, <2>1
    <3> QED BY <2>1, <3>1, PhaseKept
  <2> QED BY <1>2, <2>2, <2>4, <2>5
<1>12. ASSUME NEW t \in Transports, NEW a \in Agent, Leave(t, a) PROVE [L!Next]_ph
  <2>1. life[t] = "running" /\ life' = life /\ toIn' = toIn /\ online' = online
    BY <1>12 DEF Leave, KickTest, KickLock, KickRun, Unref, Alive
  <2>2. /\ pc[t][a] \in {"kick", "lock", "kicking", "unref"}
        /\ \E w \in {"lock", "kicking", "unref", "none", "done"} :
              pc' = [pc EXCEPT ![t][a] = w] /\ (a # "main" => w # "none")
    BY <1>12 DEF Leave, KickTest, KickLock, KickRun, Unref, Goto
  <2>3. PICK w \in {"lock", "kicking", "unref", "none", "done"} :
              pc' = [pc EXCEPT ![t][a] = w] /\ (a # "main" => w # "none")
    BY <2>2
  <2>4. ASSUME NEW u \in Transports \ {t} PROVE PhaseOf(u)' = PhaseOf(u)
    <3>1. pc'[u] = pc[u]
      BY <1>a, <2>3
    <3> QED BY <2>1, <3>1, PhaseKept
  <2>5. CASE a = "input"
    <3>1. pc'[t]["input"] = w /\ w # "none" /\ pc[t]["input"] \in {"kick", "lock", "kicking", "unref"}
      BY <1>a, <2>2, <2>3, <2>5
    <3>2. PhaseOf(t) = "swept" /\ PhaseOf(t)' = "swept"
      BY <2>1, <3>1 DEF PhaseOf
    <3> QED BY <1>2, <2>4, <3>2
  <2>6. CASE a # "input"
    <3>1. pc'[t]["input"] = pc[t]["input"]
      BY <1>a, <2>3, <2>6 DEF Agent
    <3>2. PhaseOf(t)' = PhaseOf(t)
      BY <2>1, <3>1, PhaseKept
    <3> QED BY <1>2, <2>4, <3>2
  <2> QED BY <2>5, <2>6
<1>13. ASSUME NEW t \in Transports,
              Unregister(t) \/ unregister_usb_transport(t) \/ LinkDown(t)
       PROVE  [L!Next]_ph
  <2>1. life' = life /\ pc' = pc /\ toIn' = toIn /\ online' = online
    BY <1>13 DEF Unregister, unregister_usb_transport, LinkDown
  <2> QED BY <1>1, <2>1, PhaseKept
<1>14. CASE UNCHANGED vars
    BY <1>1, <1>14, PhaseKept DEF vars
<1>15. CASE Next
  <2>1. PICK t \in Transports :
              \/ Find(t) \/ Main(t) \/ Output(t) \/ Input(t)
              \/ \E a \in Agent : Leave(t, a)
              \/ Unregister(t) \/ unregister_usb_transport(t) \/ LinkDown(t)
    BY <1>15, Zenon DEF Next
  <2>2. CASE Find(t)
    BY <1>3, <2>2
  <2>3. CASE Main(t)
    BY <1>4, <1>5, <1>6, <1>7, <2>3 DEF Main
  <2>4. CASE Output(t)
    BY <1>8, <2>4
  <2>5. CASE Input(t)
    BY <1>9, <1>10, <1>11, <2>5 DEF Input
  <2>6. CASE \E a \in Agent : Leave(t, a)
    BY <1>12, <2>6
  <2>7. CASE Unregister(t) \/ unregister_usb_transport(t) \/ LinkDown(t)
    BY <1>13, <2>7
  <2> QED BY <2>1, <2>2, <2>3, <2>4, <2>5, <2>6, <2>7
<1> QED
    BY <1>14, <1>15

\* A transport that no client disconnects goes through the phases of
\* AdbLifecycle: it comes online only while it starts, the main thread is done
\* with handle_offline() before input_thread sweeps its sockets, and it is
\* freed only after the sweep.  remote_close() of a socket transport closes
\* t->fd and transport_registration_func() closes it again, when it may be
\* another's: a transport with a socket must be alone on the descriptors.
THEOREM TransportLifecycle ==
    ASSUME Disconnect = {}, SocketAlone
    PROVE  Spec => Lifecycle
<1> DEFINE ph == [t \in Transports |-> PhaseOf(t)]
           Inv == Before /\ FreeInv /\ PairInv /\ TalkInv
<1>1. Init => Inv
  <2> SUFFICES ASSUME Init PROVE Inv
    OBVIOUS
  <2>1. RegisterInv /\ RefInv /\ OnceInv
    BY DEF Init, RegisterInv, RefInv, RefInvOf, NotStarted, Agent, OnceInv, OnceInvOf,
           FreeMessages
  <2>2. FreeInv /\ PairInv /\ TalkInv
    BY DEF Init, FreeInv, PairInv, PairInvOf, TalkInv, TalkInvOf, Stopped, Agent
  <2> QED
    BY <2>1, <2>2, InitType DEF Before
<1>2. Inv /\ [Next]_vars => Inv'
  <2> SUFFICES ASSUME Inv, [Next]_vars PROVE Inv'
    OBVIOUS
  <2>1. TypeOK' /\ RegisterInv' /\ RefInv' /\ OnceInv'
    BY TypeStep, RefStep, OnceStep DEF Before
  <2> QED
    BY <2>1, FreeStep, PairStep, TalkStep DEF Before
<1>3. Init => L!Init
    BY DEF Init, L!Init, PhaseOf
<1>4. Inv /\ Inv' /\ [Next]_vars => [L!Next]_ph
    BY PhaseStep
<1> QED
    BY <1>1, <1>2, <1>3, <1>4, PTL DEF Spec, Lifecycle, L!Spec

=============================================================================
