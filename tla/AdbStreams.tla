----------------------------- MODULE AdbStreams -----------------------------
(***************************************************************************)
(* The stream layer of the Android Debug Bridge: sockets.c and the stream  *)
(* half of handle_packet() in adb.c, run by two programs (the adb server   *)
(* on the host, adbd on the device) joined by one transport.               *)
(*                                                                         *)
(* A local asocket is bound to a file descriptor.  Its peer is a remote    *)
(* asocket, which only holds the id of the stream at the other end and the *)
(* transport, so it is folded into the field "peer" (0 is a NULL peer).    *)
(* Each handler is one action: the main thread runs one fdevent callback   *)
(* at a time.  The callbacks of two programs, and close_all_sockets(),     *)
(* which the transport's input thread runs, interleave freely.             *)
(***************************************************************************)
EXTENDS Naturals, Sequences

CONSTANTS
    MaxId,       \* bound: ids handed out by install_local_socket()
    MaxPayload,  \* units of data in the largest WRTE (MAX_PAYLOAD)
    MaxUnits,    \* bound: units a file descriptor ever supplies
    Openers      \* the ends whose clients ask for streams

End == {"host", "device"}

ASSUME BoundsAssumption ==
    /\ MaxId \in Nat \ {0}
    /\ MaxPayload \in Nat \ {0}
    /\ MaxUnits \in Nat
    /\ Openers \subseteq End

VARIABLES
    sock,     \* sock[e][i]: the local asocket that end e numbered i
    next_id,  \* local_socket_next_id of each end
    ch,       \* ch[e]: packets on their way to end e's handle_packet()
    up,       \* the link that joins the two transports works
    online,   \* t->online of each end
    pump,     \* the input thread of each end's transport
    sent,     \* sent[e][i]: units read from the descriptor and sent
    out,      \* out[e][i]: units written to the descriptor
    status,   \* status[e][i]: what a smart socket's client was told
    broken    \* broken[e]: the sockets whose descriptor refused a write

vars == <<sock, next_id, ch, up, online, pump, sent, out, status, broken>>

Ids == 1..MaxId

\* A unit of data: the n-th one that the other end's socket i read.
Unit == Ids \X (1..MaxUnits)

Command == {"OPEN", "OKAY", "CLSE", "WRTE", "SYNC"}

\* What fits in an apacket.
Payload == {d \in Seq(Unit) : Len(d) <= MaxPayload}

Packet == [cmd: Command, arg0: 0..MaxId, arg1: 0..MaxId, data: Payload]

\* st: never created, on local_socket_list, on local_socket_closing_list, freed.
\* rd, wr: FDE_READ, FDE_WRITE of the fdevent.  pkts: the units queued from
\* pkt_first on.  notify: ready and close are the *_notify variants.
\* stale: a read event found before fdevent_del() is still to be delivered.
Asocket == [st: {"none", "open", "closing", "freed"}, peer: 0..MaxId,
            notify: BOOLEAN, rd: BOOLEAN, wr: BOOLEAN, pkts: Seq(Unit),
            stale: BOOLEAN]

Other(e) == IF e = "host" THEN "device" ELSE "host"

\* A socket with nothing queued.
Idle(st, peer, notify, rd) ==
    [st |-> st, peer |-> peer, notify |-> notify, rd |-> rd,
     wr |-> FALSE, pkts |-> <<>>, stale |-> FALSE]

NoSocket == Idle("none", 0, FALSE, FALSE)

-----------------------------------------------------------------------------
(* Packets. *)

Pkt(cmd, arg0, arg1, data) ==
    [cmd |-> cmd, arg0 |-> arg0, arg1 |-> arg1, data |-> data]

\* The queue q after p is sent on it; a broken link swallows the packet.
send_packet(q, p) == IF up THEN Append(q, p) ELSE q

\* OKAY with local_socket_next_id in place of the new socket's id.
SendReadyNext(q, local, remote) ==
    send_packet(q, Pkt("OKAY", local + 1, remote, <<>>))

send_ready(q, local, remote) == send_packet(q, Pkt("OKAY", local, remote, <<>>))

send_close(q, local, remote) == send_packet(q, Pkt("CLSE", local, remote, <<>>))

-----------------------------------------------------------------------------
(* Sockets. *)

\* A search that insists on a peer.
FindConnected(e, local_id, peer_id) ==
    IF /\ local_id \in Ids
       /\ sock[e][local_id].st = "open"
       /\ sock[e][local_id].peer # 0
       /\ peer_id = 0 \/ sock[e][local_id].peer = peer_id
    THEN local_id
    ELSE 0

\* find_local_socket(): 0 is a NULL result.
find_local_socket(e, local_id, peer_id) ==
    IF /\ local_id \in Ids
       /\ sock[e][local_id].st = "open"
       /\ peer_id = 0 \/ sock[e][local_id].peer = peer_id
    THEN local_id
    ELSE 0

create_local_socket(peer, notify, rd) == Idle("open", peer, notify, rd)

\* ready() of socket s, whose peer is (now) the remote socket peer.
local_socket_ready(s, peer) ==
    [s EXCEPT !.peer = peer, !.notify = FALSE, !.rd = TRUE]

\* The unwritten data goes with the socket.
local_socket_destroy == Idle("freed", 0, FALSE, FALSE)

\* A closing socket that does not forget its peer.
CloseKeepsPeer(s, stale) ==
    IF s.st = "closing" \/ s.pkts = <<>>
    THEN local_socket_destroy
    ELSE [s EXCEPT !.st = "closing", !.rd = FALSE, !.stale = stale]

\* What becomes of s; stale says that a read event of s is already pending.
local_socket_close_locked(s, stale) ==
    IF s.st = "closing" \/ s.pkts = <<>>
    THEN local_socket_destroy
    ELSE [s EXCEPT !.st = "closing", !.peer = 0, !.rd = FALSE, !.stale = stale]

\* The units that adb_write() did not take wait for FDE_WRITE.
WriteAgainLater(s, data, k) ==
    [s EXCEPT !.pkts = @ \o SubSeq(data, 1, Len(data)), !.wr = TRUE]

Backlog(s, data, k) ==
    [s EXCEPT !.pkts = @ \o SubSeq(data, k + 1, Len(data)), !.wr = TRUE]

\* What local_socket_enqueue() returns when left units remain unwritten.
AlwaysReady(left) == "ready"

NeverReady(left) == "backlog"

EnqueueReturn(left) == IF left = 0 THEN "ready" ELSE "backlog"

\* The results of local_socket_enqueue(): the descriptor takes k units (none
\* if earlier ones still wait), then blocks or, before the last, fails.
local_socket_enqueue(s, data) ==
    LET n == Len(data)
        taken == IF s.pkts = <<>> THEN 0..n ELSE {0}
        after(k) == IF k = n THEN s ELSE Backlog(s, data, k)
    IN  {[sock |-> after(k), wrote |-> k, ret |-> EnqueueReturn(n - k)] :
            k \in taken}
        \cup {[sock |-> local_socket_close_locked(s, FALSE),
               wrote |-> k, ret |-> "error"] :
                 k \in {m \in taken : m < n /\ s.pkts = <<>>}}

\* A loop that does not count what it has already read.
ReadTooMuch(avail) == [got: 1..(avail + 1), is_eof: BOOLEAN]

\* The results of the read loop: units read, and whether the descriptor
\* ended; a full packet stops the loop before the end can be seen.
ReadLoop(avail) ==
    {r \in [got: 0..avail, is_eof: BOOLEAN] :
        /\ r.got > 0 \/ r.is_eof
        /\ r.is_eof => r.got < avail}

\* A shutdown that tells nobody.
ShutdownSilently(q, i, s) == q

\* The queue to the other end after socket i, in state s, has closed its
\* remote peer: remote_socket_shutdown() sends CLSE with both ids.
remote_socket_shutdown(q, i, s) ==
    IF s.peer # 0 THEN send_close(q, i, s.peer) ELSE q

\* remote_socket_disconnect() of the peer of s: s closes without a CLSE.
remote_socket_disconnect(s, stale) ==
    IF s.st = "open" /\ s.peer # 0
    THEN local_socket_close_locked(s, stale)
    ELSE s

\* A read event of s may be pending only if s was waiting for one.
MayBeStale(s) == IF s.rd THEN BOOLEAN ELSE {FALSE}

-----------------------------------------------------------------------------
(* Clients ask for a stream. *)

\* listener_event_func(): a connection to a forwarded port.
ListenerConnect(e) ==
    LET i == next_id[e] IN
    /\ e \in Openers /\ online[e] /\ i <= MaxId
    /\ sock' = [sock EXCEPT ![e][i] = create_local_socket(0, FALSE, FALSE)]
    /\ next_id' = [next_id EXCEPT ![e] = @ + 1]
    /\ ch' = [ch EXCEPT ![Other(e)] =
                 send_packet(@, Pkt("OPEN", i, 0, <<>>))]
    /\ UNCHANGED <<up, online, pump, sent, out, status, broken>>

\* The end of smart_socket_enqueue(): the client named a service of the other
\* end.  eof: the same read event also saw the client's end of file, and
\* local_socket_event_func() closes the socket that waits for its OPEN.
SmartConnect(e, eof) ==
    LET i == next_id[e] IN
    /\ e \in Openers /\ online[e] /\ i <= MaxId
    /\ sock' = [sock EXCEPT ![e][i] =
                   IF eof THEN local_socket_destroy
                          ELSE create_local_socket(0, TRUE, FALSE)]
    /\ status' = [status EXCEPT ![e][i] =
                     IF eof THEN "FAIL" ELSE "waiting"]
    /\ next_id' = [next_id EXCEPT ![e] = @ + 1]
    /\ ch' = [ch EXCEPT ![Other(e)] =
                 send_packet(@, Pkt("OPEN", i, 0, <<>>))]
    /\ UNCHANGED <<up, online, pump, sent, out, broken>>

-----------------------------------------------------------------------------
(* handle_packet(), one action for each command. *)

Arrives(e, cmd) == ch[e] # <<>> /\ Head(ch[e]).cmd = cmd

\* create_local_service_socket() may find no such service.  An end that is
\* offline ignores the packet.
HandleOpen(e) ==
    LET p == Head(ch[e])
        i == next_id[e]
        ignored == ~online[e] \/ p.arg0 = 0 \/ p.arg1 # 0
    IN
    /\ Arrives(e, "OPEN")
    /\ UNCHANGED <<up, online, pump, sent, out, status, broken>>
    /\ \/ /\ UNCHANGED <<sock, next_id>>
          /\ ch' = [ch EXCEPT ![e] = Tail(@),
                              ![Other(e)] = IF ignored
                                            THEN @
                                            ELSE send_close(@, 0, p.arg0)]
       \/ /\ ~ignored /\ i <= MaxId
          /\ sock' = [sock EXCEPT ![e][i] =
                         create_local_socket(p.arg0, FALSE, TRUE)]
          /\ next_id' = [next_id EXCEPT ![e] = @ + 1]
          /\ ch' = [ch EXCEPT ![e] = Tail(@),
                              ![Other(e)] = send_ready(@, i, p.arg0)]

\* The first OKAY connects the socket that waits for it, later ones reopen
\* its window; both end in s->ready(s).
HandleOkay(e) ==
    LET p == Head(ch[e])
        s == find_local_socket(e, p.arg1, 0)
        matches == /\ online[e] /\ p.arg0 # 0 /\ s # 0
                   /\ sock[e][s].peer \in {0, p.arg0}
    IN
    /\ Arrives(e, "OKAY")
    /\ ch' = [ch EXCEPT ![e] = Tail(@)]
    /\ UNCHANGED <<next_id, up, online, pump, sent, out, broken>>
    /\ \/ /\ ~matches
          /\ UNCHANGED <<sock, status>>
       \/ /\ matches
          /\ sock' = [sock EXCEPT ![e][s] = local_socket_ready(@, p.arg0)]
          /\ status' = [status EXCEPT ![e][s] =
                           IF sock[e][s].notify THEN "OKAY" ELSE @]

\* s->close(s): local_socket_close_notify() first tells a waiting client.
HandleClse(e) ==
    LET p == Head(ch[e])
        s == find_local_socket(e, p.arg1, p.arg0)
        matches == online[e] /\ s # 0
    IN
    /\ Arrives(e, "CLSE")
    /\ UNCHANGED <<next_id, up, online, pump, sent, out, broken>>
    /\ \/ /\ ~matches
          /\ ch' = [ch EXCEPT ![e] = Tail(@)]
          /\ UNCHANGED <<sock, status>>
       \/ /\ matches
          /\ \E stale \in MayBeStale(sock[e][s]) :
                sock' = [sock EXCEPT ![e][s] =
                            local_socket_close_locked(@, stale)]
          /\ ch' = [ch EXCEPT ![e] = Tail(@),
                              ![Other(e)] =
                                 remote_socket_shutdown(@, s, sock[e][s])]
          /\ status' = [status EXCEPT ![e][s] =
                           IF sock[e][s].notify THEN "FAIL" ELSE @]

\* OKAY is sent only if the descriptor took all of the data.
HandleWrte(e) ==
    LET p == Head(ch[e])
        s == find_local_socket(e, p.arg1, p.arg0)
        matches == online[e] /\ p.arg0 # 0 /\ s # 0
        answer(q, ret) ==
            CASE ret = "ready"   -> send_ready(q, s, p.arg0)
              [] ret = "error"   -> remote_socket_shutdown(q, s, sock[e][s])
              [] ret = "backlog" -> q
    IN
    /\ Arrives(e, "WRTE")
    /\ UNCHANGED <<next_id, up, online, pump, sent, status>>
    /\ \/ /\ ~matches
          /\ ch' = [ch EXCEPT ![e] = Tail(@)]
          /\ UNCHANGED <<sock, out, broken>>
       \/ /\ matches
          /\ \E r \in local_socket_enqueue(sock[e][s], p.data) :
                /\ sock' = [sock EXCEPT ![e][s] = r.sock]
                /\ out' = [out EXCEPT ![e][s] =
                              @ \o SubSeq(p.data, 1, r.wrote)]
                /\ broken' = [broken EXCEPT ![e] =
                                 IF r.ret = "error" THEN @ \cup {s} ELSE @]
                /\ ch' = [ch EXCEPT ![e] = Tail(@),
                                    ![Other(e)] = answer(@, r.ret)]

\* A handle_offline() that only runs the callbacks.
OfflineStaysOnline(e) ==
    /\ UNCHANGED online
    /\ \E stale \in [Ids -> BOOLEAN] :
          /\ \A i \in Ids : stale[i] \in MayBeStale(sock[e][i])
          /\ sock' = [sock EXCEPT ![e] = [i \in Ids |->
                        remote_socket_disconnect(sock[e][i], stale[i])]]

\* handle_offline(): the transport's disconnect callbacks, one for each remote
\* socket, run before anything else does.
handle_offline(e) ==
    /\ online' = [online EXCEPT ![e] = FALSE]
    /\ \E stale \in [Ids -> BOOLEAN] :
          /\ \A i \in Ids : stale[i] \in MayBeStale(sock[e][i])
          /\ sock' = [sock EXCEPT ![e] = [i \in Ids |->
                        remote_socket_disconnect(sock[e][i], stale[i])]]

\* SYNC(0, 0) from the output thread; then the input thread is told.
HandleSync(e) ==
    /\ Arrives(e, "SYNC")
    /\ handle_offline(e)
    /\ ch' = [ch EXCEPT ![e] = Tail(@)]
    /\ pump' = [pump EXCEPT ![e] = "stopping"]
    /\ UNCHANGED <<next_id, up, sent, out, status, broken>>

-----------------------------------------------------------------------------
(* local_socket_event_func(). *)

\* FDE_READ: what was read goes to the peer, which stops the reading until
\* its OKAY; at the end of file the socket closes.
SocketReadable(e, i) ==
    LET s == sock[e][i]
        q == ch[Other(e)]
    IN
    /\ s.st = "open" /\ s.rd
    /\ UNCHANGED <<next_id, up, online, pump, out, status, broken>>
    /\ \E r \in ReadLoop(MaxPayload) :
          LET data == [n \in 1..r.got |-> <<i, sent[e][i] + n>>]
              enqueue == r.got > 0 /\ s.peer # 0
              q1 == IF enqueue
                    THEN send_packet(q, Pkt("WRTE", i, s.peer, data))
                    ELSE q
              s1 == [s EXCEPT !.rd = ~enqueue]
          IN
          /\ sent[e][i] + r.got <= MaxUnits
          /\ sent' = [sent EXCEPT ![e][i] = IF enqueue THEN @ + r.got ELSE @]
          /\ sock' = [sock EXCEPT ![e][i] =
                         IF r.is_eof THEN local_socket_close_locked(s1, FALSE)
                                     ELSE s1]
          /\ ch' = [ch EXCEPT ![Other(e)] =
                       IF r.is_eof THEN remote_socket_shutdown(q1, i, s)
                                   ELSE q1]

\* FDE_WRITE: the queue drains, and the peer is told to resume.
SocketDrained(e, i) ==
    LET s == sock[e][i] IN
    /\ s.st \in {"open", "closing"} /\ s.wr
    /\ out' = [out EXCEPT ![e][i] = @ \o s.pkts]
    /\ sock' = [sock EXCEPT ![e][i] =
                   IF s.st = "closing"
                   THEN local_socket_destroy
                   ELSE [s EXCEPT !.pkts = <<>>, !.wr = FALSE]]
    /\ ch' = [ch EXCEPT ![Other(e)] =
                 IF s.st = "closing" THEN @ ELSE send_ready(@, i, s.peer)]
    /\ UNCHANGED <<next_id, up, online, pump, sent, status, broken>>

\* FDE_WRITE: k units are written, then the descriptor blocks or fails.
SocketBlocked(e, i, err) ==
    LET s == sock[e][i]
        n == Len(s.pkts)
    IN
    /\ s.st \in {"open", "closing"} /\ s.wr
    /\ \E k \in 0..n :
          LET s1 == [s EXCEPT !.pkts = SubSeq(s.pkts, k + 1, n)] IN
          /\ k < n /\ (k > 0 \/ err)
          /\ out' = [out EXCEPT ![e][i] = @ \o SubSeq(s.pkts, 1, k)]
          /\ sock' = [sock EXCEPT ![e][i] =
                         IF err THEN local_socket_close_locked(s1, FALSE)
                                ELSE s1]
    /\ broken' = [broken EXCEPT ![e] = IF err THEN @ \cup {i} ELSE @]
    /\ ch' = [ch EXCEPT ![Other(e)] =
                 IF err THEN remote_socket_shutdown(@, i, s) ELSE @]
    /\ UNCHANGED <<next_id, up, online, pump, sent, status>>

\* FDE_READ delivered to a closing socket: fdevent_set() keeps an event that
\* is no longer wanted.  Without a peer the data is dropped; at the end of
\* file s->close(s) frees the socket with what it still had to write.
StaleReadable(e, i, eof) ==
    LET s == sock[e][i] IN
    /\ s.st = "closing" /\ s.stale
    /\ sock' = [sock EXCEPT ![e][i] =
                   IF eof THEN local_socket_close_locked(s, FALSE)
                          ELSE [s EXCEPT !.stale = FALSE]]
    /\ UNCHANGED <<next_id, ch, up, online, pump, sent, out, status, broken>>

-----------------------------------------------------------------------------
(* The transport fails. *)

\* The link breaks.  Each output thread has read some of the packets on their
\* way to it; it posts SYNC(0, 0) behind them.
LinkDown ==
    /\ up
    /\ up' = FALSE
    /\ \E host \in 0..Len(ch["host"]), device \in 0..Len(ch["device"]) :
          LET kept(e) == IF e = "host" THEN host ELSE device IN
          ch' = [e \in End |-> Append(SubSeq(ch[e], 1, kept(e)),
                                      Pkt("SYNC", 0, 0, <<>>))]
    /\ UNCHANGED <<sock, next_id, online, pump, sent, out, status, broken>>

\* A sweep that only looks at s->peer->transport.
CloseConnectedSockets(e) ==
    /\ pump[e] = "stopping"
    /\ pump' = [pump EXCEPT ![e] = "exited"]
    /\ sock' = [sock EXCEPT ![e] = [i \in Ids |->
                  IF sock[e][i].st = "open" /\ sock[e][i].peer # 0
                  THEN local_socket_close_locked(sock[e][i], FALSE)
                  ELSE sock[e][i]]]
    /\ UNCHANGED <<next_id, ch, up, online, sent, out, status, broken>>

\* close_all_sockets(), run by the input thread when it sees SYNC(0, 0): the
\* sockets that no disconnect reached still belong to the transport.
CloseAllSockets(e) ==
    /\ pump[e] = "stopping"
    /\ pump' = [pump EXCEPT ![e] = "exited"]
    /\ sock' = [sock EXCEPT ![e] = [i \in Ids |->
                  IF sock[e][i].st = "open"
                  THEN local_socket_close_locked(sock[e][i], FALSE)
                  ELSE sock[e][i]]]
    /\ UNCHANGED <<next_id, ch, up, online, sent, out, status, broken>>

-----------------------------------------------------------------------------
(* The system, from the state in which both ends have handled CNXN. *)

Init ==
    /\ sock = [e \in End |-> [i \in Ids |-> NoSocket]]
    /\ next_id = [e \in End |-> 1]
    /\ ch = [e \in End |-> <<>>]
    /\ up = TRUE
    /\ online = [e \in End |-> TRUE]
    /\ pump = [e \in End |-> "running"]
    /\ sent = [e \in End |-> [i \in Ids |-> 0]]
    /\ out = [e \in End |-> [i \in Ids |-> <<>>]]
    /\ status = [e \in End |-> [i \in Ids |-> "none"]]
    /\ broken = [e \in End |-> {}]

HandlePacket(e) ==
    \/ HandleOpen(e) \/ HandleOkay(e) \/ HandleClse(e)
    \/ HandleWrte(e) \/ HandleSync(e)

SocketEvent(e, i) ==
    \/ SocketReadable(e, i)
    \/ SocketDrained(e, i)
    \/ \E err \in BOOLEAN : SocketBlocked(e, i, err)
    \/ \E eof \in BOOLEAN : StaleReadable(e, i, eof)

Next ==
    \/ \E e \in End :
          \/ ListenerConnect(e)
          \/ \E eof \in BOOLEAN : SmartConnect(e, eof)
          \/ HandlePacket(e)
          \/ \E i \in Ids : SocketEvent(e, i)
          \/ CloseAllSockets(e)
    \/ LinkDown

Spec == Init /\ [][Next]_vars

\* The select loop serves every readable transport socket, the input thread
\* runs, and a descriptor that stays open is written in the end.  Nothing is
\* promised about clients and services: they need not ask, speak or stop.
Fairness ==
    \A e \in End :
        /\ WF_vars(HandlePacket(e))
        /\ WF_vars(CloseAllSockets(e))
        /\ \A i \in Ids : WF_vars(SocketDrained(e, i))

FairSpec == Spec /\ Fairness

-----------------------------------------------------------------------------
(* Safety. *)

\* Every variable has its type; in particular no packet outgrows MAX_PAYLOAD.
TypeOK ==
    /\ sock \in [End -> [Ids -> Asocket]]
    /\ next_id \in [End -> 1..(MaxId + 1)]
    /\ ch \in [End -> Seq(Packet)]
    /\ up \in BOOLEAN
    /\ online \in [End -> BOOLEAN]
    /\ pump \in [End -> {"running", "stopping", "exited"}]
    /\ sent \in [End -> [Ids -> 0..MaxUnits]]
    /\ out \in [End -> [Ids -> Seq(Unit)]]
    /\ status \in [End -> [Ids -> {"none", "waiting", "OKAY", "FAIL"}]]
    /\ broken \in [End -> SUBSET Ids]

\* The packets of queue q with which socket i uses its permission to send (an
\* OPEN "implies a READY"), and the packets that give it back.
Uses(q, i) == {n \in DOMAIN q : q[n].cmd \in {"OPEN", "WRTE"} /\ q[n].arg0 = i}

Returns(q, i) == {n \in DOMAIN q : q[n].cmd = "OKAY" /\ q[n].arg1 = i}

\* Those of an end's sockets whose data from socket i waits to be written.
Holders(socks, i) ==
    {j \in Ids : /\ socks[j].st = "open" /\ socks[j].peer = i
                 /\ socks[j].pkts # <<>>}

\* Where socket i's permission to send is: it may read its descriptor, its
\* packet is under way, the data waits at the other end, or OKAY is coming.
Credits(e, i) ==
    {<<"read", n>> : n \in {m \in {0} : sock[e][i].rd}}
    \cup ({"sent"} \X Uses(ch[Other(e)], i))
    \cup ({"held"} \X Holders(sock[Other(e)], i))
    \cup ({"back"} \X Returns(ch[e], i))

\* protocol.txt: once a WRITE is sent, no other is sent until a READY came
\* back.  A stream's permission to send is never in two places, whatever the
\* two event loops, the descriptors and the link do.
WindowOfOne ==
    \A e \in End, i \in Ids : \A a, b \in Credits(e, i) : a = b

\* local_socket_enqueue() never has to queue behind an earlier packet, so what
\* a slow descriptor leaves in memory is at most one packet for each socket.
BacklogBounded ==
    \A e \in End, i \in Ids : Len(sock[e][i].pkts) <= MaxPayload

\* The places of queue q that hold data from socket i for socket j.
Writes(q, i, j) ==
    {n \in DOMAIN q : q[n].cmd = "WRTE" /\ q[n].arg0 = i /\ q[n].arg1 = j}

\* The first n units that the other end's socket i read.
Units(i, n) == [m \in 1..n |-> <<i, m>>]

\* What a connected socket wrote, what it queued and what is under way to it
\* is exactly what its peer read, in order, even when the peer is gone: nothing
\* is lost, repeated, reordered or taken from another stream.  (What is under
\* way is one WRTE or none: two would have to carry the same units.)
StreamIntact ==
    \A e \in End, j \in Ids :
        LET s == sock[e][j]
            read == Units(s.peer, sent[Other(e)][s.peer])
            writes == Writes(ch[e], s.peer, j)
        IN
        (up /\ s.st = "open" /\ s.peer # 0) =>
            /\ writes = {} => out[e][j] \o s.pkts = read
            /\ \A n \in writes : (out[e][j] \o s.pkts) \o ch[e][n].data = read

\* local_socket_event_func() calls s->peer->ready(s->peer) when the queue of
\* an open socket drains: the peer must still be there.
WriterHasPeer ==
    \A e \in End, i \in Ids :
        sock[e][i].st = "open" /\ sock[e][i].wr => sock[e][i].peer # 0

\* A_OPEN and the first A_OKAY pair the sockets of the two ends: no socket is
\* claimed by two, and a socket's peer, while open, agrees or still waits.
Paired ==
    \A e \in End, i, k \in Ids :
        LET s == sock[e][i]
            p == sock[Other(e)][s.peer]
        IN
        (s.st = "open" /\ s.peer # 0) =>
            /\ p.st = "open" => p.peer \in {0, i}
            /\ sock[e][k].st = "open" /\ sock[e][k].peer = s.peer => k = i

\* CLSE is the last that a stream says: remote_socket_shutdown() is followed
\* by no WRTE, OKAY or second CLSE of the same socket.
CloseIsLast ==
    \A e \in End : \A m, n \in DOMAIN ch[e] :
        (ch[e][m].cmd = "CLSE" /\ ch[e][m].arg0 # 0 /\ m < n)
            => ch[e][n].arg0 # ch[e][m].arg0

\* The input thread frees its part of the transport when it exits: by then
\* handle_offline() and close_all_sockets() must have closed every stream.
NoneOutlivesTransport ==
    \A e \in End, i \in Ids :
        pump[e] = "exited" => sock[e][i].st # "open"

-----------------------------------------------------------------------------
(* Liveness. *)

\* The peer of socket i is gone and nothing has told i: its client got FAIL
\* before the OPEN was answered.  local_socket_event_func() may close a socket
\* between its OPEN and the OKAY, when there is no peer to shut down.
Orphan(e, i) ==
    sock[e][i].peer \in {j \in Ids : status[Other(e)][j] = "FAIL"}

\* protocol.txt: OPEN results in READY or CLOSE.  A socket that waits for an
\* answer is connected or closed in the end, a broken link included.
OpenAnswered ==
    \A e \in End, i \in Ids :
        (sock[e][i].st = "open" /\ sock[e][i].peer = 0)
            ~> (sock[e][i].st # "open" \/ sock[e][i].peer # 0)

\* A connected socket that stopped reading reads again or is closed, unless
\* it is an orphan.
WriterResumes ==
    \A e \in End, i \in Ids :
        (sock[e][i].st = "open" /\ sock[e][i].peer # 0 /\ ~sock[e][i].rd)
            ~> \/ sock[e][i].rd
               \/ sock[e][i].st # "open"
               \/ Orphan(e, i)

\* When one end of a stream goes away, so does the other, unless it is an
\* orphan.
CloseSpreads ==
    \A e \in End, i \in Ids :
        (/\ sock[e][i].st = "open"
         /\ sock[e][i].peer \in {j \in Ids : sock[Other(e)][j].st = "freed"})
            ~> \/ sock[e][i].st # "open"
               \/ Orphan(e, i)

-----------------------------------------------------------------------------
(* What the streams use of a transport. *)

\* The phases of AdbLifecycle, for the transport of each end.
PhaseOf(e) ==
    IF pump[e] = "exited" THEN "swept"
    ELSE IF online[e] THEN "online" ELSE "offline"

L == INSTANCE AdbLifecycle
        WITH Links <- End, phase <- [e \in End |-> PhaseOf(e)]

\* Each end sees its transport go through the phases that AdbTransport
\* provides: SYNC(0, 0) comes once, and the sweep comes after it.
Lifecycle == L!Spec
=============================================================================
