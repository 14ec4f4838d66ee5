-------------------------- MODULE AdbStreamsProofs --------------------------
(***************************************************************************)
(* Type correctness and flow control of AdbStreams, for every number of    *)
(* sockets, packet size and amount of data.                                *)
(*                                                                         *)
(* First what each helper returns, one lemma for each action, and with     *)
(* them the types.  Then a stream's permission to send: it is in at most   *)
(* one place, so a socket never queues more than one packet.  Last which   *)
(* socket talks to which: the sockets of the two ends are paired off, CLSE *)
(* is the last that a socket says, no socket outlives its transport, and   *)
(* what arrives is what was read.                                          *)
(***************************************************************************)
EXTENDS AdbStreams, TLAPS

LEMMA ZeroId == 0 \in 0..MaxId /\ Ids \subseteq 0..MaxId /\ 0 \notin Ids
  BY BoundsAssumption DEF Ids

LEMMA PktType ==
  ASSUME NEW cmd \in Command, NEW a \in 0..MaxId, NEW b \in 0..MaxId,
         NEW d \in Payload
  PROVE  Pkt(cmd, a, b, d) \in Packet
  BY DEF Pkt, Packet

LEMMA EmptyPayload == <<>> \in Payload
  BY BoundsAssumption DEF Payload

LEMMA SendType ==
  ASSUME NEW q \in Seq(Packet), NEW p \in Packet
  PROVE  send_packet(q, p) \in Seq(Packet)
  BY DEF send_packet

LEMMA ReadySendType ==
  ASSUME NEW q \in Seq(Packet), NEW a \in 0..MaxId, NEW b \in 0..MaxId
  PROVE  /\ send_ready(q, a, b) \in Seq(Packet)
         /\ send_close(q, a, b) \in Seq(Packet)
  BY PktType, EmptyPayload, SendType DEF send_ready, send_close, Command

LEMMA ShutdownType ==
  ASSUME NEW q \in Seq(Packet), NEW i \in Ids, NEW s \in Asocket
  PROVE  remote_socket_shutdown(q, i, s) \in Seq(Packet)
  BY ReadySendType, BoundsAssumption DEF remote_socket_shutdown, Asocket, Ids

LEMMA IdleType ==
  ASSUME NEW st \in {"none", "open", "closing", "freed"},
         NEW p \in 0..MaxId, NEW n \in BOOLEAN, NEW r \in BOOLEAN
  PROVE  Idle(st, p, n, r) \in Asocket
  BY DEF Idle, Asocket

LEMMA CloseType ==
  ASSUME NEW s \in Asocket, NEW stale \in BOOLEAN
  PROVE  local_socket_close_locked(s, stale) \in Asocket
<1>1. local_socket_destroy \in Asocket
  BY IdleType, ZeroId, Zenon DEF local_socket_destroy
<1>2. [s EXCEPT !.st = "closing"] \in Asocket
  BY DEF Asocket
<1>3. ASSUME NEW t \in Asocket PROVE [t EXCEPT !.peer = 0] \in Asocket
  BY BoundsAssumption DEF Asocket
<1>4. ASSUME NEW t \in Asocket PROVE [t EXCEPT !.rd = FALSE] \in Asocket
  BY DEF Asocket
<1>5. ASSUME NEW t \in Asocket PROVE [t EXCEPT !.stale = stale] \in Asocket
  BY DEF Asocket
<1>6. [s EXCEPT !.st = "closing", !.peer = 0, !.rd = FALSE, !.stale = stale]
        = [[[[s EXCEPT !.st = "closing"] EXCEPT !.peer = 0]
               EXCEPT !.rd = FALSE] EXCEPT !.stale = stale]
  OBVIOUS
<1> QED
  BY <1>1, <1>2, <1>3, <1>4, <1>5, <1>6, Zenon DEF local_socket_close_locked

LEMMA ReadyType ==
  ASSUME NEW s \in Asocket, NEW peer \in 0..MaxId
  PROVE  local_socket_ready(s, peer) \in Asocket
<1>1. [s EXCEPT !.peer = peer] \in Asocket
  BY DEF Asocket
<1>2. ASSUME NEW t \in Asocket PROVE [t EXCEPT !.notify = FALSE] \in Asocket
  BY DEF Asocket
<1>3. ASSUME NEW t \in Asocket PROVE [t EXCEPT !.rd = TRUE] \in Asocket
  BY DEF Asocket
<1>4. local_socket_ready(s, peer)
        = [[[s EXCEPT !.peer = peer] EXCEPT !.notify = FALSE] EXCEPT !.rd = TRUE]
  BY DEF local_socket_ready
<1> QED BY <1>1, <1>2, <1>3, <1>4, Zenon

LEMMA QueueType ==
  ASSUME NEW s \in Asocket, NEW q \in Seq(Unit), NEW w \in BOOLEAN
  PROVE  /\ [s EXCEPT !.pkts = q] \in Asocket
         /\ [s EXCEPT !.wr = w] \in Asocket
         /\ [s EXCEPT !.pkts = q, !.wr = w] \in Asocket
<1>1. ASSUME NEW t \in Asocket PROVE [t EXCEPT !.pkts = q] \in Asocket
  BY DEF Asocket
<1>2. ASSUME NEW t \in Asocket PROVE [t EXCEPT !.wr = w] \in Asocket
  BY DEF Asocket
<1>3. [s EXCEPT !.pkts = q, !.wr = w] = [[s EXCEPT !.pkts = q] EXCEPT !.wr = w]
  OBVIOUS
<1> QED BY <1>1, <1>2, <1>3, Zenon

LEMMA FindType ==
  ASSUME NEW e \in End, NEW a \in 0..MaxId, NEW b \in 0..MaxId
  PROVE  find_local_socket(e, a, b) \in Ids \cup {0}
  BY BoundsAssumption DEF find_local_socket

LEMMA InitType == Init => TypeOK
<1> SUFFICES ASSUME Init PROVE TypeOK
  OBVIOUS
<1>1. NoSocket \in Asocket
  BY IdleType, ZeroId, Zenon DEF NoSocket
<1>2. 1 \in 1..(MaxId + 1) /\ 0 \in 0..MaxUnits
  BY BoundsAssumption
<1>3. sock \in [End -> [Ids -> Asocket]]
  BY <1>1, Zenon DEF Init
<1>4. out \in [End -> [Ids -> Seq(Unit)]] /\ ch \in [End -> Seq(Packet)]
  BY DEF Init
<1> QED
  BY <1>2, <1>3, <1>4 DEF Init, TypeOK

\* What local_socket_enqueue() may leave behind, case by case.
LEMMA EnqueueCases ==
  ASSUME NEW s \in Asocket, NEW d \in Payload,
         NEW r \in local_socket_enqueue(s, d)
  PROVE  /\ r.wrote \in 0..Len(d)
         /\ \/ r.ret = "ready" /\ r.sock = s /\ r.wrote = Len(d)
            \/ /\ r.ret = "backlog" /\ r.wrote < Len(d)
               /\ r.sock = Backlog(s, d, r.wrote)
            \/ /\ r.ret = "error" /\ s.pkts = <<>>
               /\ r.sock = local_socket_close_locked(s, FALSE)
<1> DEFINE n == Len(d)
           closed == local_socket_close_locked(s, FALSE)
           taken == IF s.pkts = <<>> THEN 0..n ELSE {0}
           after(k) == IF k = n THEN s ELSE Backlog(s, d, k)
<1>1. n \in Nat
  BY DEF Payload
<1>2. \/ \E k \in taken : r = [sock |-> after(k), wrote |-> k,
                               ret |-> EnqueueReturn(n - k)]
      \/ \E k \in taken : s.pkts = <<>> /\ r = [sock |-> closed, wrote |-> k, ret |-> "error"]
  BY Zenon DEF local_socket_enqueue
<1> HIDE DEF closed
<1>3. taken \subseteq 0..n
  BY <1>1
<1>4. CASE \E k \in taken : r = [sock |-> after(k), wrote |-> k,
                                 ret |-> EnqueueReturn(n - k)]
  <2>1. PICK k \in taken : r = [sock |-> after(k), wrote |-> k,
                                ret |-> EnqueueReturn(n - k)]
    BY <1>4
  <2>2. CASE k = n
    BY <1>1, <1>3, <2>1, <2>2 DEF EnqueueReturn
  <2>3. CASE k # n
    BY <1>1, <1>3, <2>1, <2>3 DEF EnqueueReturn
  <2> QED BY <2>2, <2>3
<1>5. CASE \E k \in taken : s.pkts = <<>> /\ r = [sock |-> closed, wrote |-> k, ret |-> "error"]
  BY <1>3, <1>5 DEF closed
<1> QED BY <1>2, <1>4, <1>5

LEMMA BacklogType ==
  ASSUME NEW s \in Asocket, NEW d \in Payload, NEW k \in 0..Len(d)
  PROVE  Backlog(s, d, k) \in Asocket
<1>1. s.pkts \o SubSeq(d, k + 1, Len(d)) \in Seq(Unit)
  BY DEF Asocket, Payload
<1> QED BY <1>1, QueueType, Zenon DEF Backlog

LEMMA EnqueueType ==
  ASSUME NEW s \in Asocket, NEW d \in Payload,
         NEW r \in local_socket_enqueue(s, d)
  PROVE  r.sock \in Asocket
  BY EnqueueCases, BacklogType, CloseType, ZenonT(60)

LEMMA OtherType == \A e \in End : Other(e) \in End /\ Other(e) # e
                                  /\ Other(Other(e)) = e
  BY DEF End, Other

LEMMA Update ==
  ASSUME NEW S, NEW f \in [End -> [Ids -> S]],
         NEW e \in End, NEW i \in Ids, NEW x \in S
  PROVE  [f EXCEPT ![e][i] = x] \in [End -> [Ids -> S]]
  OBVIOUS

\* The packet that a handler takes from its channel, and what remains.
LEMMA HeadType ==
  ASSUME TypeOK, NEW e \in End, ch[e] # <<>>
  PROVE  /\ ch[e] \in Seq(Packet) /\ Tail(ch[e]) \in Seq(Packet)
         /\ Head(ch[e]) \in Packet
         /\ Head(ch[e]).cmd \in Command
         /\ Head(ch[e]).arg0 \in 0..MaxId
         /\ Head(ch[e]).arg1 \in 0..MaxId
         /\ Head(ch[e]).data \in Payload
<1>1. ch[e] \in Seq(Packet)
  BY DEF TypeOK
<1>2. Tail(ch[e]) \in Seq(Packet) /\ Head(ch[e]) \in Packet
  BY <1>1
<1> QED BY <1>1, <1>2 DEF Packet

LEMMA OpenType ==
  ASSUME TypeOK, NEW e \in End, HandleOpen(e)
  PROVE  TypeOK'
<1> DEFINE p == Head(ch[e])
           i == next_id[e]
           ignored == ~online[e] \/ p.arg0 = 0 \/ p.arg1 # 0
<1>1. ch[e] # <<>>
  BY DEF HandleOpen, Arrives
<1>2. /\ ch[Other(e)] \in Seq(Packet) /\ Other(e) \in End /\ ch[e] \in Seq(Packet)
      /\ Tail(ch[e]) \in Seq(Packet) /\ p.arg0 \in 0..MaxId
  BY <1>1, HeadType, OtherType DEF TypeOK
<1>3. CASE /\ UNCHANGED <<sock, next_id>>
           /\ ch' = [ch EXCEPT ![e] = Tail(@),
                               ![Other(e)] = IF ignored
                                             THEN @
                                             ELSE send_close(@, 0, p.arg0)]
  <2>1. ch' \in [End -> Seq(Packet)]
    BY <1>2, <1>3, OtherType, ReadySendType, ZeroId DEF TypeOK
  <2> QED BY <1>3, <2>1 DEF HandleOpen, TypeOK
<1>4. CASE /\ ~ignored /\ i <= MaxId
           /\ sock' = [sock EXCEPT ![e][i] =
                          create_local_socket(p.arg0, FALSE, TRUE)]
           /\ next_id' = [next_id EXCEPT ![e] = @ + 1]
           /\ ch' = [ch EXCEPT ![e] = Tail(@),
                               ![Other(e)] = send_ready(@, i, p.arg0)]
  <2>1. i \in Ids /\ next_id' \in [End -> 1..(MaxId + 1)]
    BY <1>4, BoundsAssumption, SMTT(60) DEF TypeOK, Ids
  <2>2. create_local_socket(p.arg0, FALSE, TRUE) \in Asocket
    BY <1>2, IdleType, Zenon DEF create_local_socket
  <2>3. sock' \in [End -> [Ids -> Asocket]]
    BY <1>4, <2>1, <2>2, Update, Zenon DEF TypeOK
  <2>4. ch' \in [End -> Seq(Packet)]
    BY <1>2, <1>4, <2>1, OtherType, ReadySendType, ZeroId DEF TypeOK
  <2> QED BY <2>1, <2>3, <2>4 DEF HandleOpen, TypeOK
<1> QED BY <1>3, <1>4, Zenon DEF HandleOpen

LEMMA OkayType ==
  ASSUME TypeOK, NEW e \in End, HandleOkay(e)
  PROVE  TypeOK'
<1> DEFINE p == Head(ch[e])
           s == find_local_socket(e, p.arg1, 0)
<1>1. ch[e] # <<>>
  BY DEF HandleOkay, Arrives
<1>2. /\ Tail(ch[e]) \in Seq(Packet)
      /\ p.arg0 \in 0..MaxId /\ p.arg1 \in 0..MaxId
  BY <1>1, HeadType
<1>3. ch' \in [End -> Seq(Packet)]
  BY <1>2 DEF HandleOkay, TypeOK
<1>4. CASE UNCHANGED <<sock, status>>
  BY <1>3, <1>4 DEF HandleOkay, TypeOK
<1>5. CASE /\ s # 0
           /\ sock' = [sock EXCEPT ![e][s] = local_socket_ready(@, p.arg0)]
           /\ status' = [status EXCEPT ![e][s] =
                            IF sock[e][s].notify THEN "OKAY" ELSE @]
  <2>1. s \in Ids
    BY <1>2, <1>5, FindType, ZeroId
  <2> HIDE DEF s
  <2>2. sock[e][s] \in Asocket /\ status[e][s] \in {"none", "waiting", "OKAY", "FAIL"}
    BY <2>1 DEF TypeOK
  <2>3. local_socket_ready(sock[e][s], p.arg0) \in Asocket
    BY <1>2, <2>2, ReadyType
  <2>4. sock' \in [End -> [Ids -> Asocket]]
    BY <1>5, <2>1, <2>3 DEF TypeOK
  <2>5. status' \in [End -> [Ids -> {"none", "waiting", "OKAY", "FAIL"}]]
    BY <1>5, <2>1, <2>2 DEF TypeOK
  <2> QED BY <1>3, <2>4, <2>5 DEF HandleOkay, TypeOK
<1> QED BY <1>4, <1>5, Zenon DEF HandleOkay

LEMMA ClseType ==
  ASSUME TypeOK, NEW e \in End, HandleClse(e)
  PROVE  TypeOK'
<1> DEFINE p == Head(ch[e])
           s == find_local_socket(e, p.arg1, p.arg0)
<1>1. ch[e] # <<>>
  BY DEF HandleClse, Arrives
<1>2. /\ Tail(ch[e]) \in Seq(Packet)
      /\ p.arg0 \in 0..MaxId /\ p.arg1 \in 0..MaxId
  BY <1>1, HeadType
<1>3. CASE ch' = [ch EXCEPT ![e] = Tail(@)] /\ UNCHANGED <<sock, status>>
  BY <1>2, <1>3 DEF HandleClse, TypeOK
<1>4. CASE /\ s # 0
           /\ \E stale \in MayBeStale(sock[e][s]) :
                 sock' = [sock EXCEPT ![e][s] =
                             local_socket_close_locked(@, stale)]
           /\ ch' = [ch EXCEPT ![e] = Tail(@),
                               ![Other(e)] =
                                  remote_socket_shutdown(@, s, sock[e][s])]
           /\ status' = [status EXCEPT ![e][s] =
                            IF sock[e][s].notify THEN "FAIL" ELSE @]
  <2>1. s \in Ids
    BY <1>2, <1>4, FindType, ZeroId
  <2> HIDE DEF s
  <2>2. sock[e][s] \in Asocket /\ status[e][s] \in {"none", "waiting", "OKAY", "FAIL"}
    BY <2>1 DEF TypeOK
  <2>3. PICK stale \in BOOLEAN :
           sock' = [sock EXCEPT ![e][s] = local_socket_close_locked(@, stale)]
    BY <1>4, Zenon DEF MayBeStale
  <2>4. sock' \in [End -> [Ids -> Asocket]]
    BY <2>1, <2>2, <2>3, CloseType, Update, Zenon DEF TypeOK
  <2>5. status' \in [End -> [Ids -> {"none", "waiting", "OKAY", "FAIL"}]]
    BY <1>4, <2>1, <2>2 DEF TypeOK
  <2>6. ch' \in [End -> Seq(Packet)]
    BY <1>2, <1>4, <2>1, <2>2, OtherType, ShutdownType DEF TypeOK
  <2> QED BY <2>4, <2>5, <2>6 DEF HandleClse, TypeOK
<1> QED BY <1>3, <1>4, Zenon DEF HandleClse

LEMMA WrteType ==
  ASSUME TypeOK, NEW e \in End, HandleWrte(e)
  PROVE  TypeOK'
<1> DEFINE p == Head(ch[e])
           s == find_local_socket(e, p.arg1, p.arg0)
           answer(q, ret) ==
             CASE ret = "ready"   -> send_ready(q, s, p.arg0)
               [] ret = "error"   -> remote_socket_shutdown(q, s, sock[e][s])
               [] ret = "backlog" -> q
<1>1. ch[e] # <<>>
  BY DEF HandleWrte, Arrives
<1>2. /\ Tail(ch[e]) \in Seq(Packet) /\ p.data \in Payload
      /\ p.arg0 \in 0..MaxId /\ p.arg1 \in 0..MaxId
  BY <1>1, HeadType
<1>3. CASE ch' = [ch EXCEPT ![e] = Tail(@)] /\ UNCHANGED <<sock, out, broken>>
  BY <1>2, <1>3 DEF HandleWrte, TypeOK
<1>4. CASE /\ s # 0
           /\ \E r \in local_socket_enqueue(sock[e][s], p.data) :
                 /\ sock' = [sock EXCEPT ![e][s] = r.sock]
                 /\ out' = [out EXCEPT ![e][s] =
                               @ \o SubSeq(p.data, 1, r.wrote)]
                 /\ broken' = [broken EXCEPT ![e] =
                                  IF r.ret = "error" THEN @ \cup {s} ELSE @]
                 /\ ch' = [ch EXCEPT ![e] = Tail(@),
                                     ![Other(e)] = answer(@, r.ret)]
  <2>1. s \in Ids
    BY <1>2, <1>4, FindType, ZeroId
  <2> HIDE DEF s
  <2>2. /\ sock[e][s] \in Asocket /\ out[e][s] \in Seq(Unit)
        /\ ch[Other(e)] \in Seq(Packet) /\ Other(e) \in End /\ broken[e] \subseteq Ids
    BY <2>1, OtherType DEF TypeOK
  <2>3. PICK r \in local_socket_enqueue(sock[e][s], p.data) :
                 /\ sock' = [sock EXCEPT ![e][s] = r.sock]
                 /\ out' = [out EXCEPT ![e][s] =
                               @ \o SubSeq(p.data, 1, r.wrote)]
                 /\ broken' = [broken EXCEPT ![e] =
                                  IF r.ret = "error" THEN @ \cup {s} ELSE @]
                 /\ ch' = [ch EXCEPT ![e] = Tail(@),
                                     ![Other(e)] = answer(@, r.ret)]
    BY <1>4
  <2>4. /\ r.sock \in Asocket /\ r.wrote \in 0..Len(p.data)
        /\ r.ret \in {"ready", "backlog", "error"}
    BY <1>2, <2>2, EnqueueType, EnqueueCases, Zenon
  <2>5. sock' \in [End -> [Ids -> Asocket]]
    BY <2>1, <2>3, <2>4, Update, Zenon DEF TypeOK
  <2>6. out[e][s] \o SubSeq(p.data, 1, r.wrote) \in Seq(Unit)
    BY <1>2, <2>2, <2>4 DEF Payload
  <2>7. out' \in [End -> [Ids -> Seq(Unit)]]
    BY <2>1, <2>3, <2>6, Update, Zenon DEF TypeOK
  <2>8. answer(ch[Other(e)], r.ret) \in Seq(Packet)
    BY <1>2, <2>1, <2>2, <2>4, ReadySendType, ShutdownType, ZeroId
  <2> HIDE DEF answer
  <2>9. ch' \in [End -> Seq(Packet)]
    BY <1>2, <2>2, <2>3, <2>8, OtherType DEF TypeOK
  <2>10. broken' \in [End -> SUBSET Ids]
    BY <2>1, <2>2, <2>3 DEF TypeOK
  <2> QED BY <2>5, <2>7, <2>9, <2>10 DEF HandleWrte, TypeOK
<1> QED BY <1>3, <1>4, Zenon DEF HandleWrte

LEMMA SyncType ==
  ASSUME TypeOK, NEW e \in End, HandleSync(e)
  PROVE  TypeOK'
<1>1. ch[e] # <<>>
  BY DEF HandleSync, Arrives
<1>2. ch' \in [End -> Seq(Packet)]
  BY <1>1, HeadType DEF HandleSync, TypeOK
<1>3. PICK stale \in [Ids -> BOOLEAN] :
         sock' = [sock EXCEPT ![e] = [i \in Ids |->
                    remote_socket_disconnect(sock[e][i], stale[i])]]
  BY Zenon DEF HandleSync, handle_offline
<1>4. \A i \in Ids : remote_socket_disconnect(sock[e][i], stale[i]) \in Asocket
  BY CloseType, Zenon DEF TypeOK, remote_socket_disconnect
<1>5. sock' \in [End -> [Ids -> Asocket]]
  BY <1>3, <1>4 DEF TypeOK
<1>6. online' \in [End -> BOOLEAN] /\ pump' \in [End -> {"running", "stopping", "exited"}]
  BY DEF HandleSync, handle_offline, TypeOK
<1> QED BY <1>2, <1>5, <1>6 DEF HandleSync, TypeOK

LEMMA ConnectType ==
  ASSUME TypeOK, NEW e \in End,
         ListenerConnect(e) \/ \E eof \in BOOLEAN : SmartConnect(e, eof)
  PROVE  TypeOK'
<1> DEFINE i == next_id[e]
           opened == send_packet(ch[Other(e)], Pkt("OPEN", i, 0, <<>>))
<1>1. /\ i \in Ids
      /\ next_id' = [next_id EXCEPT ![e] = @ + 1]
      /\ ch' = [ch EXCEPT ![Other(e)] = opened]
  <2>1. /\ i <= MaxId
        /\ next_id' = [next_id EXCEPT ![e] = @ + 1]
        /\ ch' = [ch EXCEPT ![Other(e)] = opened]
    BY Zenon DEF ListenerConnect, SmartConnect
  <2>2. i \in 1..(MaxId + 1)
    BY DEF TypeOK
  <2> QED BY <2>1, <2>2, BoundsAssumption DEF Ids
<1>2. next_id' \in [End -> 1..(MaxId + 1)]
  BY <1>1, BoundsAssumption DEF TypeOK, Ids
<1>3. opened \in Seq(Packet)
  BY <1>1, OtherType, ZeroId, PktType, EmptyPayload, SendType DEF Command, TypeOK
<1> HIDE DEF opened
<1>4. ch' \in [End -> Seq(Packet)]
  BY <1>1, <1>3 DEF TypeOK
<1>5. \A n, r \in BOOLEAN : create_local_socket(0, n, r) \in Asocket
  BY ZeroId, IdleType, Zenon DEF create_local_socket
<1>6. local_socket_destroy \in Asocket
  BY ZeroId, IdleType, Zenon DEF local_socket_destroy
<1>7. CASE ListenerConnect(e)
  <2>1. sock' = [sock EXCEPT ![e][i] = create_local_socket(0, FALSE, FALSE)]
    BY <1>7, Zenon DEF ListenerConnect
  <2>2. sock' \in [End -> [Ids -> Asocket]]
    BY <2>1, <1>1, <1>5, Update, Zenon DEF TypeOK
  <2> QED BY <1>2, <1>4, <1>7, <2>2 DEF ListenerConnect, TypeOK
<1>8. CASE \E eof \in BOOLEAN : SmartConnect(e, eof)
  <2>1. PICK eof \in BOOLEAN : SmartConnect(e, eof)
    BY <1>8
  <2>2. sock' = [sock EXCEPT ![e][i] =
                   IF eof THEN local_socket_destroy
                          ELSE create_local_socket(0, TRUE, FALSE)]
    BY <2>1, Zenon DEF SmartConnect
  <2>3. (IF eof THEN local_socket_destroy
                ELSE create_local_socket(0, TRUE, FALSE)) \in Asocket
    BY <1>5, <1>6, Zenon
  <2>4. sock' \in [End -> [Ids -> Asocket]]
    BY <2>2, <2>3, <1>1, Update, Zenon DEF TypeOK
  <2>5. status' \in [End -> [Ids -> {"none", "waiting", "OKAY", "FAIL"}]]
    BY <1>1, <2>1 DEF SmartConnect, TypeOK
  <2> QED BY <1>2, <1>4, <2>1, <2>4, <2>5 DEF SmartConnect, TypeOK
<1> QED BY <1>7, <1>8

LEMMA ReadableType ==
  ASSUME TypeOK, NEW e \in End, NEW i \in Ids, SocketReadable(e, i)
  PROVE  TypeOK'
<1> DEFINE s == sock[e][i]
           q == ch[Other(e)]
           data(r) == [n \in 1..r.got |-> <<i, sent[e][i] + n>>]
           enqueue(r) == r.got > 0 /\ s.peer # 0
           q1(r) == IF enqueue(r)
                    THEN send_packet(q, Pkt("WRTE", i, s.peer, data(r)))
                    ELSE q
           s1(r) == [s EXCEPT !.rd = ~enqueue(r)]
<1>1. PICK r \in ReadLoop(MaxPayload) :
          /\ sent[e][i] + r.got <= MaxUnits
          /\ sent' = [sent EXCEPT ![e][i] = IF enqueue(r) THEN @ + r.got ELSE @]
          /\ sock' = [sock EXCEPT ![e][i] =
                         IF r.is_eof THEN local_socket_close_locked(s1(r), FALSE)
                                     ELSE s1(r)]
          /\ ch' = [ch EXCEPT ![Other(e)] =
                       IF r.is_eof THEN remote_socket_shutdown(q1(r), i, s)
                                   ELSE q1(r)]
  BY Zenon DEF SocketReadable
<1>2. r.got \in 0..MaxPayload /\ r.is_eof \in BOOLEAN
  BY <1>1 DEF ReadLoop
<1>3. /\ s \in Asocket /\ s.peer \in 0..MaxId /\ sent[e][i] \in 0..MaxUnits
      /\ q \in Seq(Packet) /\ Other(e) \in End /\ i \in 0..MaxId
  BY OtherType, ZeroId DEF TypeOK, Asocket
<1>4. sent' \in [End -> [Ids -> 0..MaxUnits]]
  <2>1. (IF enqueue(r) THEN sent[e][i] + r.got ELSE sent[e][i]) \in 0..MaxUnits
    BY <1>1, <1>2, <1>3, BoundsAssumption
  <2> QED BY <1>1, <2>1, Update, Zenon DEF TypeOK
<1>5. data(r) \in Payload
  <2>1. \A n \in 1..r.got : <<i, sent[e][i] + n>> \in Unit
    BY <1>1, <1>2, <1>3, BoundsAssumption, SMTT(60) DEF Unit
  <2>2. data(r) \in Seq(Unit) /\ Len(data(r)) = r.got
    BY <1>2, <2>1
  <2> QED BY <1>2, <2>2 DEF Payload
<1>6. q1(r) \in Seq(Packet)
  BY <1>3, <1>5, PktType, SendType DEF Command
<1>7. s1(r) \in Asocket
  BY <1>3 DEF Asocket
<1> HIDE DEF q1, s1, s, q
<1>8. local_socket_close_locked(s1(r), FALSE) \in Asocket
  BY <1>7, CloseType, Zenon
<1>9. sock' \in [End -> [Ids -> Asocket]]
  <2>1. (IF r.is_eof THEN local_socket_close_locked(s1(r), FALSE)
                     ELSE s1(r)) \in Asocket
    BY <1>7, <1>8, Zenon
  <2> QED BY <1>1, <2>1, Update, Zenon DEF TypeOK
<1>10. ch' \in [End -> Seq(Packet)]
  BY <1>1, <1>3, <1>6, ShutdownType DEF TypeOK
<1> QED BY <1>4, <1>9, <1>10 DEF SocketReadable, TypeOK

LEMMA DrainedType ==
  ASSUME TypeOK, NEW e \in End, NEW i \in Ids, SocketDrained(e, i)
  PROVE  TypeOK'
<1> DEFINE s == sock[e][i]
<1>1. /\ s \in Asocket /\ s.peer \in 0..MaxId /\ s.pkts \in Seq(Unit)
      /\ ch[Other(e)] \in Seq(Packet) /\ Other(e) \in End /\ i \in 0..MaxId
      /\ out[e][i] \o s.pkts \in Seq(Unit)
  BY OtherType, ZeroId DEF TypeOK, Asocket
<1>2. out' \in [End -> [Ids -> Seq(Unit)]]
  BY <1>1, Update, Zenon DEF SocketDrained, TypeOK
<1>3. [s EXCEPT !.pkts = <<>>, !.wr = FALSE] \in Asocket
  <2>1. <<>> \in Seq(Unit)
    OBVIOUS
  <2> QED BY <1>1, <2>1, QueueType, Zenon
<1>4. local_socket_destroy \in Asocket
  BY ZeroId, IdleType, Zenon DEF local_socket_destroy
<1>5. sock' \in [End -> [Ids -> Asocket]]
  <2>1. (IF s.st = "closing" THEN local_socket_destroy
                             ELSE [s EXCEPT !.pkts = <<>>, !.wr = FALSE]) \in Asocket
    BY <1>3, <1>4, Zenon
  <2> QED BY <2>1, Update, Zenon DEF SocketDrained, TypeOK
<1>6. ch' \in [End -> Seq(Packet)]
  BY <1>1, ReadySendType DEF SocketDrained, TypeOK
<1> QED BY <1>2, <1>5, <1>6 DEF SocketDrained, TypeOK

LEMMA BlockedType ==
  ASSUME TypeOK, NEW e \in End, NEW i \in Ids, NEW err \in BOOLEAN,
         SocketBlocked(e, i, err)
  PROVE  TypeOK'
<1> DEFINE s == sock[e][i]
           n == Len(s.pkts)
           s1(k) == [s EXCEPT !.pkts = SubSeq(s.pkts, k + 1, n)]
<1>1. /\ s \in Asocket /\ s.pkts \in Seq(Unit) /\ n \in Nat
      /\ ch[Other(e)] \in Seq(Packet) /\ Other(e) \in End
      /\ out[e][i] \in Seq(Unit)
  BY OtherType DEF TypeOK, Asocket
<1>2. PICK k \in 0..n :
          /\ out' = [out EXCEPT ![e][i] = @ \o SubSeq(s.pkts, 1, k)]
          /\ sock' = [sock EXCEPT ![e][i] =
                         IF err THEN local_socket_close_locked(s1(k), FALSE)
                                ELSE s1(k)]
  BY Zenon DEF SocketBlocked
<1>3. /\ out[e][i] \o SubSeq(s.pkts, 1, k) \in Seq(Unit)
      /\ SubSeq(s.pkts, k + 1, n) \in Seq(Unit)
  BY <1>1
<1>4. out' \in [End -> [Ids -> Seq(Unit)]]
  BY <1>2, <1>3, Update, Zenon DEF TypeOK
<1>5. s1(k) \in Asocket
  BY <1>1, <1>3, QueueType
<1> HIDE DEF s1
<1>6. sock' \in [End -> [Ids -> Asocket]]
  <2>1. (IF err THEN local_socket_close_locked(s1(k), FALSE) ELSE s1(k)) \in Asocket
    BY <1>5, CloseType, Zenon
  <2> QED BY <1>2, <2>1, Update, Zenon DEF TypeOK
<1>7. ch' \in [End -> Seq(Packet)]
  BY <1>1, ShutdownType DEF SocketBlocked, TypeOK
<1>8. broken' \in [End -> SUBSET Ids]
  BY SMTT(60), ZenonT(60) DEF SocketBlocked, TypeOK
<1> QED BY <1>4, <1>6, <1>7, <1>8 DEF SocketBlocked, TypeOK

LEMMA StaleType ==
  ASSUME TypeOK, NEW e \in End, NEW i \in Ids, NEW eof \in BOOLEAN,
         StaleReadable(e, i, eof)
  PROVE  TypeOK'
<1> DEFINE s == sock[e][i]
<1>1. s \in Asocket
  BY DEF TypeOK
<1>2. [s EXCEPT !.stale = FALSE] \in Asocket
  BY <1>1 DEF Asocket
<1>3. (IF eof THEN local_socket_close_locked(s, FALSE)
              ELSE [s EXCEPT !.stale = FALSE]) \in Asocket
  BY <1>1, <1>2, CloseType, Zenon
<1>4. sock' \in [End -> [Ids -> Asocket]]
  BY <1>3, Update, Zenon DEF StaleReadable, TypeOK
<1> QED BY <1>4 DEF StaleReadable, TypeOK

LEMMA LinkDownType ==
  ASSUME TypeOK, LinkDown
  PROVE  TypeOK'
<1> DEFINE sync == Pkt("SYNC", 0, 0, <<>>)
<1>1. sync \in Packet
  BY ZeroId, PktType, EmptyPayload DEF Command
<1>2. PICK k \in [End -> Nat] :
         /\ \A e \in End : k[e] \in 0..Len(ch[e])
         /\ ch' = [e \in End |-> Append(SubSeq(ch[e], 1, k[e]), sync)]
  <2>1. PICK host \in 0..Len(ch["host"]), device \in 0..Len(ch["device"]) :
           ch' = [e \in End |->
                    Append(SubSeq(ch[e], 1, IF e = "host" THEN host ELSE device),
                           sync)]
    BY Zenon DEF LinkDown
  <2> HIDE DEF sync
  <2> DEFINE k == [e \in End |-> IF e = "host" THEN host ELSE device]
  <2>2. k \in [End -> Nat] /\ \A e \in End : k[e] \in 0..Len(ch[e])
    BY DEF TypeOK, End
  <2>3. ch' = [e \in End |-> Append(SubSeq(ch[e], 1, k[e]), sync)]
    BY <2>1
  <2> QED BY <2>2, <2>3, Zenon
<1> HIDE DEF sync
<1>3. \A e \in End : Append(SubSeq(ch[e], 1, k[e]), sync) \in Seq(Packet)
  BY <1>1, <1>2 DEF TypeOK
<1>4. ch' \in [End -> Seq(Packet)]
  BY <1>2, <1>3
<1> QED BY <1>4 DEF LinkDown, TypeOK

LEMMA CloseAllType ==
  ASSUME TypeOK, NEW e \in End, CloseAllSockets(e)
  PROVE  TypeOK'
<1>1. \A i \in Ids : local_socket_close_locked(sock[e][i], FALSE) \in Asocket
  BY CloseType, ZenonT(60) DEF TypeOK
<1>2. sock' \in [End -> [Ids -> Asocket]]
  BY <1>1 DEF CloseAllSockets, TypeOK
<1> QED BY <1>2 DEF CloseAllSockets, TypeOK

LEMMA TypeStep == TypeOK /\ [Next]_vars => TypeOK'
<1> SUFFICES ASSUME TypeOK, [Next]_vars PROVE TypeOK'
  OBVIOUS
<1>1. CASE UNCHANGED vars
  BY <1>1 DEF vars, TypeOK
<1>2. CASE LinkDown
  BY <1>2, LinkDownType
<1>3. ASSUME NEW e \in End, HandlePacket(e) PROVE TypeOK'
  BY <1>3, OpenType, OkayType, ClseType, WrteType, SyncType DEF HandlePacket
<1>4. ASSUME NEW e \in End, NEW i \in Ids, SocketEvent(e, i) PROVE TypeOK'
  BY <1>4, ReadableType, DrainedType, BlockedType, StaleType DEF SocketEvent
<1>5. ASSUME NEW e \in End,
             \/ ListenerConnect(e)
             \/ \E eof \in BOOLEAN : SmartConnect(e, eof)
             \/ CloseAllSockets(e)
      PROVE  TypeOK'
  BY <1>5, ConnectType, CloseAllType
<1> QED BY <1>1, <1>2, <1>3, <1>4, <1>5 DEF Next

\* Every reachable state of the two event loops, the channel between them and
\* the descriptors is well typed: ids stay in range and no packet that
\* local_socket_event_func() builds outgrows MAX_PAYLOAD.
THEOREM TypeCorrect == Spec => []TypeOK
  BY InitType, TypeStep, PTL DEF Spec

-----------------------------------------------------------------------------
(* Flow control.  WindowOfOne is not inductive alone.  An id that is not   *)
(* handed out yet must have no permission anywhere (else the OPEN that     *)
(* first uses it would be the second one), and a socket that waits to      *)
(* write must have something to write (else SocketDrained would invent an  *)
(* OKAY).                                                                  *)

AtMostOne(S) == \A a, b \in S : a = b

\* WindowOfOne for one socket, as relations between the four places.
Single(rd, uses, held, back) ==
    /\ AtMostOne(uses) /\ AtMostOne(held) /\ AtMostOne(back)
    /\ rd => uses = {} /\ held = {} /\ back = {}
    /\ uses # {} => held = {} /\ back = {}
    /\ held # {} => back = {}

Empty(rd, uses, held, back) ==
    rd = FALSE /\ uses = {} /\ held = {} /\ back = {}

One(e, i) == Single(sock[e][i].rd, Uses(ch[Other(e)], i),
                    Holders(sock[Other(e)], i), Returns(ch[e], i))

Quiet(e, i) == Empty(sock[e][i].rd, Uses(ch[Other(e)], i),
                     Holders(sock[Other(e)], i), Returns(ch[e], i))

\* A socket that waits to write has something to write, a peer to resume, and
\* no more than one packet.
QueueOK(s) ==
    /\ s.st = "open" => /\ s.wr => s.pkts # <<>>
                        /\ s.pkts # <<>> => s.peer # 0
    /\ Len(s.pkts) <= MaxPayload

QueueInv == \A e \in End, i \in Ids : QueueOK(sock[e][i])

WindowInv ==
    /\ TypeOK
    /\ QueueInv
    /\ \A e \in End, i \in Ids :
          One(e, i) /\ (i >= next_id[e] => Quiet(e, i))

\* A step gives socket i of end e no permission that it had not.
Keeps(e, i) ==
    /\ One(e, i) => Single(sock'[e][i].rd, Uses(ch'[Other(e)], i),
                           Holders(sock'[Other(e)], i), Returns(ch'[e], i))
    /\ Quiet(e, i) => Empty(sock'[e][i].rd, Uses(ch'[Other(e)], i),
                            Holders(sock'[Other(e)], i), Returns(ch'[e], i))

\* After a step, WindowInv's last conjunct holds of socket i of end e.
After(e, i) ==
    LET single == Single(sock'[e][i].rd, Uses(ch'[Other(e)], i),
                         Holders(sock'[Other(e)], i), Returns(ch'[e], i))
        empty == Empty(sock'[e][i].rd, Uses(ch'[Other(e)], i),
                       Holders(sock'[Other(e)], i), Returns(ch'[e], i))
    IN  single /\ (i >= next_id'[e] => empty)

LEMMA OneIsWindow ==
  ASSUME NEW e \in End, NEW i \in Ids, One(e, i)
  PROVE  \A a, b \in Credits(e, i) : a = b
<1> DEFINE uses == Uses(ch[Other(e)], i)
           held == Holders(sock[Other(e)], i)
           back == Returns(ch[e], i)
<1>1. ASSUME NEW a \in Credits(e, i)
      PROVE  \/ a = <<"read", 0>> /\ sock[e][i].rd
             \/ \E n \in uses : a = <<"sent", n>>
             \/ \E n \in held : a = <<"held", n>>
             \/ \E n \in back : a = <<"back", n>>
  BY DEF Credits
<1>2. /\ AtMostOne(uses) /\ AtMostOne(held) /\ AtMostOne(back)
      /\ sock[e][i].rd => uses = {} /\ held = {} /\ back = {}
      /\ uses # {} => held = {} /\ back = {}
      /\ held # {} => back = {}
  BY Zenon DEF One, Single
<1> HIDE DEF uses, held, back
<1> QED BY <1>1, <1>2, Zenon DEF AtMostOne

-----------------------------------------------------------------------------
(* What sending and receiving do to the places. *)

LEMMA AppendPlaces ==
  ASSUME NEW q \in Seq(Packet), NEW p \in Packet, NEW i \in Ids
  PROVE  /\ ~(p.cmd \in {"OPEN", "WRTE"} /\ p.arg0 = i)
              => Uses(Append(q, p), i) = Uses(q, i)
         /\ Uses(q, i) = {} => AtMostOne(Uses(Append(q, p), i))
         /\ ~(p.cmd = "OKAY" /\ p.arg1 = i)
              => Returns(Append(q, p), i) = Returns(q, i)
         /\ Returns(q, i) = {} => AtMostOne(Returns(Append(q, p), i))
<1>1. /\ Len(q) \in Nat
      /\ DOMAIN q = 1..Len(q)
      /\ DOMAIN Append(q, p) = 1..(Len(q) + 1)
      /\ \A n \in 1..Len(q) : Append(q, p)[n] = q[n]
      /\ Append(q, p)[Len(q) + 1] = p
  OBVIOUS
<1> DEFINE a == Append(q, p)
<1> HIDE DEF a
<1> QED BY <1>1 DEF Uses, Returns, AtMostOne, a

LEMMA TailPlaces ==
  ASSUME NEW q \in Seq(Packet), q # <<>>, NEW i \in Ids
  PROVE  /\ Uses(q, i) = {} => Uses(Tail(q), i) = {}
         /\ AtMostOne(Uses(q, i)) => AtMostOne(Uses(Tail(q), i))
         /\ (AtMostOne(Uses(q, i)) /\ Head(q).cmd \in {"OPEN", "WRTE"}
                /\ Head(q).arg0 = i) => Uses(Tail(q), i) = {}
         /\ (Head(q).cmd \in {"OPEN", "WRTE"} /\ Head(q).arg0 = i)
                => Uses(q, i) # {}
         /\ Returns(q, i) = {} => Returns(Tail(q), i) = {}
         /\ AtMostOne(Returns(q, i)) => AtMostOne(Returns(Tail(q), i))
         /\ (AtMostOne(Returns(q, i)) /\ Head(q).cmd = "OKAY"
                /\ Head(q).arg1 = i) => Returns(Tail(q), i) = {}
         /\ (Head(q).cmd = "OKAY" /\ Head(q).arg1 = i)
                => Returns(q, i) # {}
<1>1. /\ Len(q) \in Nat \ {0}
      /\ DOMAIN q = 1..Len(q)
      /\ DOMAIN Tail(q) = 1..(Len(q) - 1)
      /\ \A n \in 1..(Len(q) - 1) : Tail(q)[n] = q[n + 1]
      /\ Head(q) = q[1]
  OBVIOUS
<1> DEFINE t == Tail(q)
           h == Head(q)
<1> HIDE DEF t, h
<1>2. \A n \in DOMAIN t : n \in Nat /\ n + 1 \in DOMAIN q /\ t[n] = q[n + 1] /\ n + 1 # 1
  BY <1>1 DEF t
<1>3. 1 \in DOMAIN q /\ h = q[1]
  BY <1>1 DEF h
<1>4. \A n \in DOMAIN t, m \in DOMAIN t : n + 1 = m + 1 => n = m
  BY <1>2
<1>5. \A n \in Uses(t, i) : n + 1 \in Uses(q, i) /\ n + 1 # 1 /\ n \in DOMAIN t
  BY <1>2 DEF Uses
<1>6. \A n \in Returns(t, i) : n + 1 \in Returns(q, i) /\ n + 1 # 1 /\ n \in DOMAIN t
  BY <1>2 DEF Returns
<1>7. (h.cmd \in {"OPEN", "WRTE"} /\ h.arg0 = i) => 1 \in Uses(q, i)
  BY <1>3 DEF Uses
<1>8. (h.cmd = "OKAY" /\ h.arg1 = i) => 1 \in Returns(q, i)
  BY <1>3 DEF Returns
<1> QED BY <1>4, <1>5, <1>6, <1>7, <1>8, Zenon DEF AtMostOne, t, h

LEMMA PrefixPlaces ==
  ASSUME NEW q \in Seq(Packet), NEW k \in 0..Len(q), NEW i \in Ids
  PROVE  /\ Uses(SubSeq(q, 1, k), i) \subseteq Uses(q, i)
         /\ Returns(SubSeq(q, 1, k), i) \subseteq Returns(q, i)
<1>1. /\ DOMAIN SubSeq(q, 1, k) = 1..k
      /\ DOMAIN q = 1..Len(q)
      /\ \A n \in 1..k : SubSeq(q, 1, k)[n] = q[n] /\ n \in 1..Len(q)
  OBVIOUS
<1> DEFINE u == SubSeq(q, 1, k)
<1> HIDE DEF u
<1> QED BY <1>1 DEF Uses, Returns, u

-----------------------------------------------------------------------------
(* What the operations on one socket do to its fields. *)

LEMMA CloseFields ==
  ASSUME NEW s \in Asocket, NEW stale \in BOOLEAN
  PROVE  LET c == local_socket_close_locked(s, stale) IN
         /\ c.rd = FALSE /\ c.st # "open"
         /\ c.pkts = <<>> \/ c.pkts = s.pkts
<1> DEFINE c == [s EXCEPT !.st = "closing", !.peer = 0, !.rd = FALSE, !.stale = stale]
<1>1. /\ local_socket_destroy.rd = FALSE /\ local_socket_destroy.st # "open"
      /\ local_socket_destroy.pkts = <<>>
  BY DEF local_socket_destroy, Idle
<1>2. c.rd = FALSE /\ c.st # "open" /\ c.pkts = s.pkts
  BY DEF Asocket
<1> HIDE DEF c
<1>3. local_socket_close_locked(s, stale) = local_socket_destroy
      \/ local_socket_close_locked(s, stale) = c
  BY Zenon DEF local_socket_close_locked, c
<1> QED BY <1>1, <1>2, <1>3, Zenon

LEMMA ReadyFields ==
  ASSUME NEW s \in Asocket, NEW p \in 0..MaxId
  PROVE  LET r == local_socket_ready(s, p) IN
         /\ r.st = s.st /\ r.peer = p /\ r.rd = TRUE
         /\ r.wr = s.wr /\ r.pkts = s.pkts
  BY DEF local_socket_ready, Asocket

LEMMA SuffixLength ==
  ASSUME NEW d \in Seq(Unit), NEW k \in Nat, k < Len(d)
  PROVE  /\ SubSeq(d, k + 1, Len(d)) # <<>>
         /\ Len(SubSeq(d, k + 1, Len(d))) \in Nat
         /\ Len(SubSeq(d, k + 1, Len(d))) <= Len(d)
<1>1. Len(d) \in Nat
  OBVIOUS
<1>2. Len(SubSeq(d, k + 1, Len(d))) = Len(d) - k
  BY <1>1
<1> DEFINE u == SubSeq(d, k + 1, Len(d))
<1> HIDE DEF u
<1>3. u = <<>> => Len(u) = 0
  OBVIOUS
<1> QED BY <1>1, <1>2, <1>3 DEF u

-----------------------------------------------------------------------------
(* What a change of one socket does to the sockets that hold data. *)

\* s, at either end, holds data from socket k of the other end.
Holds(s, k) == s.st = "open" /\ s.peer = k /\ s.pkts # <<>>

LEMMA HoldersDef ==
  ASSUME NEW socks, NEW k, NEW j
  PROVE  j \in Holders(socks, k) <=> j \in Ids /\ Holds(socks[j], k)
  BY DEF Holders, Holds

\* A step that only takes permissions away.
LEMMA Shrinks ==
  ASSUME NEW e \in End, NEW i \in Ids,
         sock[e][i].rd \in BOOLEAN, sock'[e][i].rd \in BOOLEAN,
         sock'[e][i].rd => sock[e][i].rd,
         Uses(ch[Other(e)], i) = {} => Uses(ch'[Other(e)], i) = {},
         AtMostOne(Uses(ch[Other(e)], i)) => AtMostOne(Uses(ch'[Other(e)], i)),
         Holders(sock'[Other(e)], i) \subseteq Holders(sock[Other(e)], i),
         Returns(ch[e], i) = {} => Returns(ch'[e], i) = {},
         AtMostOne(Returns(ch[e], i)) => AtMostOne(Returns(ch'[e], i))
  PROVE  Keeps(e, i)
<1>1. /\ Holders(sock[Other(e)], i) = {} => Holders(sock'[Other(e)], i) = {}
      /\ AtMostOne(Holders(sock[Other(e)], i))
            => AtMostOne(Holders(sock'[Other(e)], i))
  BY Zenon DEF AtMostOne
<1>2. sock[e][i].rd = FALSE => sock'[e][i].rd = FALSE
  OBVIOUS
<1> QED BY <1>1, <1>2, Zenon DEF Keeps, One, Quiet, Single, Empty

LEMMA ClosePlaces ==
  ASSUME NEW q \in Seq(Packet), NEW a \in 0..MaxId, NEW b \in 0..MaxId,
         NEW i \in Ids
  PROVE  /\ Uses(send_close(q, a, b), i) = Uses(q, i)
         /\ Returns(send_close(q, a, b), i) = Returns(q, i)
<1> DEFINE p == Pkt("CLSE", a, b, <<>>)
<1>1. p \in Packet /\ p.cmd = "CLSE"
  BY PktType, EmptyPayload DEF Command, Pkt
<1>2. send_close(q, a, b) = q \/ send_close(q, a, b) = Append(q, p)
  BY Zenon DEF send_close, send_packet
<1> HIDE DEF p
<1> QED BY <1>1, <1>2, AppendPlaces

LEMMA ShutdownPlaces ==
  ASSUME NEW q \in Seq(Packet), NEW j \in Ids, NEW s \in Asocket, NEW i \in Ids
  PROVE  /\ Uses(remote_socket_shutdown(q, j, s), i) = Uses(q, i)
         /\ Returns(remote_socket_shutdown(q, j, s), i) = Returns(q, i)
<1>1. s.peer \in 0..MaxId /\ j \in 0..MaxId
  BY ZeroId DEF Asocket
<1> QED BY <1>1, ClosePlaces, Zenon DEF remote_socket_shutdown

LEMMA ReadyPlaces ==
  ASSUME NEW q \in Seq(Packet), NEW a \in 0..MaxId, NEW b \in 0..MaxId,
         NEW i \in Ids
  PROVE  /\ Uses(send_ready(q, a, b), i) = Uses(q, i)
         /\ i # b => Returns(send_ready(q, a, b), i) = Returns(q, i)
         /\ Returns(q, i) = {} => AtMostOne(Returns(send_ready(q, a, b), i))
<1> DEFINE p == Pkt("OKAY", a, b, <<>>)
<1>1. p \in Packet /\ p.cmd = "OKAY" /\ p.arg1 = b
  BY PktType, EmptyPayload DEF Command, Pkt
<1>2. send_ready(q, a, b) = q \/ send_ready(q, a, b) = Append(q, p)
  BY Zenon DEF send_ready, send_packet
<1> HIDE DEF p
<1>3. Returns(q, i) = {} => AtMostOne(Returns(q, i))
  BY DEF AtMostOne
<1> QED BY <1>1, <1>2, <1>3, AppendPlaces

-----------------------------------------------------------------------------
(* The handlers. *)

LEMMA BothEnds == \A e, f \in End : f = e \/ (f = Other(e) /\ Other(f) = e)
  BY DEF End, Other

\* End e takes a packet, or none, from its channel.
LEMMA TakePlaces ==
  ASSUME TypeOK, NEW e \in End, NEW k \in Ids,
         ch'[e] = ch[e] \/ (ch[e] # <<>> /\ ch'[e] = Tail(ch[e]))
  PROVE  /\ Uses(ch[e], k) = {} => Uses(ch'[e], k) = {}
         /\ AtMostOne(Uses(ch[e], k)) => AtMostOne(Uses(ch'[e], k))
         /\ Returns(ch[e], k) = {} => Returns(ch'[e], k) = {}
         /\ AtMostOne(Returns(ch[e], k)) => AtMostOne(Returns(ch'[e], k))
<1>1. ch[e] \in Seq(Packet)
  BY DEF TypeOK
<1> QED BY <1>1, TailPlaces, Zenon

\* A step of end e that gives its own socket k nothing, ...
LEMMA OwnKeeps ==
  ASSUME TypeOK, NEW e \in End, NEW k \in Ids,
         ch'[e] = ch[e] \/ (ch[e] # <<>> /\ ch'[e] = Tail(ch[e])),
         Uses(ch'[Other(e)], k) = Uses(ch[Other(e)], k),
         sock'[e][k].rd \in BOOLEAN, sock'[e][k].rd => sock[e][k].rd,
         sock'[Other(e)] = sock[Other(e)]
  PROVE  Keeps(e, k)
<1>1. sock[e][k].rd \in BOOLEAN
  BY DEF TypeOK, Asocket
<1>2. /\ Returns(ch[e], k) = {} => Returns(ch'[e], k) = {}
      /\ AtMostOne(Returns(ch[e], k)) => AtMostOne(Returns(ch'[e], k))
  BY TakePlaces
<1> QED BY <1>1, <1>2, Shrinks

\* ... and one that gives socket k of the other end nothing.
LEMMA PeerKeeps ==
  ASSUME TypeOK, NEW e \in End, NEW k \in Ids,
         ch'[e] = ch[e] \/ (ch[e] # <<>> /\ ch'[e] = Tail(ch[e])),
         Returns(ch'[Other(e)], k) = Returns(ch[Other(e)], k),
         Holders(sock'[e], k) \subseteq Holders(sock[e], k),
         sock'[Other(e)] = sock[Other(e)]
  PROVE  Keeps(Other(e), k)
<1>1. sock[Other(e)][k].rd \in BOOLEAN /\ Other(e) \in End /\ Other(Other(e)) = e
  BY OtherType DEF TypeOK, Asocket
<1>2. /\ Uses(ch[e], k) = {} => Uses(ch'[e], k) = {}
      /\ AtMostOne(Uses(ch[e], k)) => AtMostOne(Uses(ch'[e], k))
  BY TakePlaces
<1> QED BY <1>1, <1>2, Shrinks

LEMMA StepKeeps ==
  ASSUME TypeOK, NEW e \in End,
         ch'[e] = ch[e] \/ (ch[e] # <<>> /\ ch'[e] = Tail(ch[e])),
         \A k \in Ids : /\ Uses(ch'[Other(e)], k) = Uses(ch[Other(e)], k)
                        /\ Returns(ch'[Other(e)], k) = Returns(ch[Other(e)], k),
         \A k \in Ids : /\ sock'[e][k].rd \in BOOLEAN
                        /\ sock'[e][k].rd => sock[e][k].rd
                        /\ Holders(sock'[e], k) \subseteq Holders(sock[e], k),
         sock'[Other(e)] = sock[Other(e)]
  PROVE  \A f \in End, k \in Ids : Keeps(f, k)
<1> TAKE f \in End, k \in Ids
<1>1. Keeps(e, k)
  BY OwnKeeps
<1>2. Keeps(Other(e), k)
  BY PeerKeeps
<1> QED BY <1>1, <1>2, BothEnds

\* One socket changes.
LEMMA SocketStep ==
  ASSUME TypeOK, NEW e \in End, NEW s \in Ids, NEW x \in Asocket,
         sock' = [sock EXCEPT ![e][s] = x]
  PROVE  /\ sock'[Other(e)] = sock[Other(e)]
         /\ sock'[e] = [sock[e] EXCEPT ![s] = x]
         /\ sock'[e][s] = x
         /\ \A k \in Ids : k # s => sock'[e][k] = sock[e][k]
         /\ \A k \in Ids : sock'[e][k].rd \in BOOLEAN
         /\ sock[e] \in [Ids -> Asocket] /\ sock[e][s] \in Asocket
         /\ \A k \in Ids : /\ (Holds(x, k) => Holds(sock[e][s], k))
                                => Holders(sock'[e], k) \subseteq Holders(sock[e], k)
                           /\ Holders(sock[e], k) = {}
                                => AtMostOne(Holders(sock'[e], k))
<1>1. /\ sock'[Other(e)] = sock[Other(e)]
      /\ sock'[e] = [sock[e] EXCEPT ![s] = x]
      /\ sock'[e][s] = x
      /\ \A k \in Ids : k # s => sock'[e][k] = sock[e][k]
      /\ sock[e] \in [Ids -> Asocket] /\ sock[e][s] \in Asocket
  BY OtherType DEF TypeOK
<1>2. \A k \in Ids : sock'[e][k] \in Asocket
  BY <1>1
<1>3. \A k \in Ids : sock'[e][k].rd \in BOOLEAN
  BY <1>2 DEF Asocket
<1>4. \A k \in Ids : /\ (Holds(x, k) => Holds(sock[e][s], k))
                          => Holders(sock'[e], k) \subseteq Holders(sock[e], k)
                     /\ Holders(sock[e], k) = {}
                          => AtMostOne(Holders(sock'[e], k))
  <2> TAKE k \in Ids
  <2>1. /\ sock'[e][s] = x
        /\ \A j \in Ids : j # s => sock'[e][j] = sock[e][j]
    BY <1>1
  <2>2. \A j : /\ j \in Holders(sock'[e], k) <=> j \in Ids /\ Holds(sock'[e][j], k)
               /\ j \in Holders(sock[e], k) <=> j \in Ids /\ Holds(sock[e][j], k)
    BY HoldersDef
  <2> QED BY <2>1, <2>2, Zenon DEF AtMostOne
<1> QED BY <1>1, <1>3, <1>4, Zenon

LEMMA QueueStep ==
  ASSUME TypeOK, QueueInv, NEW e \in End, NEW s \in Ids, NEW x \in Asocket,
         sock' = [sock EXCEPT ![e][s] = x], QueueOK(x)
  PROVE  QueueInv'
<1>1. \A f \in End, k \in Ids : sock'[f][k] = x \/ sock'[f][k] = sock[f][k]
  BY SocketStep, BothEnds
<1>2. \A f \in End, k \in Ids : QueueOK(sock'[f][k])
  BY <1>1, Zenon DEF QueueInv
<1> QED BY <1>2 DEF QueueInv, QueueOK

\* Closing a socket.
LEMMA CloseStep ==
  ASSUME TypeOK, QueueInv, NEW e \in End, NEW s \in Ids, NEW t \in Asocket,
         Len(t.pkts) <= MaxPayload, NEW stale \in BOOLEAN,
         sock' = [sock EXCEPT ![e][s] = local_socket_close_locked(t, stale)]
  PROVE  /\ QueueInv'
         /\ sock'[Other(e)] = sock[Other(e)]
         /\ \A k \in Ids : /\ sock'[e][k].rd \in BOOLEAN
                           /\ sock'[e][k].rd => sock[e][k].rd
                           /\ Holders(sock'[e], k) \subseteq Holders(sock[e], k)
<1> DEFINE x == local_socket_close_locked(t, stale)
<1>1. x \in Asocket /\ x.rd = FALSE /\ x.st # "open"
      /\ (x.pkts = <<>> \/ x.pkts = t.pkts)
  BY CloseType, CloseFields
<1>2. Len(<<>>) <= MaxPayload
  BY BoundsAssumption
<1> HIDE DEF x
<1>3. sock' = [sock EXCEPT ![e][s] = x]
  BY DEF x
<1>4. QueueOK(x)
  BY <1>1, <1>2 DEF QueueOK
<1>5. QueueInv'
  BY <1>1, <1>3, <1>4, QueueStep
<1>6. \A k \in Ids : ~Holds(x, k)
  BY <1>1 DEF Holds
<1>7. /\ sock'[Other(e)] = sock[Other(e)]
      /\ sock'[e][s] = x
      /\ \A k \in Ids : k # s => sock'[e][k] = sock[e][k]
  BY <1>3, OtherType DEF TypeOK
<1>8. \A k \in Ids : sock[e][k].rd \in BOOLEAN
  BY DEF TypeOK, Asocket
<1>9. ASSUME NEW k \in Ids
      PROVE  Holders(sock'[e], k) \subseteq Holders(sock[e], k)
  BY <1>1, <1>3, <1>6, SocketStep
<1> QED BY <1>1, <1>5, <1>7, <1>8, <1>9, Zenon

LEMMA KeepsAfter ==
  ASSUME WindowInv, NEW e \in End, NEW i \in Ids, Keeps(e, i),
         next_id[e] \in Nat, next_id'[e] \in Nat, next_id'[e] >= next_id[e]
  PROVE  After(e, i)
<1>1. One(e, i) /\ (i >= next_id[e] => Quiet(e, i))
  BY DEF WindowInv
<1>2. i >= next_id'[e] => i >= next_id[e]
  BY DEF Ids
<1> QED BY <1>1, <1>2, Zenon DEF Keeps, After

\* A packet that matches no socket is dropped.
LEMMA DropStep ==
  ASSUME TypeOK, QueueInv, NEW e \in End, ch[e] # <<>>,
         ch' = [ch EXCEPT ![e] = Tail(@)], UNCHANGED sock
  PROVE  QueueInv' /\ \A f \in End, k \in Ids : Keeps(f, k)
<1>1. QueueInv'
  BY DEF QueueInv, QueueOK
<1>2. ch'[e] = Tail(ch[e]) /\ ch'[Other(e)] = ch[Other(e)]
  BY OtherType DEF TypeOK
<1>3. \A k \in Ids : sock[e][k].rd \in BOOLEAN
  BY DEF TypeOK, Asocket
<1>4. \A k \in Ids : /\ Uses(ch'[Other(e)], k) = Uses(ch[Other(e)], k)
                     /\ Returns(ch'[Other(e)], k) = Returns(ch[Other(e)], k)
  BY <1>2
<1> QED BY <1>1, <1>2, <1>3, <1>4, StepKeeps

LEMMA ClseWindow ==
  ASSUME WindowInv, NEW e \in End, HandleClse(e)
  PROVE  QueueInv' /\ \A f \in End, k \in Ids : Keeps(f, k)
<1> DEFINE p == Head(ch[e])
           s == find_local_socket(e, p.arg1, p.arg0)
<1>0. TypeOK /\ QueueInv
  BY DEF WindowInv
<1>1. ch[e] # <<>>
  BY DEF HandleClse, Arrives
<1>2. p.arg0 \in 0..MaxId /\ p.arg1 \in 0..MaxId
  BY <1>0, <1>1, HeadType
<1>3. CASE ch' = [ch EXCEPT ![e] = Tail(@)] /\ UNCHANGED <<sock, status>>
  BY <1>0, <1>1, <1>3, DropStep
<1>4. CASE /\ s # 0
           /\ \E stale \in MayBeStale(sock[e][s]) :
                 sock' = [sock EXCEPT ![e][s] =
                             local_socket_close_locked(@, stale)]
           /\ ch' = [ch EXCEPT ![e] = Tail(@),
                               ![Other(e)] =
                                  remote_socket_shutdown(@, s, sock[e][s])]
  <2>1. s \in Ids
    BY <1>2, <1>4, FindType, ZeroId
  <2> HIDE DEF s
  <2>2. sock[e][s] \in Asocket /\ Len(sock[e][s].pkts) <= MaxPayload
        /\ ch[Other(e)] \in Seq(Packet)
    BY <1>0, <2>1, OtherType DEF TypeOK, QueueInv, QueueOK
  <2>3. PICK stale \in BOOLEAN :
           sock' = [sock EXCEPT ![e][s] =
                       local_socket_close_locked(sock[e][s], stale)]
    BY <1>4, Zenon DEF MayBeStale
  <2>4. /\ QueueInv'
        /\ sock'[Other(e)] = sock[Other(e)]
        /\ \A k \in Ids : /\ sock'[e][k].rd \in BOOLEAN
                          /\ sock'[e][k].rd => sock[e][k].rd
                          /\ Holders(sock'[e], k) \subseteq Holders(sock[e], k)
    BY <1>0, <2>1, <2>2, <2>3, CloseStep
  <2>5. /\ ch'[e] = Tail(ch[e])
        /\ ch'[Other(e)] = remote_socket_shutdown(ch[Other(e)], s, sock[e][s])
    BY <1>0, <1>4, OtherType DEF TypeOK
  <2>6. \A k \in Ids : /\ Uses(ch'[Other(e)], k) = Uses(ch[Other(e)], k)
                       /\ Returns(ch'[Other(e)], k) = Returns(ch[Other(e)], k)
    BY <2>1, <2>2, <2>5, ShutdownPlaces
  <2> QED BY <1>0, <1>1, <2>4, <2>5, <2>6, StepKeeps
<1> QED BY <1>3, <1>4, Zenon DEF HandleClse

\* What find_local_socket() found.
LEMMA Found ==
  ASSUME TypeOK, NEW e \in End, NEW a \in 0..MaxId, NEW b \in 0..MaxId,
         find_local_socket(e, a, b) # 0
  PROVE  /\ find_local_socket(e, a, b) = a /\ a \in Ids
         /\ sock[e][a].st = "open"
         /\ b # 0 => sock[e][a].peer = b
  BY Zenon DEF find_local_socket

\* OKAY takes the permission from the channel to the socket.
LEMMA OkayWindow ==
  ASSUME WindowInv, NEW e \in End, HandleOkay(e)
  PROVE  QueueInv' /\ \A f \in End, k \in Ids : Keeps(f, k)
<1> DEFINE p == Head(ch[e])
           s == p.arg1
<1>0. TypeOK /\ QueueInv
  BY DEF WindowInv
<1>1. ch[e] # <<>> /\ p.cmd = "OKAY" /\ ch' = [ch EXCEPT ![e] = Tail(@)]
  BY DEF HandleOkay, Arrives
<1>2. ch[e] \in Seq(Packet) /\ p.arg0 \in 0..MaxId /\ p.arg1 \in 0..MaxId
      /\ 0 \in 0..MaxId
  BY <1>0, <1>1, HeadType, ZeroId
<1>3. CASE UNCHANGED <<sock, status>>
  BY <1>0, <1>1, <1>3, DropStep
<1>4. CASE /\ find_local_socket(e, p.arg1, 0) # 0
           /\ p.arg0 # 0
           /\ sock[e][find_local_socket(e, p.arg1, 0)].peer \in {0, p.arg0}
           /\ sock' = [sock EXCEPT ![e][find_local_socket(e, p.arg1, 0)] =
                          local_socket_ready(@, p.arg0)]
  <2>1. /\ s \in Ids /\ sock[e][s].st = "open"
        /\ find_local_socket(e, p.arg1, 0) = s
    BY <1>0, <1>2, <1>4, Found
  <2> DEFINE old == sock[e][s]
             x == local_socket_ready(old, p.arg0)
  <2>2. /\ old \in Asocket /\ old.peer \in {0, p.arg0} /\ QueueOK(old)
        /\ old.st = "open"
    BY <1>0, <1>4, <2>1 DEF TypeOK, QueueInv
  <2>3. /\ x \in Asocket /\ x.st = old.st /\ x.peer = p.arg0 /\ x.rd = TRUE
        /\ x.wr = old.wr /\ x.pkts = old.pkts
    BY <1>2, <2>2, ReadyType, ReadyFields
  <2>4. sock' = [sock EXCEPT ![e][s] = x]
    BY <1>4, <2>1
  <2> HIDE DEF x
  <2>5. QueueOK(x)
    BY <1>4, <2>2, <2>3 DEF QueueOK
  <2>6. QueueInv'
    BY <1>0, <2>1, <2>3, <2>4, <2>5, QueueStep
  <2>7. ASSUME NEW k \in Ids PROVE Holds(x, k) => Holds(old, k)
    BY <2>2, <2>3, ZeroId DEF Holds, QueueOK
  <2>8. ASSUME NEW k \in Ids
        PROVE  Holders(sock'[e], k) \subseteq Holders(sock[e], k)
    BY <1>0, <2>1, <2>3, <2>4, <2>7, SocketStep
  <2>9. /\ sock'[Other(e)] = sock[Other(e)] /\ sock'[e][s].rd = TRUE
        /\ \A k \in Ids : k # s => sock'[e][k].rd = sock[e][k].rd
        /\ ch'[e] = Tail(ch[e]) /\ ch'[Other(e)] = ch[Other(e)]
    BY <1>0, <1>1, <2>1, <2>3, <2>4, OtherType DEF TypeOK
  <2>10. \A f \in End, k \in Ids : sock[f][k].rd \in BOOLEAN
    BY <1>0 DEF TypeOK, Asocket
  <2>11. Keeps(e, s)
    <3>1. Returns(ch[e], s) # {}
          /\ (AtMostOne(Returns(ch[e], s)) => Returns(ch'[e], s) = {})
      BY <1>1, <1>2, <2>1, <2>9, TailPlaces
    <3>2. AtMostOne({})
      BY DEF AtMostOne
    <3> QED BY <2>9, <2>10, <3>1, <3>2, Zenon DEF Keeps, One, Quiet, Single, Empty
  <2>12. ASSUME NEW k \in Ids, k # s PROVE Keeps(e, k)
    BY <1>0, <1>1, <2>9, <2>10, <2>12, OwnKeeps
  <2>13. ASSUME NEW k \in Ids PROVE Keeps(Other(e), k)
    BY <1>0, <1>1, <2>8, <2>9, PeerKeeps
  <2> QED BY <2>6, <2>11, <2>12, <2>13, BothEnds
<1> QED BY <1>3, <1>4, Zenon DEF HandleOkay

\* A packet from socket j of the other end is taken: the permission was in the
\* channel and nowhere else.
LEMMA TakenUse ==
  ASSUME WindowInv, NEW e \in End, ch[e] # <<>>,
         Head(ch[e]).cmd \in {"OPEN", "WRTE"}, NEW j \in Ids,
         Head(ch[e]).arg0 = j
  PROVE  /\ Uses(ch[e], j) # {} /\ Uses(Tail(ch[e]), j) = {}
         /\ Holders(sock[e], j) = {} /\ Returns(ch[Other(e)], j) = {}
         /\ sock[Other(e)][j].rd = FALSE /\ ~Quiet(Other(e), j)
<1>1. ch[e] \in Seq(Packet) /\ Other(e) \in End /\ Other(Other(e)) = e
      /\ sock[Other(e)][j].rd \in BOOLEAN
  BY OtherType DEF WindowInv, TypeOK, Asocket
<1>2. One(Other(e), j)
  BY <1>1 DEF WindowInv
<1>3. /\ Uses(ch[e], j) # {}
      /\ AtMostOne(Uses(ch[e], j)) => Uses(Tail(ch[e]), j) = {}
  BY <1>1, TailPlaces
<1> QED BY <1>1, <1>2, <1>3, Zenon DEF One, Single, Quiet, Empty

\* WRTE takes the permission from the channel to OKAY or to the socket's queue.
LEMMA WrteWindow ==
  ASSUME WindowInv, NEW e \in End, HandleWrte(e)
  PROVE  QueueInv' /\ \A f \in End, k \in Ids : Keeps(f, k)
<1> DEFINE p == Head(ch[e])
           s == p.arg1
           j == p.arg0
           found == find_local_socket(e, p.arg1, p.arg0)
           answer(q, ret) ==
             CASE ret = "ready"   -> send_ready(q, found, p.arg0)
               [] ret = "error"   -> remote_socket_shutdown(q, found, sock[e][found])
               [] ret = "backlog" -> q
<1>0. TypeOK /\ QueueInv
  BY DEF WindowInv
<1>1. ch[e] # <<>> /\ p.cmd = "WRTE"
  BY DEF HandleWrte, Arrives
<1>2. /\ ch[e] \in Seq(Packet) /\ j \in 0..MaxId /\ s \in 0..MaxId
      /\ p.data \in Payload
  BY <1>0, <1>1, HeadType, ZeroId
<1>3. CASE ch' = [ch EXCEPT ![e] = Tail(@)] /\ UNCHANGED <<sock, out, broken>>
  BY <1>0, <1>1, <1>3, DropStep
<1>4. CASE /\ found # 0 /\ j # 0
           /\ \E r \in local_socket_enqueue(sock[e][found], p.data) :
                 /\ sock' = [sock EXCEPT ![e][found] = r.sock]
                 /\ ch' = [ch EXCEPT ![e] = Tail(@),
                                     ![Other(e)] = answer(@, r.ret)]
  <2>1. /\ s \in Ids /\ sock[e][s].st = "open" /\ sock[e][s].peer = j
        /\ found = s /\ j \in Ids
    <3>1. j \in Ids
      BY <1>2, <1>4 DEF Ids
    <3> QED BY <1>0, <1>2, <1>4, <3>1, Found
  <2> DEFINE old == sock[e][s]
  <2>2. /\ old \in Asocket /\ QueueOK(old) /\ ch[Other(e)] \in Seq(Packet)
        /\ s \in 0..MaxId
        /\ \A f \in End, k \in Ids : sock[f][k].rd \in BOOLEAN
    <3>1. QueueOK(old)
      BY <1>0, <2>1 DEF QueueInv
    <3>2. \A f \in End, k \in Ids : sock[f][k].rd \in BOOLEAN
      BY <1>0 DEF TypeOK, Asocket
    <3>3. old \in Asocket /\ ch[Other(e)] \in Seq(Packet) /\ s \in 0..MaxId
      BY <1>0, <1>2, <2>1, OtherType DEF TypeOK
    <3> QED BY <3>1, <3>2, <3>3, Zenon
  <2>3. /\ Uses(ch[e], j) # {} /\ Uses(Tail(ch[e]), j) = {}
        /\ Holders(sock[e], j) = {} /\ Returns(ch[Other(e)], j) = {}
        /\ sock[Other(e)][j].rd = FALSE /\ ~Quiet(Other(e), j)
    BY <1>1, <2>1, TakenUse
  <2>4. old.pkts = <<>>
    BY <2>1, <2>3, HoldersDef, ZenonT(60) DEF Holds
  <2> HIDE DEF found
  <2>5. PICK r \in local_socket_enqueue(old, p.data) :
           /\ sock' = [sock EXCEPT ![e][s] = r.sock]
           /\ ch' = [ch EXCEPT ![e] = Tail(@),
                               ![Other(e)] = answer(@, r.ret)]
    BY <1>4, <2>1
  <2>6. /\ r.wrote \in 0..Len(p.data)
        /\ \/ r.ret = "ready" /\ r.sock = old
           \/ /\ r.ret = "backlog" /\ r.wrote < Len(p.data)
              /\ r.sock = Backlog(old, p.data, r.wrote)
           \/ /\ r.ret = "error" /\ r.sock = local_socket_close_locked(old, FALSE)
    BY <1>2, <2>2, EnqueueCases
  <2>7. /\ ch'[e] = Tail(ch[e])
        /\ ch'[Other(e)] = answer(ch[Other(e)], r.ret)
    BY <1>0, <2>5, OtherType DEF TypeOK
  <2>8. AtMostOne({})
    BY DEF AtMostOne
  <2>9. CASE r.ret = "ready" /\ r.sock = old
    <3>1. ch'[Other(e)] = send_ready(ch[Other(e)], s, j)
      BY <2>1, <2>7, <2>9
    <3>2. sock' = sock
      BY <1>0, <2>1, <2>5, <2>9 DEF TypeOK
    <3>3. QueueInv'
      BY <1>0, <3>2 DEF QueueInv, QueueOK
    <3>4. \A k \in Ids : /\ Uses(ch'[Other(e)], k) = Uses(ch[Other(e)], k)
                         /\ k # j => Returns(ch'[Other(e)], k) = Returns(ch[Other(e)], k)
                         /\ Returns(ch[Other(e)], k) = {} => AtMostOne(Returns(ch'[Other(e)], k))
      BY <1>2, <2>2, <3>1, ReadyPlaces
    <3>5. ASSUME NEW k \in Ids PROVE Keeps(e, k)
      BY <1>0, <1>1, <2>2, <2>7, <3>2, <3>4, OwnKeeps
    <3>6. ASSUME NEW k \in Ids, k # j PROVE Keeps(Other(e), k)
      BY <1>0, <1>1, <2>7, <3>2, <3>4, <3>6, PeerKeeps
    <3>7. Keeps(Other(e), j)
      <4>1. /\ Uses(ch'[Other(Other(e))], j) = {}
            /\ Holders(sock'[Other(Other(e))], j) = {}
            /\ AtMostOne(Returns(ch'[Other(e)], j)) /\ sock'[Other(e)][j].rd = FALSE
        BY <2>1, <2>3, <2>7, <3>2, <3>4, OtherType
      <4> QED BY <2>3, <2>8, <4>1, Zenon DEF Keeps, Single
    <3> QED BY <3>3, <3>5, <3>6, <3>7, BothEnds
  <2>10. CASE /\ r.ret = "backlog" /\ r.wrote < Len(p.data)
              /\ r.sock = Backlog(old, p.data, r.wrote)
    <3> DEFINE x == Backlog(old, p.data, r.wrote)
    <3>1. ch'[Other(e)] = ch[Other(e)]
      BY <2>7, <2>10
    <3>2. /\ x \in Asocket /\ x.st = "open" /\ x.peer = j /\ x.rd = old.rd
          /\ x.pkts = old.pkts \o SubSeq(p.data, r.wrote + 1, Len(p.data))
      <4>1. x \in Asocket
        BY <1>2, <2>2, <2>6, BacklogType
      <4>2. /\ x.st = old.st /\ x.peer = old.peer /\ x.rd = old.rd
            /\ x.pkts = old.pkts \o SubSeq(p.data, r.wrote + 1, Len(p.data))
        <5> DEFINE u == old.pkts \o SubSeq(p.data, r.wrote + 1, Len(p.data))
        <5>1. x = [old EXCEPT !.pkts = u, !.wr = TRUE]
          BY Zenon DEF Backlog
        <5> HIDE DEF u, x, old
        <5>2. x.st = old.st /\ x.peer = old.peer /\ x.rd = old.rd /\ x.pkts = u
          BY <2>2, <5>1 DEF Asocket
        <5> QED BY <5>2 DEF u, old
      <4> QED BY <2>1, <4>1, <4>2
    <3>3. sock' = [sock EXCEPT ![e][s] = x]
      BY <2>5, <2>10
    <3> HIDE DEF x
    <3>4. x.pkts # <<>> /\ Len(x.pkts) <= MaxPayload
      <4>1. /\ p.data \in Seq(Unit) /\ Len(p.data) <= MaxPayload
            /\ MaxPayload \in Nat /\ Len(p.data) \in Nat /\ r.wrote \in Nat
        BY <1>2, <2>6, BoundsAssumption DEF Payload
      <4>2. x.pkts = SubSeq(p.data, r.wrote + 1, Len(p.data))
        BY <2>4, <3>2, <4>1
      <4>3. x.pkts # <<>> /\ Len(x.pkts) <= Len(p.data) /\ Len(x.pkts) \in Nat
        BY <2>10, <4>1, <4>2, SuffixLength
      <4> QED BY <4>1, <4>3
    <3>5. QueueInv'
      BY <1>0, <1>4, <2>1, <3>2, <3>3, <3>4, QueueStep DEF QueueOK
    <3>6. /\ sock'[Other(e)] = sock[Other(e)]
          /\ \A k \in Ids : sock'[e][k].rd = sock[e][k].rd
      BY <1>0, <2>1, <3>2, <3>3, OtherType DEF TypeOK
    <3>7. ASSUME NEW k \in Ids, k # j
          PROVE  Holders(sock'[e], k) \subseteq Holders(sock[e], k)
      <4>1. ~Holds(x, k)
        BY <3>2, <3>7 DEF Holds
      <4> QED BY <1>0, <2>1, <3>2, <3>3, <4>1, SocketStep
    <3>8. AtMostOne(Holders(sock'[e], j))
      BY <1>0, <2>1, <2>3, <3>2, <3>3, SocketStep
    <3>9. ASSUME NEW k \in Ids PROVE Keeps(e, k)
      BY <1>0, <1>1, <2>2, <2>7, <3>1, <3>6, OwnKeeps
    <3>10. ASSUME NEW k \in Ids, k # j PROVE Keeps(Other(e), k)
      BY <1>0, <1>1, <2>7, <3>1, <3>6, <3>7, <3>10, PeerKeeps
    <3>11. Keeps(Other(e), j)
      <4>1. /\ Uses(ch'[Other(Other(e))], j) = {}
            /\ AtMostOne(Holders(sock'[Other(Other(e))], j))
            /\ Returns(ch'[Other(e)], j) = {} /\ sock'[Other(e)][j].rd = FALSE
        BY <2>1, <2>3, <2>7, <3>1, <3>6, <3>8, OtherType
      <4> QED BY <2>3, <2>8, <4>1, Zenon DEF Keeps, Single
    <3> QED BY <3>5, <3>9, <3>10, <3>11, BothEnds
  <2>11. CASE r.ret = "error" /\ r.sock = local_socket_close_locked(old, FALSE)
    <3>1. ch'[Other(e)] = remote_socket_shutdown(ch[Other(e)], s, old)
      BY <2>1, <2>7, <2>11
    <3>2. \A k \in Ids : /\ Uses(ch'[Other(e)], k) = Uses(ch[Other(e)], k)
                         /\ Returns(ch'[Other(e)], k) = Returns(ch[Other(e)], k)
      BY <2>1, <2>2, <3>1, ShutdownPlaces
    <3>3. Len(old.pkts) <= MaxPayload /\ FALSE \in BOOLEAN
      BY <2>2 DEF QueueOK
    <3>4. sock' = [sock EXCEPT ![e][s] = local_socket_close_locked(old, FALSE)]
      BY <2>5, <2>11
    <3>5. /\ QueueInv'
          /\ sock'[Other(e)] = sock[Other(e)]
          /\ \A k \in Ids : /\ sock'[e][k].rd \in BOOLEAN
                            /\ sock'[e][k].rd => sock[e][k].rd
                            /\ Holders(sock'[e], k) \subseteq Holders(sock[e], k)
      BY <1>0, <2>1, <2>2, <3>3, <3>4, CloseStep
    <3> QED BY <1>0, <1>1, <2>7, <3>2, <3>5, StepKeeps
  <2> QED BY <2>6, <2>9, <2>10, <2>11
<1> QED BY <1>3, <1>4, Zenon DEF HandleWrte

\* An id handed out for the first time had no permission anywhere.
LEMMA FreshId ==
  ASSUME WindowInv, NEW e \in End, next_id[e] \in Ids
  PROVE  LET i == next_id[e] IN
         /\ Uses(ch[Other(e)], i) = {} /\ Holders(sock[Other(e)], i) = {}
         /\ Returns(ch[e], i) = {}
<1>1. Quiet(e, next_id[e])
  <2>1. next_id[e] >= next_id[e]
    BY DEF Ids
  <2> QED BY <2>1 DEF WindowInv
<1> QED BY <1>1, Zenon DEF Quiet, Empty

\* A new socket has nothing queued.
LEMMA CreateStep ==
  ASSUME TypeOK, QueueInv, NEW e \in End, NEW i \in Ids,
         NEW st \in {"open", "freed"}, NEW peer \in 0..MaxId,
         NEW n \in BOOLEAN, NEW r \in BOOLEAN,
         sock' = [sock EXCEPT ![e][i] = Idle(st, peer, n, r)]
  PROVE  /\ QueueInv'
         /\ sock'[Other(e)] = sock[Other(e)]
         /\ sock'[e][i].rd = r
         /\ \A k \in Ids : k # i => sock'[e][k].rd = sock[e][k].rd
         /\ \A k \in Ids : Holders(sock'[e], k) \subseteq Holders(sock[e], k)
<1> DEFINE x == Idle(st, peer, n, r)
<1>1. x \in Asocket
  BY IdleType
<1>2. x.rd = r /\ x.wr = FALSE /\ x.pkts = <<>>
  BY DEF Idle
<1>3. sock' = [sock EXCEPT ![e][i] = x]
  OBVIOUS
<1> HIDE DEF x
<1>4. QueueOK(x)
  BY <1>2, BoundsAssumption DEF QueueOK
<1>5. QueueInv'
  BY <1>1, <1>3, <1>4, QueueStep
<1>6. /\ sock'[Other(e)] = sock[Other(e)] /\ sock'[e][i].rd = r
      /\ \A k \in Ids : k # i => sock'[e][k].rd = sock[e][k].rd
  BY <1>2, <1>3, OtherType DEF TypeOK
<1>7. ASSUME NEW k \in Ids
      PROVE  Holders(sock'[e], k) \subseteq Holders(sock[e], k)
  <2>1. ~Holds(x, k)
    BY <1>2 DEF Holds
  <2> QED BY <1>1, <1>3, <2>1, SocketStep
<1> QED BY <1>5, <1>6, <1>7, Zenon

\* OPEN takes the permission from the channel to OKAY; the socket it creates
\* starts with one of its own.
LEMMA OpenWindow ==
  ASSUME WindowInv, NEW e \in End, HandleOpen(e)
  PROVE  QueueInv' /\ \A f \in End, k \in Ids : After(f, k)
<1> DEFINE p == Head(ch[e])
           i == next_id[e]
           j == p.arg0
           ignored == ~online[e] \/ p.arg0 = 0 \/ p.arg1 # 0
<1>0. TypeOK /\ QueueInv /\ \A f \in End : next_id[f] \in Nat
  BY DEF WindowInv, TypeOK
<1>1. ch[e] # <<>> /\ p.cmd = "OPEN"
  BY DEF HandleOpen, Arrives
<1>2. /\ ch[Other(e)] \in Seq(Packet) /\ Other(e) \in End /\ ch[e] \in Seq(Packet)
      /\ p.arg0 \in 0..MaxId /\ 0 \in 0..MaxId
  BY <1>0, <1>1, HeadType, OtherType, ZeroId DEF TypeOK
<1>3. \A f \in End, k \in Ids : sock[f][k].rd \in BOOLEAN
  BY <1>0 DEF TypeOK, Asocket
<1>4. CASE /\ UNCHANGED <<sock, next_id>>
           /\ ch' = [ch EXCEPT ![e] = Tail(@),
                               ![Other(e)] = IF ignored
                                             THEN @
                                             ELSE send_close(@, 0, p.arg0)]
  <2>1. /\ ch'[e] = Tail(ch[e])
        /\ \/ ch'[Other(e)] = ch[Other(e)]
           \/ ch'[Other(e)] = send_close(ch[Other(e)], 0, p.arg0)
    BY <1>0, <1>4, OtherType DEF TypeOK
  <2>2. \A k \in Ids : /\ Uses(ch'[Other(e)], k) = Uses(ch[Other(e)], k)
                       /\ Returns(ch'[Other(e)], k) = Returns(ch[Other(e)], k)
    BY <1>2, <2>1, ClosePlaces
  <2>3. QueueInv'
    BY <1>0, <1>4 DEF QueueInv, QueueOK
  <2>4. \A f \in End, k \in Ids : Keeps(f, k)
    BY <1>0, <1>1, <1>3, <1>4, <2>1, <2>2, StepKeeps
  <2> QED BY <1>0, <1>4, <2>3, <2>4, KeepsAfter
<1>5. CASE /\ ~ignored /\ i <= MaxId
           /\ sock' = [sock EXCEPT ![e][i] =
                          create_local_socket(p.arg0, FALSE, TRUE)]
           /\ next_id' = [next_id EXCEPT ![e] = @ + 1]
           /\ ch' = [ch EXCEPT ![e] = Tail(@),
                               ![Other(e)] = send_ready(@, i, p.arg0)]
  <2>1. /\ i \in Ids /\ i \in 0..MaxId /\ j \in Ids
        /\ next_id'[e] = i + 1 /\ next_id'[Other(e)] = next_id[Other(e)]
    <3>1. next_id \in [End -> 1..(MaxId + 1)] /\ i <= MaxId /\ j # 0
          /\ next_id' = [next_id EXCEPT ![e] = i + 1]
      BY <1>0, <1>5 DEF TypeOK
    <3> QED BY <1>2, <3>1, OtherType, BoundsAssumption DEF Ids
  <2>2. \A f \in End : next_id'[f] \in Nat /\ next_id'[f] >= next_id[f]
    BY <1>0, <2>1, BothEnds DEF Ids
  <2>3. /\ ch'[e] = Tail(ch[e])
        /\ ch'[Other(e)] = send_ready(ch[Other(e)], i, j)
    BY <1>0, <1>5, OtherType DEF TypeOK
  <2>4. /\ QueueInv'
        /\ sock'[Other(e)] = sock[Other(e)]
        /\ sock'[e][i].rd = TRUE
        /\ \A k \in Ids : k # i => sock'[e][k].rd = sock[e][k].rd
        /\ \A k \in Ids : Holders(sock'[e], k) \subseteq Holders(sock[e], k)
    <3>1. sock' = [sock EXCEPT ![e][i] = Idle("open", j, FALSE, TRUE)]
      BY <1>5, Zenon DEF create_local_socket
    <3> QED BY <1>0, <1>2, <2>1, <3>1, CreateStep, Zenon
  <2>5. \A k \in Ids : /\ Uses(ch'[Other(e)], k) = Uses(ch[Other(e)], k)
                       /\ k # j => Returns(ch'[Other(e)], k) = Returns(ch[Other(e)], k)
                       /\ Returns(ch[Other(e)], k) = {} => AtMostOne(Returns(ch'[Other(e)], k))
    BY <1>2, <2>1, <2>3, ReadyPlaces
  <2>6. AtMostOne({})
    BY DEF AtMostOne
  <2>7. After(e, i)
    <3>1. /\ Uses(ch[Other(e)], i) = {} /\ Holders(sock[Other(e)], i) = {}
          /\ Returns(ch[e], i) = {}
      BY <2>1, FreshId
    <3>2. /\ Uses(ch'[Other(e)], i) = {} /\ Holders(sock'[Other(e)], i) = {}
      BY <2>1, <2>4, <2>5, <3>1
    <3>3. Returns(ch'[e], i) = {}
      BY <1>0, <1>1, <2>1, <2>3, <3>1, TakePlaces
    <3>4. ~(i >= next_id'[e])
      BY <2>1 DEF Ids
    <3> QED BY <2>4, <2>6, <3>2, <3>3, <3>4, Zenon DEF After, Single
  <2>8. ASSUME NEW k \in Ids, k # i PROVE After(e, k)
    <3>1. Keeps(e, k)
      BY <1>0, <1>1, <1>3, <2>3, <2>4, <2>5, <2>8, OwnKeeps
    <3> QED BY <1>0, <2>2, <3>1, KeepsAfter
  <2>9. ASSUME NEW k \in Ids, k # j PROVE Keeps(Other(e), k)
    BY <1>0, <1>1, <2>3, <2>4, <2>5, <2>9, PeerKeeps
  <2>10. Keeps(Other(e), j)
    <3>1. /\ Uses(Tail(ch[e]), j) = {}
          /\ Holders(sock[e], j) = {} /\ Returns(ch[Other(e)], j) = {}
          /\ sock[Other(e)][j].rd = FALSE /\ ~Quiet(Other(e), j)
      BY <1>1, <2>1, TakenUse
    <3>2. Holders(sock'[e], j) = {}
      BY <2>1, <2>4, <3>1
    <3>3. /\ Uses(ch'[Other(Other(e))], j) = {}
          /\ Holders(sock'[Other(Other(e))], j) = {}
          /\ AtMostOne(Returns(ch'[Other(e)], j)) /\ sock'[Other(e)][j].rd = FALSE
      BY <2>1, <2>3, <2>4, <2>5, <3>1, <3>2, OtherType
    <3> QED BY <2>6, <3>1, <3>3, Zenon DEF Keeps, Single
  <2>11. ASSUME NEW k \in Ids PROVE After(Other(e), k)
    BY <1>0, <1>2, <2>2, <2>9, <2>10, KeepsAfter
  <2> QED BY <2>4, <2>7, <2>8, <2>11, BothEnds
<1> QED BY <1>4, <1>5, Zenon DEF HandleOpen

\* A client's OPEN is the first use of a fresh id's permission.
LEMMA ConnectWindow ==
  ASSUME WindowInv, NEW e \in End,
         ListenerConnect(e) \/ \E eof \in BOOLEAN : SmartConnect(e, eof)
  PROVE  QueueInv' /\ \A f \in End, k \in Ids : After(f, k)
<1> DEFINE i == next_id[e]
           p == Pkt("OPEN", i, 0, <<>>)
           opened == send_packet(ch[Other(e)], p)
<1>0. TypeOK /\ QueueInv /\ \A f \in End : next_id[f] \in Nat
  BY DEF WindowInv, TypeOK
<1>1. /\ i <= MaxId
      /\ next_id' = [next_id EXCEPT ![e] = @ + 1]
      /\ ch' = [ch EXCEPT ![Other(e)] = opened]
      /\ \E st \in {"open", "freed"}, n \in BOOLEAN :
            sock' = [sock EXCEPT ![e][i] = Idle(st, 0, n, FALSE)]
  BY Zenon DEF ListenerConnect, SmartConnect, create_local_socket, local_socket_destroy
<1>2. /\ i \in Ids /\ i \in 0..MaxId
      /\ next_id'[e] = i + 1 /\ next_id'[Other(e)] = next_id[Other(e)]
  <2>1. next_id \in [End -> 1..(MaxId + 1)]
    BY <1>0 DEF TypeOK
  <2> QED BY <1>1, <2>1, OtherType, BoundsAssumption DEF Ids
<1>3. \A f \in End : next_id'[f] \in Nat /\ next_id'[f] >= next_id[f]
  BY <1>0, <1>2, BothEnds DEF Ids
<1>4. \A f \in End, k \in Ids : sock[f][k].rd \in BOOLEAN
  BY <1>0 DEF TypeOK, Asocket
<1>5. /\ QueueInv'
      /\ sock'[Other(e)] = sock[Other(e)]
      /\ sock'[e][i].rd = FALSE
      /\ \A k \in Ids : k # i => sock'[e][k].rd = sock[e][k].rd
      /\ \A k \in Ids : Holders(sock'[e], k) \subseteq Holders(sock[e], k)
  <2>1. PICK st \in {"open", "freed"}, n \in BOOLEAN :
           sock' = [sock EXCEPT ![e][i] = Idle(st, 0, n, FALSE)]
    BY <1>1
  <2> QED BY <1>0, <1>2, <2>1, ZeroId, CreateStep, Zenon
<1>6. ch'[e] = ch[e] /\ ch'[Other(e)] = opened
      /\ ch[Other(e)] \in Seq(Packet) /\ Other(e) \in End
  BY <1>0, <1>1, OtherType DEF TypeOK
<1>7. p \in Packet /\ p.cmd = "OPEN" /\ p.arg0 = i
  BY <1>2, ZeroId, PktType, EmptyPayload DEF Command, Pkt
<1>8. opened = ch[Other(e)] \/ opened = Append(ch[Other(e)], p)
  BY Zenon DEF send_packet
<1> HIDE DEF p, opened
<1>9. \A k \in Ids :
         /\ k # i => Uses(ch'[Other(e)], k) = Uses(ch[Other(e)], k)
         /\ Returns(ch'[Other(e)], k) = Returns(ch[Other(e)], k)
         /\ Uses(ch[Other(e)], k) = {} => AtMostOne(Uses(ch'[Other(e)], k))
  <2>1. \A k \in Ids : Uses(ch[Other(e)], k) = {} => AtMostOne(Uses(ch[Other(e)], k))
    BY DEF AtMostOne
  <2> QED BY <1>6, <1>7, <1>8, <2>1, AppendPlaces
<1>10. After(e, i)
  <2>1. /\ Uses(ch[Other(e)], i) = {} /\ Holders(sock[Other(e)], i) = {}
        /\ Returns(ch[e], i) = {}
    BY <1>2, FreshId
  <2>2. /\ AtMostOne(Uses(ch'[Other(e)], i)) /\ Holders(sock'[Other(e)], i) = {}
        /\ Returns(ch'[e], i) = {}
    BY <1>2, <1>5, <1>6, <1>9, <2>1
  <2>3. ~(i >= next_id'[e])
    BY <1>2 DEF Ids
  <2>4. AtMostOne({})
    BY DEF AtMostOne
  <2> QED BY <1>5, <2>2, <2>3, <2>4, Zenon DEF After, Single
<1>11. ASSUME NEW k \in Ids, k # i PROVE After(e, k)
  <2>1. Keeps(e, k)
    BY <1>0, <1>4, <1>5, <1>6, <1>9, <1>11, OwnKeeps
  <2> QED BY <1>0, <1>3, <2>1, KeepsAfter
<1>12. ASSUME NEW k \in Ids PROVE After(Other(e), k)
  <2>1. Keeps(Other(e), k)
    BY <1>0, <1>5, <1>6, <1>9, PeerKeeps
  <2> QED BY <1>0, <1>3, <1>6, <2>1, KeepsAfter
<1> QED BY <1>5, <1>10, <1>11, <1>12, BothEnds

\* The queue of an open socket drains: the permission goes on to OKAY.
LEMMA DrainedWindow ==
  ASSUME WindowInv, NEW e \in End, NEW i \in Ids, SocketDrained(e, i)
  PROVE  QueueInv' /\ \A f \in End, k \in Ids : Keeps(f, k)
<1> DEFINE s == sock[e][i]
           j == s.peer
<1>0. TypeOK /\ QueueInv
  BY DEF WindowInv
<1>1. /\ s \in Asocket /\ j \in 0..MaxId /\ i \in 0..MaxId
      /\ ch[Other(e)] \in Seq(Packet) /\ Other(e) \in End
  BY <1>0, OtherType, ZeroId DEF TypeOK, Asocket
<1>2. \A f \in End, k \in Ids : sock[f][k].rd \in BOOLEAN
  BY <1>0 DEF TypeOK, Asocket
<1>3. CASE s.st = "closing"
  <2>1. sock' = [sock EXCEPT ![e][i] = Idle("freed", 0, FALSE, FALSE)]
    BY <1>3, Zenon DEF SocketDrained, local_socket_destroy
  <2>2. ch' = [ch EXCEPT ![Other(e)] = @]
    BY <1>3, Zenon DEF SocketDrained
  <2>3. ch'[e] = ch[e] /\ ch'[Other(e)] = ch[Other(e)]
    BY <1>0, <1>1, <2>2, OtherType DEF TypeOK
  <2>4. /\ QueueInv'
        /\ sock'[Other(e)] = sock[Other(e)]
        /\ sock'[e][i].rd = FALSE
        /\ \A k \in Ids : k # i => sock'[e][k].rd = sock[e][k].rd
        /\ \A k \in Ids : Holders(sock'[e], k) \subseteq Holders(sock[e], k)
    BY <1>0, <2>1, ZeroId, CreateStep, Zenon
  <2>5. \A k \in Ids : /\ sock'[e][k].rd \in BOOLEAN
                       /\ sock'[e][k].rd => sock[e][k].rd
    BY <1>2, <2>4
  <2> QED BY <1>0, <2>3, <2>4, <2>5, StepKeeps
<1>4. CASE s.st # "closing"
  <2> DEFINE x == [s EXCEPT !.pkts = <<>>, !.wr = FALSE]
  <2>1. /\ s.st = "open" /\ s.wr
        /\ sock' = [sock EXCEPT ![e][i] = x]
        /\ ch' = [ch EXCEPT ![Other(e)] = send_ready(@, i, j)]
    BY <1>4, Zenon DEF SocketDrained
  <2>2. x \in Asocket
    <3>1. <<>> \in Seq(Unit)
      OBVIOUS
    <3> QED BY <1>1, <3>1, QueueType, Zenon
  <2>3. x.rd = s.rd /\ x.wr = FALSE /\ x.pkts = <<>>
    BY <1>1 DEF Asocket
  <2> HIDE DEF x
  <2>4. QueueInv'
    <3>1. QueueOK(x)
      BY <2>3, BoundsAssumption DEF QueueOK
    <3> QED BY <1>0, <2>1, <2>2, <3>1, QueueStep
  <2>5. s.pkts # <<>> /\ j \in Ids
    <3>1. QueueOK(s)
      BY <1>0 DEF QueueInv
    <3>2. s.pkts # <<>> /\ j # 0
      BY <2>1, <3>1, Zenon DEF QueueOK
    <3> QED BY <1>1, <3>2 DEF Ids
  <2>6. /\ ch'[e] = ch[e] /\ ch'[Other(e)] = send_ready(ch[Other(e)], i, j)
    BY <1>0, <1>1, <2>1, OtherType DEF TypeOK
  <2>7. /\ sock'[Other(e)] = sock[Other(e)] /\ sock'[e][i] = x
        /\ \A k \in Ids : sock'[e][k].rd = sock[e][k].rd
    BY <1>0, <2>1, <2>3, OtherType DEF TypeOK
  <2>8. ASSUME NEW k \in Ids PROVE ~Holds(x, k)
    BY <2>3 DEF Holds
  <2>9. ASSUME NEW k \in Ids
        PROVE  /\ Holders(sock'[e], k) \subseteq Holders(sock[e], k)
               /\ i \notin Holders(sock'[e], k)
    <3>1. Holders(sock'[e], k) \subseteq Holders(sock[e], k)
      BY <1>0, <2>1, <2>2, <2>8, SocketStep
    <3>2. i \notin Holders(sock'[e], k)
      BY <2>7, <2>8, HoldersDef, Zenon
    <3> QED BY <3>1, <3>2
  <2>10. \A k \in Ids : /\ Uses(ch'[Other(e)], k) = Uses(ch[Other(e)], k)
                        /\ k # j => Returns(ch'[Other(e)], k) = Returns(ch[Other(e)], k)
                        /\ Returns(ch[Other(e)], k) = {} => AtMostOne(Returns(ch'[Other(e)], k))
    BY <1>1, <2>6, ReadyPlaces
  <2>11. ASSUME NEW k \in Ids PROVE Keeps(e, k)
    BY <1>0, <1>2, <2>6, <2>7, <2>10, OwnKeeps
  <2>12. ASSUME NEW k \in Ids, k # j PROVE Keeps(Other(e), k)
    BY <1>0, <2>6, <2>7, <2>9, <2>10, <2>12, PeerKeeps
  <2>13. Keeps(Other(e), j)
    <3>1. i \in Holders(sock[e], j)
      BY <2>1, <2>5, HoldersDef DEF Holds
    <3>2. One(Other(e), j) /\ Other(Other(e)) = e /\ sock[Other(e)][j].rd \in BOOLEAN
      BY <1>1, <1>2, <2>5, OtherType DEF WindowInv
    <3>3. /\ sock[Other(e)][j].rd = FALSE /\ Uses(ch[e], j) = {}
          /\ Returns(ch[Other(e)], j) = {} /\ AtMostOne(Holders(sock[e], j))
          /\ ~Quiet(Other(e), j)
      BY <3>1, <3>2, Zenon DEF One, Single, Quiet, Empty
    <3>4. Holders(sock'[e], j) = {}
      BY <2>5, <2>9, <3>1, <3>3, Zenon DEF AtMostOne
    <3>5. AtMostOne(Returns(ch'[Other(e)], j))
      BY <2>5, <2>10, <3>3
    <3>6. AtMostOne({})
      BY DEF AtMostOne
    <3>7. /\ Uses(ch'[Other(Other(e))], j) = {}
          /\ Holders(sock'[Other(Other(e))], j) = {}
          /\ sock'[Other(e)][j].rd = FALSE
      BY <2>6, <2>7, <3>2, <3>3, <3>4
    <3> QED BY <3>3, <3>5, <3>6, <3>7, Zenon DEF Keeps, Single
  <2> QED BY <2>4, <2>11, <2>12, <2>13, BothEnds
<1> QED BY <1>3, <1>4

\* Reading takes the permission from the socket to the WRTE it sends.
LEMMA ReadableWindow ==
  ASSUME WindowInv, NEW e \in End, NEW i \in Ids, SocketReadable(e, i)
  PROVE  QueueInv' /\ \A f \in End, k \in Ids : Keeps(f, k)
<1> DEFINE s == sock[e][i]
           q == ch[Other(e)]
           data(r) == [n \in 1..r.got |-> <<i, sent[e][i] + n>>]
           enqueue(r) == r.got > 0 /\ s.peer # 0
           p(r) == Pkt("WRTE", i, s.peer, data(r))
           q1(r) == IF enqueue(r) THEN send_packet(q, p(r)) ELSE q
           s1(r) == [s EXCEPT !.rd = ~enqueue(r)]
<1>0. TypeOK /\ QueueInv
  BY DEF WindowInv
<1>1. PICK r \in ReadLoop(MaxPayload) :
          /\ sent[e][i] + r.got <= MaxUnits
          /\ sock' = [sock EXCEPT ![e][i] =
                         IF r.is_eof THEN local_socket_close_locked(s1(r), FALSE)
                                     ELSE s1(r)]
          /\ ch' = [ch EXCEPT ![Other(e)] =
                       IF r.is_eof THEN remote_socket_shutdown(q1(r), i, s)
                                   ELSE q1(r)]
  BY Zenon DEF SocketReadable
<1>2. r.got \in 0..MaxPayload /\ r.is_eof \in BOOLEAN /\ s.rd = TRUE
  BY <1>1 DEF ReadLoop, SocketReadable
<1>3. /\ s \in Asocket /\ s.peer \in 0..MaxId /\ sent[e][i] \in 0..MaxUnits
      /\ q \in Seq(Packet) /\ Other(e) \in End /\ i \in 0..MaxId
  BY <1>0, OtherType, ZeroId DEF TypeOK, Asocket
<1>4. p(r) \in Packet /\ p(r).cmd = "WRTE" /\ p(r).arg0 = i
  <2>1. \A n \in 1..r.got : <<i, sent[e][i] + n>> \in Unit
    BY <1>1, <1>2, <1>3, BoundsAssumption DEF Unit
  <2>2. data(r) \in Seq(Unit) /\ Len(data(r)) = r.got
    BY <1>2, <2>1
  <2>3. data(r) \in Payload
    BY <1>2, <2>2 DEF Payload
  <2> HIDE DEF data
  <2> QED BY <1>3, <2>3, PktType DEF Command, Pkt
<1>5. q1(r) = q \/ q1(r) = Append(q, p(r))
  BY Zenon DEF send_packet
<1>6. ~enqueue(r) => q1(r) = q
  OBVIOUS
<1> HIDE DEF p, q1
<1>7. q1(r) \in Seq(Packet)
  <2>1. \A y \in Seq(Packet), z \in Packet : Append(y, z) \in Seq(Packet)
    OBVIOUS
  <2> QED BY <1>3, <1>4, <1>5, <2>1, Zenon
<1>8. \A k \in Ids :
         /\ k # i => Uses(q1(r), k) = Uses(q, k)
         /\ Returns(q1(r), k) = Returns(q, k)
         /\ Uses(q, k) = {} => AtMostOne(Uses(q1(r), k))
  <2>1. \A k \in Ids : Uses(q, k) = {} => AtMostOne(Uses(q, k))
    BY DEF AtMostOne
  <2> HIDE DEF q
  <2> QED BY <1>3, <1>4, <1>5, <2>1, AppendPlaces, ZenonT(60)
<1>9. \A k \in Ids : /\ Uses(ch'[Other(e)], k) = Uses(q1(r), k)
                     /\ Returns(ch'[Other(e)], k) = Returns(q1(r), k)
  <2>1. \/ ch'[Other(e)] = remote_socket_shutdown(q1(r), i, s)
        \/ ch'[Other(e)] = q1(r)
    BY <1>0, <1>1, <1>3 DEF TypeOK
  <2> DEFINE q2 == q1(r)
  <2>2. q2 \in Seq(Packet)
    BY <1>7
  <2> HIDE DEF q2, s
  <2>3. ASSUME NEW k \in Ids
        PROVE  /\ Uses(remote_socket_shutdown(q2, i, s), k) = Uses(q2, k)
               /\ Returns(remote_socket_shutdown(q2, i, s), k) = Returns(q2, k)
    BY <1>3, <2>2, ShutdownPlaces
  <2>4. ch'[Other(e)] = remote_socket_shutdown(q2, i, s) \/ ch'[Other(e)] = q2
    BY <2>1 DEF q2
  <2>5. \A k \in Ids : /\ Uses(ch'[Other(e)], k) = Uses(q2, k)
                       /\ Returns(ch'[Other(e)], k) = Returns(q2, k)
    BY <2>3, <2>4
  <2> QED BY <2>5 DEF q2
<1>10. ch'[e] = ch[e]
  BY <1>0, <1>1, OtherType DEF TypeOK
<1>11. /\ s1(r) \in Asocket /\ s1(r).rd = ~enqueue(r) /\ s1(r).st = s.st
       /\ s1(r).peer = s.peer /\ s1(r).wr = s.wr /\ s1(r).pkts = s.pkts
  BY <1>3 DEF Asocket
<1>12. QueueOK(s) /\ Len(s.pkts) <= MaxPayload
  BY <1>0 DEF QueueInv, QueueOK
<1> HIDE DEF s1, s
<1>13. /\ QueueInv'
       /\ sock'[Other(e)] = sock[Other(e)]
       /\ \A k \in Ids : /\ sock'[e][k].rd \in BOOLEAN
                         /\ sock'[e][k].rd => sock[e][k].rd
                         /\ Holders(sock'[e], k) \subseteq Holders(sock[e], k)
       /\ enqueue(r) => sock'[e][i].rd = FALSE
  <2>1. CASE r.is_eof
    <3>1. /\ sock' = [sock EXCEPT ![e][i] = local_socket_close_locked(s1(r), FALSE)]
          /\ Len(s1(r).pkts) <= MaxPayload /\ FALSE \in BOOLEAN
      BY <1>1, <1>11, <1>12, <2>1
    <3>2. /\ QueueInv'
          /\ sock'[Other(e)] = sock[Other(e)]
          /\ \A k \in Ids : /\ sock'[e][k].rd \in BOOLEAN
                            /\ sock'[e][k].rd => sock[e][k].rd
                            /\ Holders(sock'[e], k) \subseteq Holders(sock[e], k)
      BY <1>0, <1>11, <3>1, CloseStep
    <3>3. sock'[e][i] = local_socket_close_locked(s1(r), FALSE)
      BY <1>0, <3>1 DEF TypeOK
    <3>4. local_socket_close_locked(s1(r), FALSE).rd = FALSE
      BY <1>11, CloseFields, Zenon
    <3> QED BY <3>2, <3>3, <3>4, Zenon
  <2>2. CASE ~r.is_eof
    <3>1. sock' = [sock EXCEPT ![e][i] = s1(r)]
      BY <1>1, <2>2
    <3>2. QueueOK(s1(r))
      BY <1>11, <1>12 DEF QueueOK
    <3>3. QueueInv'
      BY <1>0, <1>11, <3>1, <3>2, QueueStep
    <3>4. ASSUME NEW k \in Ids
          PROVE  Holders(sock'[e], k) \subseteq Holders(sock[e], k)
      <4>1. Holds(s1(r), k) => Holds(sock[e][i], k)
        BY <1>11 DEF Holds, s
      <4> QED BY <1>0, <1>11, <3>1, <4>1, SocketStep
    <3>5. /\ sock'[Other(e)] = sock[Other(e)]
          /\ sock'[e][i].rd = ~enqueue(r)
          /\ \A k \in Ids : k # i => sock'[e][k].rd = sock[e][k].rd
      BY <1>0, <1>11, <3>1, OtherType DEF TypeOK
    <3>6. ASSUME NEW k \in Ids
          PROVE  sock'[e][k].rd \in BOOLEAN /\ (sock'[e][k].rd => sock[e][k].rd)
      <4>1. sock[e][k].rd \in BOOLEAN /\ sock[e][i].rd = TRUE
        BY <1>0, <1>2 DEF TypeOK, Asocket, s
      <4> QED BY <3>5, <4>1
    <3> QED BY <3>3, <3>4, <3>5, <3>6
  <2> QED BY <1>2, <2>1, <2>2
<1>14. ASSUME NEW k \in Ids, k # i PROVE Keeps(e, k)
  BY <1>0, <1>8, <1>9, <1>10, <1>13, <1>14, OwnKeeps
<1>15. Keeps(e, i)
  <2>1. CASE ~enqueue(r)
    BY <1>0, <1>6, <1>9, <1>10, <1>13, <2>1, OwnKeeps
  <2>2. CASE enqueue(r)
    <3>1. One(e, i) /\ sock[e][i].rd = TRUE
      BY <1>2 DEF WindowInv, s
    <3>2. Uses(q, i) = {} /\ Holders(sock[Other(e)], i) = {} /\ Returns(ch[e], i) = {}
      BY <3>1, Zenon DEF One, Single
    <3>3. AtMostOne(Uses(ch'[Other(e)], i)) /\ Holders(sock'[Other(e)], i) = {}
          /\ Returns(ch'[e], i) = {} /\ sock'[e][i].rd = FALSE
      BY <1>8, <1>9, <1>10, <1>13, <2>2, <3>2
    <3>4. AtMostOne({}) /\ TRUE # FALSE
      BY DEF AtMostOne
    <3> QED BY <3>1, <3>3, <3>4, Zenon DEF Keeps, Quiet, Single, Empty
  <2> QED BY <2>1, <2>2
<1>16. ASSUME NEW k \in Ids PROVE Keeps(Other(e), k)
  BY <1>0, <1>8, <1>9, <1>10, <1>13, PeerKeeps
<1> QED BY <1>13, <1>14, <1>15, <1>16, BothEnds

\* A partial write, or one that fails and closes the socket.
LEMMA BlockedWindow ==
  ASSUME WindowInv, NEW e \in End, NEW i \in Ids, NEW err \in BOOLEAN,
         SocketBlocked(e, i, err)
  PROVE  QueueInv' /\ \A f \in End, k \in Ids : Keeps(f, k)
<1> DEFINE s == sock[e][i]
           n == Len(s.pkts)
           rest(k) == SubSeq(s.pkts, k + 1, n)
           s1(k) == [s EXCEPT !.pkts = rest(k)]
<1>0. TypeOK /\ QueueInv
  BY DEF WindowInv
<1>1. /\ s \in Asocket /\ s.pkts \in Seq(Unit) /\ n \in Nat
      /\ ch[Other(e)] \in Seq(Packet) /\ Other(e) \in End
  BY <1>0, OtherType DEF TypeOK, Asocket
<1>2. PICK k \in 0..n :
          /\ k < n
          /\ sock' = [sock EXCEPT ![e][i] =
                         IF err THEN local_socket_close_locked(s1(k), FALSE)
                                ELSE s1(k)]
  BY Zenon DEF SocketBlocked
<1>3. rest(k) \in Seq(Unit) /\ rest(k) # <<>> /\ Len(rest(k)) \in Nat
      /\ Len(rest(k)) <= n /\ s.pkts # <<>>
  <2>1. k \in Nat /\ k < Len(s.pkts)
    BY <1>1, <1>2
  <2>2. rest(k) \in Seq(Unit)
    BY <1>1, <2>1
  <2>3. rest(k) # <<>> /\ Len(rest(k)) \in Nat /\ Len(rest(k)) <= n
    BY <1>1, <2>1, SuffixLength
  <2>4. s.pkts # <<>>
    BY <1>1, <2>1
  <2> QED BY <2>2, <2>3, <2>4
<1> HIDE DEF rest
<1>4. /\ s1(k) \in Asocket /\ s1(k).rd = s.rd /\ s1(k).st = s.st
      /\ s1(k).peer = s.peer /\ s1(k).wr = s.wr /\ s1(k).pkts = rest(k)
  BY <1>1, <1>3 DEF Asocket
<1>5. QueueOK(s) /\ n <= MaxPayload
  BY <1>0 DEF QueueInv, QueueOK
<1>6. Len(s1(k).pkts) <= MaxPayload
  BY <1>1, <1>3, <1>4, <1>5, BoundsAssumption
<1> HIDE DEF s1
<1>7. /\ QueueInv'
      /\ sock'[Other(e)] = sock[Other(e)]
      /\ \A j \in Ids : /\ sock'[e][j].rd \in BOOLEAN
                        /\ sock'[e][j].rd => sock[e][j].rd
                        /\ Holders(sock'[e], j) \subseteq Holders(sock[e], j)
  <2>1. CASE err
    <3>1. sock' = [sock EXCEPT ![e][i] = local_socket_close_locked(s1(k), FALSE)]
          /\ FALSE \in BOOLEAN
      BY <1>2, <2>1
    <3> QED BY <1>0, <1>4, <1>6, <3>1, CloseStep
  <2>2. CASE ~err
    <3>1. sock' = [sock EXCEPT ![e][i] = s1(k)]
      BY <1>2, <2>2
    <3>2. QueueOK(s1(k))
      BY <1>3, <1>4, <1>5, <1>6 DEF QueueOK
    <3>3. QueueInv'
      BY <1>0, <1>4, <3>1, <3>2, QueueStep
    <3>4. ASSUME NEW j \in Ids
          PROVE  Holders(sock'[e], j) \subseteq Holders(sock[e], j)
      <4>1. Holds(s1(k), j) => Holds(sock[e][i], j)
        BY <1>3, <1>4 DEF Holds
      <4> QED BY <1>0, <1>4, <3>1, <4>1, SocketStep
    <3>5. /\ sock'[Other(e)] = sock[Other(e)]
          /\ \A j \in Ids : sock'[e][j].rd = sock[e][j].rd
      BY <1>0, <1>4, <3>1, OtherType DEF TypeOK
    <3>6. \A j \in Ids : sock[e][j].rd \in BOOLEAN
      BY <1>0 DEF TypeOK, Asocket
    <3> QED BY <3>3, <3>4, <3>5, <3>6
  <2> QED BY <2>1, <2>2
<1>8. /\ ch'[e] = ch[e]
      /\ \/ ch'[Other(e)] = remote_socket_shutdown(ch[Other(e)], i, s)
         \/ ch'[Other(e)] = ch[Other(e)]
  <2>1. ch' = [ch EXCEPT ![Other(e)] =
                  IF err THEN remote_socket_shutdown(@, i, s) ELSE @]
    BY Zenon DEF SocketBlocked
  <2> QED BY <1>0, <1>1, <2>1, OtherType DEF TypeOK
<1>9. \A j \in Ids : /\ Uses(ch'[Other(e)], j) = Uses(ch[Other(e)], j)
                     /\ Returns(ch'[Other(e)], j) = Returns(ch[Other(e)], j)
  BY <1>1, <1>8, ShutdownPlaces
<1> QED BY <1>0, <1>7, <1>8, <1>9, StepKeeps

\* A stale read event of a closing socket.
LEMMA StaleWindow ==
  ASSUME WindowInv, NEW e \in End, NEW i \in Ids, NEW eof \in BOOLEAN,
         StaleReadable(e, i, eof)
  PROVE  QueueInv' /\ \A f \in End, k \in Ids : Keeps(f, k)
<1> DEFINE s == sock[e][i]
           x == [s EXCEPT !.stale = FALSE]
<1>0. TypeOK /\ QueueInv /\ s \in Asocket
  BY DEF WindowInv, TypeOK
<1>1. /\ x \in Asocket /\ x.rd = s.rd /\ x.st = s.st
      /\ x.peer = s.peer /\ x.wr = s.wr /\ x.pkts = s.pkts
  BY <1>0 DEF Asocket
<1>2. QueueOK(s) /\ Len(s.pkts) <= MaxPayload
  BY <1>0 DEF QueueInv, QueueOK
<1>3. CASE eof
  <2>1. sock' = [sock EXCEPT ![e][i] = local_socket_close_locked(s, FALSE)]
        /\ FALSE \in BOOLEAN /\ ch' = ch
    BY <1>3 DEF StaleReadable
  <2>2. /\ QueueInv'
        /\ sock'[Other(e)] = sock[Other(e)]
        /\ \A k \in Ids : /\ sock'[e][k].rd \in BOOLEAN
                          /\ sock'[e][k].rd => sock[e][k].rd
                          /\ Holders(sock'[e], k) \subseteq Holders(sock[e], k)
    BY <1>0, <1>2, <2>1, CloseStep
  <2> QED BY <1>0, <2>1, <2>2, StepKeeps
<1>4. CASE ~eof
  <2>1. sock' = [sock EXCEPT ![e][i] = x] /\ ch' = ch
    BY <1>4 DEF StaleReadable
  <2> HIDE DEF x
  <2>2. QueueOK(x)
    BY <1>1, <1>2 DEF QueueOK
  <2>3. QueueInv'
    BY <1>0, <1>1, <2>1, <2>2, QueueStep
  <2>4. ASSUME NEW k \in Ids
        PROVE  Holders(sock'[e], k) \subseteq Holders(sock[e], k)
    <3>1. Holds(x, k) => Holds(sock[e][i], k)
      BY <1>1 DEF Holds
    <3> QED BY <1>0, <1>1, <2>1, <3>1, SocketStep
  <2>5. /\ sock'[Other(e)] = sock[Other(e)]
        /\ \A k \in Ids : sock'[e][k].rd = sock[e][k].rd
    BY <1>0, <1>1, <2>1, OtherType DEF TypeOK
  <2>6. \A k \in Ids : sock[e][k].rd \in BOOLEAN
    BY <1>0 DEF TypeOK, Asocket
  <2> QED BY <1>0, <2>1, <2>3, <2>4, <2>5, <2>6, StepKeeps
<1> QED BY <1>3, <1>4

\* handle_offline() and close_all_sockets() close several sockets at once.
LEMMA SweepStep ==
  ASSUME TypeOK, QueueInv, NEW e \in End, NEW swept \in [Ids -> Asocket],
         \A i \in Ids : \/ swept[i] = sock[e][i]
                        \/ \E stale \in BOOLEAN :
                              swept[i] = local_socket_close_locked(sock[e][i], stale),
         sock' = [sock EXCEPT ![e] = swept]
  PROVE  /\ QueueInv'
         /\ sock'[Other(e)] = sock[Other(e)]
         /\ \A k \in Ids : /\ sock'[e][k].rd \in BOOLEAN
                           /\ sock'[e][k].rd => sock[e][k].rd
                           /\ Holders(sock'[e], k) \subseteq Holders(sock[e], k)
<1>1. sock'[Other(e)] = sock[Other(e)] /\ sock'[e] = swept
  BY OtherType DEF TypeOK
<1>2. ASSUME NEW i \in Ids
      PROVE  /\ QueueOK(swept[i]) /\ swept[i].rd \in BOOLEAN
             /\ swept[i].rd => sock[e][i].rd
             /\ swept[i].st = "open" => swept[i] = sock[e][i]
  <2>1. sock[e][i] \in Asocket /\ QueueOK(sock[e][i]) /\ sock[e][i].rd \in BOOLEAN
    BY DEF TypeOK, Asocket, QueueInv
  <2>2. CASE swept[i] = sock[e][i]
    BY <2>1, <2>2
  <2>3. ASSUME NEW stale \in BOOLEAN,
               swept[i] = local_socket_close_locked(sock[e][i], stale)
        PROVE  /\ QueueOK(swept[i]) /\ swept[i].rd = FALSE /\ swept[i].st # "open"
    <3>1. /\ swept[i].rd = FALSE /\ swept[i].st # "open"
          /\ swept[i].pkts = <<>> \/ swept[i].pkts = sock[e][i].pkts
      <4> DEFINE c == local_socket_close_locked(sock[e][i], stale)
      <4>1. /\ c.rd = FALSE /\ c.st # "open"
            /\ c.pkts = <<>> \/ c.pkts = sock[e][i].pkts
        BY <2>1, CloseFields
      <4> QED BY <2>3, <4>1
    <3>2. Len(<<>>) <= MaxPayload
      BY BoundsAssumption
    <3> QED BY <2>1, <3>1, <3>2 DEF QueueOK
  <2> QED BY <2>2, <2>3
<1>3. QueueInv'
  <2>1. \A f \in End, k \in Ids : QueueOK(sock'[f][k])
    BY <1>1, <1>2, BothEnds DEF QueueInv
  <2> QED BY <2>1 DEF QueueInv, QueueOK
<1>4. ASSUME NEW k \in Ids PROVE Holders(sock'[e], k) \subseteq Holders(sock[e], k)
  <2>1. ASSUME NEW j \in Ids, Holds(swept[j], k) PROVE Holds(sock[e][j], k)
    BY <1>2, <2>1, Zenon DEF Holds
  <2> QED BY <1>1, <2>1, HoldersDef
<1> QED BY <1>1, <1>2, <1>3, <1>4

LEMMA SyncWindow ==
  ASSUME WindowInv, NEW e \in End, HandleSync(e)
  PROVE  QueueInv' /\ \A f \in End, k \in Ids : Keeps(f, k)
<1>0. TypeOK /\ QueueInv
  BY DEF WindowInv
<1>1. ch[e] # <<>> /\ ch' = [ch EXCEPT ![e] = Tail(@)]
  BY DEF HandleSync, Arrives
<1>2. ch'[e] = Tail(ch[e]) /\ ch'[Other(e)] = ch[Other(e)]
  BY <1>0, <1>1, OtherType DEF TypeOK
<1>3. PICK stale \in [Ids -> BOOLEAN] :
         sock' = [sock EXCEPT ![e] = [i \in Ids |->
                    remote_socket_disconnect(sock[e][i], stale[i])]]
  BY Zenon DEF HandleSync, handle_offline
<1> DEFINE swept == [i \in Ids |-> remote_socket_disconnect(sock[e][i], stale[i])]
<1>4. \A i \in Ids : /\ sock[e][i] \in Asocket /\ stale[i] \in BOOLEAN
                     /\ local_socket_close_locked(sock[e][i], stale[i]) \in Asocket
  BY <1>0, CloseType, Zenon DEF TypeOK
<1>5. /\ swept \in [Ids -> Asocket]
      /\ \A i \in Ids : \/ swept[i] = sock[e][i]
                        \/ swept[i] = local_socket_close_locked(sock[e][i], stale[i])
  BY <1>4 DEF remote_socket_disconnect
<1>6. sock' = [sock EXCEPT ![e] = swept]
  BY <1>3
<1> HIDE DEF swept
<1>7. /\ QueueInv'
      /\ sock'[Other(e)] = sock[Other(e)]
      /\ \A k \in Ids : /\ sock'[e][k].rd \in BOOLEAN
                        /\ sock'[e][k].rd => sock[e][k].rd
                        /\ Holders(sock'[e], k) \subseteq Holders(sock[e], k)
  BY <1>0, <1>4, <1>5, <1>6, SweepStep, ZenonT(60)
<1> QED BY <1>0, <1>1, <1>2, <1>7, StepKeeps

LEMMA CloseAllWindow ==
  ASSUME WindowInv, NEW e \in End, CloseAllSockets(e)
  PROVE  QueueInv' /\ \A f \in End, k \in Ids : Keeps(f, k)
<1>0. TypeOK /\ QueueInv /\ ch' = ch /\ FALSE \in BOOLEAN
  BY DEF WindowInv, CloseAllSockets
<1> DEFINE swept == [i \in Ids |->
                       IF sock[e][i].st = "open"
                       THEN local_socket_close_locked(sock[e][i], FALSE)
                       ELSE sock[e][i]]
<1>1. \A i \in Ids : /\ sock[e][i] \in Asocket
                     /\ local_socket_close_locked(sock[e][i], FALSE) \in Asocket
  BY <1>0, CloseType, Zenon DEF TypeOK
<1>2. /\ swept \in [Ids -> Asocket]
      /\ \A i \in Ids : \/ swept[i] = sock[e][i]
                        \/ swept[i] = local_socket_close_locked(sock[e][i], FALSE)
  BY <1>1
<1>3. sock' = [sock EXCEPT ![e] = swept]
  BY Zenon DEF CloseAllSockets
<1> HIDE DEF swept
<1>4. /\ QueueInv'
      /\ sock'[Other(e)] = sock[Other(e)]
      /\ \A k \in Ids : /\ sock'[e][k].rd \in BOOLEAN
                        /\ sock'[e][k].rd => sock[e][k].rd
                        /\ Holders(sock'[e], k) \subseteq Holders(sock[e], k)
  BY <1>0, <1>2, <1>3, SweepStep
<1> QED BY <1>0, <1>4, StepKeeps

\* The link breaks: what was not yet read from it is lost.
LEMMA LinkDownWindow ==
  ASSUME WindowInv, LinkDown
  PROVE  QueueInv' /\ \A f \in End, k \in Ids : Keeps(f, k)
<1> DEFINE sync == Pkt("SYNC", 0, 0, <<>>)
<1>0. TypeOK /\ QueueInv /\ sock' = sock
  BY DEF WindowInv, LinkDown
<1>1. QueueInv'
  BY <1>0 DEF QueueInv, QueueOK
<1>2. sync \in Packet /\ sync.cmd = "SYNC"
  BY ZeroId, PktType, EmptyPayload DEF Command, Pkt
<1>3. ASSUME NEW f \in End
      PROVE  /\ ch[f] \in Seq(Packet)
             /\ \E n \in 0..Len(ch[f]) : ch'[f] = Append(SubSeq(ch[f], 1, n), sync)
  <2>1. PICK host \in 0..Len(ch["host"]), device \in 0..Len(ch["device"]) :
           ch' = [e \in End |->
                    Append(SubSeq(ch[e], 1, IF e = "host" THEN host ELSE device),
                           sync)]
    BY Zenon DEF LinkDown
  <2> HIDE DEF sync
  <2>2. CASE f = "host"
    BY <1>0, <2>1, <2>2 DEF TypeOK
  <2>3. CASE f = "device"
    BY <1>0, <2>1, <2>3 DEF TypeOK
  <2> QED BY <2>2, <2>3 DEF End
<1> HIDE DEF sync
<1>4. ASSUME NEW f \in End, NEW k \in Ids
      PROVE  /\ Uses(ch'[f], k) \subseteq Uses(ch[f], k)
             /\ Returns(ch'[f], k) \subseteq Returns(ch[f], k)
  <2>1. PICK n \in 0..Len(ch[f]) : ch'[f] = Append(SubSeq(ch[f], 1, n), sync)
    BY <1>3
  <2> DEFINE u == SubSeq(ch[f], 1, n)
  <2>2. u \in Seq(Packet) /\ ch'[f] = Append(u, sync)
    BY <1>3, <2>1
  <2>3. /\ Uses(u, k) \subseteq Uses(ch[f], k)
        /\ Returns(u, k) \subseteq Returns(ch[f], k)
    BY <1>3, PrefixPlaces
  <2> HIDE DEF u
  <2>4. /\ Uses(Append(u, sync), k) = Uses(u, k)
        /\ Returns(Append(u, sync), k) = Returns(u, k)
    BY <1>2, <2>2, AppendPlaces
  <2> QED BY <2>2, <2>3, <2>4
<1>5. ASSUME NEW f \in End, NEW k \in Ids
      PROVE  /\ Uses(ch[f], k) = {} => Uses(ch'[f], k) = {}
             /\ AtMostOne(Uses(ch[f], k)) => AtMostOne(Uses(ch'[f], k))
             /\ Returns(ch[f], k) = {} => Returns(ch'[f], k) = {}
             /\ AtMostOne(Returns(ch[f], k)) => AtMostOne(Returns(ch'[f], k))
  BY <1>4, Zenon DEF AtMostOne
<1>6. ASSUME NEW f \in End, NEW k \in Ids PROVE Keeps(f, k)
  <2>1. sock[f][k].rd \in BOOLEAN /\ Other(f) \in End
    BY <1>0, OtherType DEF TypeOK, Asocket
  <2> QED BY <1>0, <1>5, <2>1, Shrinks
<1> QED BY <1>1, <1>6

-----------------------------------------------------------------------------
(* The theorems. *)

LEMMA InitWindow == Init => WindowInv
<1> SUFFICES ASSUME Init PROVE WindowInv
  OBVIOUS
<1>1. TypeOK
  BY InitType
<1>2. \A e \in End, i \in Ids :
         /\ sock[e][i].st = "none" /\ sock[e][i].rd = FALSE
         /\ sock[e][i].pkts = <<>>
  BY DEF Init, NoSocket, Idle
<1>3. QueueInv
  BY <1>2, BoundsAssumption DEF QueueInv, QueueOK
<1>4. ASSUME NEW e \in End, NEW i \in Ids PROVE One(e, i) /\ Quiet(e, i)
  <2>1. Holders(sock[Other(e)], i) = {}
    BY <1>2, OtherType DEF Holders
  <2>2. Uses(ch[Other(e)], i) = {} /\ Returns(ch[e], i) = {}
    BY OtherType DEF Uses, Returns, Init
  <2>3. AtMostOne({})
    BY DEF AtMostOne
  <2> QED BY <1>2, <2>1, <2>2, <2>3, Zenon DEF One, Quiet, Single, Empty
<1> QED BY <1>1, <1>3, <1>4 DEF WindowInv

\* The window is an inductive invariant.
LEMMA NextWindow == WindowInv /\ [Next]_vars => WindowInv'
<1> SUFFICES ASSUME WindowInv, [Next]_vars PROVE WindowInv'
  OBVIOUS
<1>1. TypeOK /\ TypeOK'
  BY TypeStep DEF WindowInv
<1>2. QueueInv' /\ \A f \in End, k \in Ids : After(f, k)
  <2>1. ASSUME QueueInv', \A f \in End, k \in Ids : Keeps(f, k), next_id' = next_id
        PROVE  QueueInv' /\ \A f \in End, k \in Ids : After(f, k)
    <3>1. \A f \in End : next_id[f] \in Nat /\ next_id'[f] \in Nat
                         /\ next_id'[f] >= next_id[f]
      BY <1>1, <2>1 DEF TypeOK
    <3> QED BY <2>1, <3>1, KeepsAfter
  <2>2. CASE UNCHANGED vars
    <3>1. sock' = sock /\ ch' = ch /\ next_id' = next_id
      BY <2>2 DEF vars
    <3>2. QueueInv'
      BY <3>1 DEF WindowInv, QueueInv, QueueOK
    <3>3. \A f \in End, k \in Ids : Keeps(f, k)
      BY <3>1, Zenon DEF Keeps, One, Quiet
    <3> QED BY <2>1, <3>1, <3>2, <3>3
  <2>3. CASE LinkDown
    BY <2>1, <2>3, LinkDownWindow DEF LinkDown
  <2>4. ASSUME NEW e \in End, HandlePacket(e)
        PROVE  QueueInv' /\ \A f \in End, k \in Ids : After(f, k)
    <3>1. CASE HandleOpen(e)
      BY <3>1, OpenWindow
    <3>2. CASE HandleOkay(e)
      BY <2>1, <3>2, OkayWindow DEF HandleOkay
    <3>3. CASE HandleClse(e)
      BY <2>1, <3>3, ClseWindow DEF HandleClse
    <3>4. CASE HandleWrte(e)
      BY <2>1, <3>4, WrteWindow DEF HandleWrte
    <3>5. CASE HandleSync(e)
      BY <2>1, <3>5, SyncWindow DEF HandleSync
    <3> QED BY <2>4, <3>1, <3>2, <3>3, <3>4, <3>5 DEF HandlePacket
  <2>5. ASSUME NEW e \in End, NEW i \in Ids, SocketEvent(e, i)
        PROVE  QueueInv' /\ \A f \in End, k \in Ids : After(f, k)
    <3>1. CASE SocketReadable(e, i)
      BY <2>1, <3>1, ReadableWindow DEF SocketReadable
    <3>2. CASE SocketDrained(e, i)
      BY <2>1, <3>2, DrainedWindow DEF SocketDrained
    <3>3. ASSUME NEW err \in BOOLEAN, SocketBlocked(e, i, err)
          PROVE  QueueInv' /\ \A f \in End, k \in Ids : After(f, k)
      BY <2>1, <3>3, BlockedWindow DEF SocketBlocked
    <3>4. ASSUME NEW eof \in BOOLEAN, StaleReadable(e, i, eof)
          PROVE  QueueInv' /\ \A f \in End, k \in Ids : After(f, k)
      BY <2>1, <3>4, StaleWindow DEF StaleReadable
    <3> QED BY <2>5, <3>1, <3>2, <3>3, <3>4 DEF SocketEvent
  <2>6. ASSUME NEW e \in End,
               ListenerConnect(e) \/ \E eof \in BOOLEAN : SmartConnect(e, eof)
        PROVE  QueueInv' /\ \A f \in End, k \in Ids : After(f, k)
    BY <2>6, ConnectWindow
  <2>7. ASSUME NEW e \in End, CloseAllSockets(e)
        PROVE  QueueInv' /\ \A f \in End, k \in Ids : After(f, k)
    BY <2>1, <2>7, CloseAllWindow DEF CloseAllSockets
  <2> QED BY <2>2, <2>3, <2>4, <2>5, <2>6, <2>7 DEF Next
<1> QED BY <1>1, <1>2, Zenon DEF WindowInv, After, One, Quiet

\* Flow control of handle_packet() and local_socket_event_func(): a stream's
\* permission to send is never in two places.
THEOREM WindowHolds == Spec => []WindowOfOne
<1>1. WindowInv => WindowOfOne
  BY OneIsWindow DEF WindowInv, WindowOfOne
<1> QED BY <1>1, InitWindow, NextWindow, PTL DEF Spec

\* local_socket_enqueue() never queues more than one packet on a socket.
THEOREM BacklogHolds == Spec => []BacklogBounded
<1>1. WindowInv => BacklogBounded
  BY DEF WindowInv, QueueInv, QueueOK, BacklogBounded
<1> QED BY <1>1, InitWindow, NextWindow, PTL DEF Spec

\* local_socket_event_func() finds a peer to call ready() on when the queue of
\* an open socket has drained.
THEOREM PeerHolds == Spec => []WriterHasPeer
<1>1. WindowInv => WriterHasPeer
  BY Zenon DEF WindowInv, QueueInv, QueueOK, WriterHasPeer
<1> QED BY <1>1, InitWindow, NextWindow, PTL DEF Spec
-----------------------------------------------------------------------------
(***************************************************************************)
(* Pairing.  A socket forgets its peer when it closes, while packets that  *)
(* name it are still under way; so the pairing that the invariant is about *)
(* is that of every place that names two sockets together, packets         *)
(* included.                                                               *)
(***************************************************************************)

\* A packet of q names a as the sender's socket and b as the receiver's.
Said(q, a, b) == \E n \in DOMAIN q : q[n].arg0 = a /\ q[n].arg1 = b

\* Socket i of an end with sockets mine and input in, and socket j of the other
\* end with sockets theirs and input back, are named together somewhere.
Together(mine, theirs, in, back, i, j) ==
    \/ mine[i].peer = j \/ theirs[j].peer = i
    \/ Said(in, j, i) \/ Said(back, i, j)

Linked(e, i, j) ==
    Together(sock[e], sock[Other(e)], ch[e], ch[Other(e)], i, j)

\* An OPEN of socket i is under way in q.
Asked(q, i) == \E n \in DOMAIN q : q[n].cmd = "OPEN" /\ q[n].arg0 = i

\* No socket is linked to two, an id that is not handed out is linked to none,
\* and neither is a socket whose OPEN is still under way.
MatchInv ==
    \A e \in End, i \in Ids :
        /\ \A j, k \in Ids : Linked(e, i, j) /\ Linked(e, i, k) => j = k
        /\ \A j \in Ids : Linked(e, i, j) => i < next_id[e]
        /\ Asked(ch[Other(e)], i) =>
              i < next_id[e] /\ \A j \in Ids : ~Linked(e, i, j)

\* The transport of each end: SYNC(0, 0) comes once, behind everything else,
\* and only when the link is down.
PhaseInv ==
    \A e \in End :
        /\ online[e] <=> pump[e] = "running"
        /\ up => online[e]
        /\ \A n \in DOMAIN ch[e] : ch[e][n].cmd = "SYNC" =>
              ~up /\ online[e] /\ n = Len(ch[e])

\* A socket is open only after its id was handed out, it forgets its peer when
\* it closes, it is closed when its CLSE is under way, and what it said while
\* it is open was said to its peer.
ClosedInv ==
    \A e \in End :
        /\ \A i \in Ids : IF sock[e][i].st = "open" THEN i < next_id[e]
                                                    ELSE sock[e][i].peer = 0
        /\ \A n \in DOMAIN ch[Other(e)] : LET p == ch[Other(e)][n] IN
              p.arg0 # 0 =>
                  /\ p.arg0 < next_id[e]
                  /\ p.cmd = "CLSE" => sock[e][p.arg0].st # "open"
                  /\ (p.arg1 # 0 /\ sock[e][p.arg0].st = "open") =>
                        sock[e][p.arg0].peer = p.arg1

PairInv ==
    /\ WindowInv /\ PhaseInv /\ NoneOutlivesTransport
    /\ ClosedInv /\ CloseIsLast /\ MatchInv

-----------------------------------------------------------------------------
(* What a step of one end may do. *)

\* End e answers the OPEN of socket j with its new socket i.
Accepted(e, i, j) ==
    /\ Arrives(e, "OPEN") /\ Head(ch[e]).arg0 = j
    /\ ch'[e] = Tail(ch[e])
    /\ i = next_id[e] /\ i < next_id'[e]

\* End e may send p.
Fits(e, p) ==
    /\ p.cmd # "SYNC"
    /\ p.cmd = "OPEN" => /\ p.arg0 = next_id[e] /\ next_id[e] < next_id'[e]
                         /\ p.arg1 = 0 /\ ch'[e] = ch[e]
    /\ p.arg0 # 0 => \/ sock[e][p.arg0].st = "open"
                     \/ /\ p.arg0 = next_id[e] /\ next_id[e] < next_id'[e]
                        /\ p.cmd # "CLSE"
    /\ (p.cmd = "CLSE" /\ p.arg0 # 0) => sock'[e][p.arg0].st # "open"
    /\ (p.arg0 # 0 /\ p.arg1 # 0) =>
          /\ Linked(e, p.arg0, p.arg1) \/ Accepted(e, p.arg0, p.arg1)
          /\ sock'[e][p.arg0].st = "open" => sock'[e][p.arg0].peer = p.arg1

\* End e's socket i may become x.
Tame(e, i, x) ==
    /\ x.st = "open" => \/ sock[e][i].st = "open" /\ sock[e][i].peer \in {0, x.peer}
                        \/ i = next_id[e] /\ i < next_id'[e] /\ online[e]
    /\ x.st # "open" => \/ x.peer = 0
                        \/ sock[e][i].st # "open" /\ x.peer = sock[e][i].peer
    /\ x.peer \in Ids => \/ x.peer = sock[e][i].peer
                         \/ Said(ch[e], x.peer, i)
                         \/ Accepted(e, i, x.peer)

SockShape(e) ==
    /\ sock'[Other(e)] = sock[Other(e)]
    /\ \A i \in Ids : Tame(e, i, sock'[e][i])

SendShape(e) ==
    LET q == ch[Other(e)] IN
    \/ ch'[Other(e)] = q
    \/ /\ up
       /\ \E p \in Packet : Fits(e, p) /\ ch'[Other(e)] = Append(q, p)
    \/ /\ up
       /\ \E p, c \in Packet :
             /\ Fits(e, p) /\ Fits(e, c) /\ p.cmd # "CLSE"
             /\ ch'[Other(e)] = Append(Append(q, p), c)

Shape(e) ==
    /\ SockShape(e) /\ SendShape(e)
    /\ ch'[e] = ch[e] \/ (ch[e] # <<>> /\ ch'[e] = Tail(ch[e]))
    /\ next_id'[Other(e)] = next_id[Other(e)] /\ next_id'[e] >= next_id[e]
    /\ up' = up

LEMMA TameOne ==
  ASSUME TypeOK, NEW e \in End, NEW s \in Ids, NEW x,
         sock' = [sock EXCEPT ![e][s] = x], Tame(e, s, x)
  PROVE  SockShape(e) /\ sock'[e][s] = x
<1>1. /\ sock'[Other(e)] = sock[Other(e)]
      /\ sock'[e][s] = x
      /\ \A k \in Ids : k # s => sock'[e][k] = sock[e][k]
  BY OtherType DEF TypeOK
<1>2. \A k \in Ids : Tame(e, k, sock[e][k])
  BY Zenon DEF Tame, Linked, Together
<1> QED BY <1>1, <1>2, Zenon DEF SockShape

LEMMA TameMany ==
  ASSUME TypeOK, NEW e \in End, NEW swept,
         sock' = [sock EXCEPT ![e] = swept],
         \A i \in Ids : swept[i] = sock[e][i] \/ Tame(e, i, swept[i])
  PROVE  SockShape(e) /\ sock'[e] = swept
<1>1. sock'[Other(e)] = sock[Other(e)] /\ sock'[e] = swept
  BY OtherType DEF TypeOK
<1>2. \A k \in Ids : Tame(e, k, sock[e][k])
  BY Zenon DEF Tame, Linked, Together
<1> QED BY <1>1, <1>2, Zenon DEF SockShape

LEMMA DestroyFields ==
  /\ local_socket_destroy.st = "freed" /\ local_socket_destroy.peer = 0
  /\ local_socket_destroy.pkts = <<>>
  BY DEF local_socket_destroy, Idle

LEMMA CloseTame ==
  ASSUME NEW s \in Asocket, NEW stale \in BOOLEAN, NEW e, NEW i
  PROVE  LET c == local_socket_close_locked(s, stale) IN
         c.st # "open" /\ c.peer = 0 /\ Tame(e, i, c)
<1> DEFINE c == local_socket_close_locked(s, stale)
           d == [s EXCEPT !.st = "closing", !.peer = 0, !.rd = FALSE, !.stale = stale]
<1>1. d.st # "open" /\ d.peer = 0
  BY DEF Asocket
<1> HIDE DEF d
<1>2. c = local_socket_destroy \/ c = d
  BY Zenon DEF local_socket_close_locked, d
<1> HIDE DEF c
<1>3. c.st # "open" /\ c.peer = 0
  BY <1>1, <1>2, DestroyFields
<1>4. Tame(e, i, c)
  BY <1>3, ZeroId, Zenon DEF Tame
<1> QED BY <1>3, <1>4 DEF c

\* A socket that changes neither its state nor its peer.
LEMMA SameTame ==
  ASSUME NEW e, NEW i, NEW x, x.st = sock[e][i].st, x.peer = sock[e][i].peer
  PROVE  Tame(e, i, x)
  BY Zenon DEF Tame, Linked, Together

\* remote_socket_shutdown() of a socket that closes.
LEMMA ShutdownFits ==
  ASSUME TypeOK, NEW e \in End, NEW i \in Ids, sock[e][i].st = "open",
         sock'[e][i].st # "open", NEW q \in Seq(Packet)
  PROVE  \/ remote_socket_shutdown(q, i, sock[e][i]) = q
         \/ /\ up
            /\ \E c \in Packet :
                  /\ Fits(e, c)
                  /\ remote_socket_shutdown(q, i, sock[e][i]) = Append(q, c)
<1> DEFINE c == Pkt("CLSE", i, sock[e][i].peer, <<>>)
<1>1. sock[e][i].peer \in 0..MaxId /\ i \in 0..MaxId
  BY ZeroId DEF TypeOK, Asocket
<1>2. /\ c \in Packet /\ c.cmd = "CLSE" /\ c.arg0 = i
      /\ c.arg1 = sock[e][i].peer
  BY <1>1, PktType, EmptyPayload DEF Command, Pkt
<1>3. \/ remote_socket_shutdown(q, i, sock[e][i]) = q
      \/ up /\ remote_socket_shutdown(q, i, sock[e][i]) = Append(q, c)
  BY Zenon DEF remote_socket_shutdown, send_close, send_packet
<1>4. Linked(e, i, sock[e][i].peer)
  BY Zenon DEF Linked, Together
<1> HIDE DEF c
<1>5. Fits(e, c)
  BY <1>2, <1>4 DEF Fits
<1> QED BY <1>2, <1>3, <1>5, Zenon

\* send_ready() for a socket and the peer it is linked to.
LEMMA ReadyFits ==
  ASSUME TypeOK, NEW e \in End, NEW i \in Ids, NEW j \in 0..MaxId,
         sock[e][i].st = "open", j # 0 => Linked(e, i, j), NEW q \in Seq(Packet),
         j # 0 => sock'[e][i].peer = j
  PROVE  \/ send_ready(q, i, j) = q
         \/ /\ up
            /\ \E c \in Packet : Fits(e, c) /\ send_ready(q, i, j) = Append(q, c)
<1> DEFINE c == Pkt("OKAY", i, j, <<>>)
<1>2. c \in Packet /\ c.cmd = "OKAY" /\ c.arg0 = i /\ c.arg1 = j
  BY ZeroId, PktType, EmptyPayload DEF Command, Pkt
<1>3. send_ready(q, i, j) = q \/ (up /\ send_ready(q, i, j) = Append(q, c))
  BY Zenon DEF send_ready, send_packet
<1> HIDE DEF c
<1>5. Fits(e, c)
  BY <1>2 DEF Fits
<1> QED BY <1>2, <1>3, <1>5, Zenon

LEMMA NextIdSame ==
  ASSUME TypeOK, NEW e \in End, next_id' = next_id
  PROVE  next_id'[Other(e)] = next_id[Other(e)] /\ next_id'[e] >= next_id[e]
<1>1. next_id[e] \in Nat
  BY DEF TypeOK
<1> QED BY <1>1

LEMMA ConnectShape ==
  ASSUME TypeOK, NEW e \in End,
         ListenerConnect(e) \/ \E eof \in BOOLEAN : SmartConnect(e, eof)
  PROVE  Shape(e)
<1> DEFINE i == next_id[e]
           p == Pkt("OPEN", i, 0, <<>>)
<1>1. /\ online[e] /\ i <= MaxId
      /\ next_id' = [next_id EXCEPT ![e] = @ + 1]
      /\ ch' = [ch EXCEPT ![Other(e)] = send_packet(@, p)]
      /\ up' = up
      /\ \/ sock' = [sock EXCEPT ![e][i] = create_local_socket(0, FALSE, FALSE)]
         \/ sock' = [sock EXCEPT ![e][i] = create_local_socket(0, TRUE, FALSE)]
         \/ sock' = [sock EXCEPT ![e][i] = local_socket_destroy]
  BY Zenon DEF ListenerConnect, SmartConnect
<1>2. /\ i \in Ids /\ i < next_id'[e] /\ next_id'[e] >= next_id[e]
      /\ next_id'[Other(e)] = next_id[Other(e)]
  <2>1. next_id \in [End -> 1..(MaxId + 1)] /\ i \in 1..(MaxId + 1)
    BY DEF TypeOK
  <2>2. i \in Ids
    BY <1>1, <2>1, BoundsAssumption DEF Ids
  <2>3. next_id'[e] = i + 1 /\ next_id'[Other(e)] = next_id[Other(e)]
    BY <1>1, <2>1, OtherType
  <2> QED BY <2>1, <2>2, <2>3, BoundsAssumption
<1>3. /\ p \in Packet /\ p.cmd = "OPEN" /\ p.arg0 = i /\ p.arg1 = 0
  BY <1>2, ZeroId, PktType, EmptyPayload DEF Command, Pkt
<1> HIDE DEF p
<1>4. /\ ch'[e] = ch[e] /\ ch'[Other(e)] = send_packet(ch[Other(e)], p)
  BY <1>1, OtherType DEF TypeOK
<1>5. Fits(e, p)
  BY <1>2, <1>3, <1>4 DEF Fits
<1>6. SendShape(e)
  BY <1>3, <1>4, <1>5, Zenon DEF SendShape, send_packet
<1>7. SockShape(e)
  <2>1. PICK x : /\ sock' = [sock EXCEPT ![e][i] = x]
                 /\ \/ x = create_local_socket(0, FALSE, FALSE)
                    \/ x = create_local_socket(0, TRUE, FALSE)
                    \/ x = local_socket_destroy
    BY <1>1
  <2>2. x.peer = 0
    BY <2>1 DEF create_local_socket, local_socket_destroy, Idle
  <2>3. Tame(e, i, x)
    BY <1>1, <1>2, <2>2, ZeroId DEF Tame
  <2> QED BY <1>2, <2>1, <2>3, TameOne
<1> QED BY <1>1, <1>2, <1>4, <1>6, <1>7 DEF Shape

LEMMA OpenShape ==
  ASSUME TypeOK, NEW e \in End, HandleOpen(e)
  PROVE  Shape(e)
<1> DEFINE p == Head(ch[e])
           i == next_id[e]
           j == p.arg0
           ignored == ~online[e] \/ p.arg0 = 0 \/ p.arg1 # 0
<1>1. ch[e] # <<>> /\ Arrives(e, "OPEN") /\ up' = up
  BY DEF HandleOpen, Arrives
<1>2. /\ ch[Other(e)] \in Seq(Packet) /\ Other(e) \in End /\ ch[e] \in Seq(Packet)
      /\ p.arg0 \in 0..MaxId
  BY <1>1, HeadType, OtherType DEF TypeOK
<1>3. CASE /\ UNCHANGED <<sock, next_id>>
           /\ ch' = [ch EXCEPT ![e] = Tail(@),
                               ![Other(e)] = IF ignored
                                             THEN @
                                             ELSE send_close(@, 0, p.arg0)]
  <2> DEFINE c == Pkt("CLSE", 0, p.arg0, <<>>)
  <2>1. c \in Packet /\ c.cmd = "CLSE" /\ c.arg0 = 0
    BY <1>2, ZeroId, PktType, EmptyPayload DEF Command, Pkt
  <2>2. /\ ch'[e] = Tail(ch[e])
        /\ \/ ch'[Other(e)] = ch[Other(e)]
           \/ ch'[Other(e)] = send_close(ch[Other(e)], 0, p.arg0)
    BY <1>3, OtherType DEF TypeOK
  <2>3. \/ ch'[Other(e)] = ch[Other(e)]
        \/ up /\ ch'[Other(e)] = Append(ch[Other(e)], c)
    BY <2>2, Zenon DEF send_close, send_packet
  <2> HIDE DEF c
  <2>4. Fits(e, c)
    BY <2>1 DEF Fits
  <2>5. SendShape(e)
    BY <2>1, <2>3, <2>4, Zenon DEF SendShape
  <2>6. SockShape(e)
    BY <1>3, SameTame, Zenon DEF SockShape
  <2>7. next_id'[Other(e)] = next_id[Other(e)] /\ next_id'[e] >= next_id[e]
    BY <1>3, NextIdSame
  <2> QED BY <1>1, <2>2, <2>5, <2>6, <2>7 DEF Shape
<1>4. CASE /\ ~ignored /\ i <= MaxId
           /\ sock' = [sock EXCEPT ![e][i] =
                          create_local_socket(p.arg0, FALSE, TRUE)]
           /\ next_id' = [next_id EXCEPT ![e] = @ + 1]
           /\ ch' = [ch EXCEPT ![e] = Tail(@),
                               ![Other(e)] = send_ready(@, i, p.arg0)]
  <2>1. /\ i \in Ids /\ next_id'[e] > i /\ next_id'[e] >= next_id[e]
        /\ next_id'[Other(e)] = next_id[Other(e)]
    <3>1. next_id \in [End -> 1..(MaxId + 1)] /\ i \in 1..(MaxId + 1)
      BY DEF TypeOK
    <3>2. i \in Ids
      BY <1>4, <3>1, BoundsAssumption DEF Ids
    <3>3. next_id'[e] = i + 1 /\ next_id'[Other(e)] = next_id[Other(e)]
      BY <1>4, <3>1, OtherType
    <3> QED BY <3>1, <3>2, <3>3, BoundsAssumption
  <2>2. /\ ch'[e] = Tail(ch[e])
        /\ ch'[Other(e)] = send_ready(ch[Other(e)], i, j)
    BY <1>4, OtherType DEF TypeOK
  <2>3. Accepted(e, i, j)
    BY <1>1, <2>1, <2>2 DEF Accepted
  <2> DEFINE c == Pkt("OKAY", i, j, <<>>)
             x == create_local_socket(j, FALSE, TRUE)
  <2>4. c \in Packet /\ c.cmd = "OKAY" /\ c.arg0 = i /\ c.arg1 = j
    BY <1>2, <2>1, ZeroId, PktType, EmptyPayload DEF Command, Pkt
  <2>5. \/ ch'[Other(e)] = ch[Other(e)]
        \/ up /\ ch'[Other(e)] = Append(ch[Other(e)], c)
    BY <2>2, Zenon DEF send_ready, send_packet
  <2>6. x.peer = j /\ x.st = "open"
    BY DEF create_local_socket, Idle
  <2>7. sock' = [sock EXCEPT ![e][i] = x]
    BY <1>4
  <2> HIDE DEF c, x
  <2>8. Tame(e, i, x)
    BY <1>4, <2>1, <2>3, <2>6 DEF Tame
  <2>9. SockShape(e) /\ sock'[e][i] = x
    BY <2>1, <2>7, <2>8, TameOne
  <2>10. Fits(e, c)
    BY <2>1, <2>3, <2>4, <2>6, <2>9 DEF Fits
  <2>11. SendShape(e)
    BY <2>4, <2>5, <2>10, Zenon DEF SendShape
  <2> QED BY <1>1, <2>1, <2>2, <2>9, <2>11 DEF Shape
<1> QED BY <1>3, <1>4, Zenon DEF HandleOpen

\* A packet that names both sockets links them.
LEMMA HeadLinks ==
  ASSUME TypeOK, NEW e \in End, ch[e] # <<>>
  PROVE  /\ Said(ch[e], Head(ch[e]).arg0, Head(ch[e]).arg1)
         /\ Linked(e, Head(ch[e]).arg1, Head(ch[e]).arg0)
<1>1. ch[e] \in Seq(Packet)
  BY DEF TypeOK
<1>2. 1 \in DOMAIN ch[e] /\ Head(ch[e]) = ch[e][1]
  BY <1>1
<1>3. Said(ch[e], Head(ch[e]).arg0, Head(ch[e]).arg1)
  BY <1>2 DEF Said
<1> QED BY <1>3, Zenon DEF Linked, Together

LEMMA OkayShape ==
  ASSUME TypeOK, NEW e \in End, HandleOkay(e)
  PROVE  Shape(e)
<1> DEFINE p == Head(ch[e])
           s == p.arg1
<1>1. /\ ch[e] # <<>> /\ ch' = [ch EXCEPT ![e] = Tail(@)]
      /\ up' = up /\ next_id' = next_id
  BY DEF HandleOkay, Arrives
<1>2. /\ p.arg0 \in 0..MaxId /\ p.arg1 \in 0..MaxId /\ 0 \in 0..MaxId
      /\ ch'[e] = Tail(ch[e]) /\ ch'[Other(e)] = ch[Other(e)]
      /\ next_id'[Other(e)] = next_id[Other(e)] /\ next_id'[e] >= next_id[e]
  BY <1>1, HeadType, ZeroId, NextIdSame, OtherType DEF TypeOK
<1>3. SockShape(e)
  <2>1. CASE UNCHANGED <<sock, status>>
    BY <2>1, SameTame, Zenon DEF SockShape
  <2>2. CASE /\ find_local_socket(e, p.arg1, 0) # 0
             /\ sock[e][find_local_socket(e, p.arg1, 0)].peer \in {0, p.arg0}
             /\ sock' = [sock EXCEPT ![e][find_local_socket(e, p.arg1, 0)] =
                            local_socket_ready(@, p.arg0)]
    <3>1. /\ s \in Ids /\ sock[e][s].st = "open"
          /\ find_local_socket(e, p.arg1, 0) = s
      BY <1>2, <2>2, Found
    <3> DEFINE x == local_socket_ready(sock[e][s], p.arg0)
    <3>2. sock[e][s] \in Asocket
      BY <3>1 DEF TypeOK
    <3>3. x.st = "open" /\ x.peer = p.arg0
      BY <1>2, <3>1, <3>2, ReadyFields
    <3>4. sock' = [sock EXCEPT ![e][s] = x]
      BY <2>2, <3>1
    <3> HIDE DEF x
    <3>5. Tame(e, s, x)
      BY <1>1, <2>2, <3>1, <3>3, HeadLinks DEF Tame
    <3> QED BY <3>1, <3>4, <3>5, TameOne
  <2> QED BY <2>1, <2>2, Zenon DEF HandleOkay
<1>4. SendShape(e)
  BY <1>2 DEF SendShape
<1> QED BY <1>1, <1>2, <1>3, <1>4 DEF Shape

LEMMA ClseShape ==
  ASSUME TypeOK, NEW e \in End, HandleClse(e)
  PROVE  Shape(e)
<1> DEFINE p == Head(ch[e])
           s == p.arg1
           found == find_local_socket(e, p.arg1, p.arg0)
<1>1. ch[e] # <<>> /\ up' = up /\ next_id' = next_id
  BY DEF HandleClse, Arrives
<1>2. /\ p.arg0 \in 0..MaxId /\ p.arg1 \in 0..MaxId
      /\ next_id'[Other(e)] = next_id[Other(e)] /\ next_id'[e] >= next_id[e]
      /\ ch[Other(e)] \in Seq(Packet)
  BY <1>1, HeadType, NextIdSame, OtherType DEF TypeOK
<1>3. CASE ch' = [ch EXCEPT ![e] = Tail(@)] /\ UNCHANGED <<sock, status>>
  <2>1. ch'[e] = Tail(ch[e]) /\ ch'[Other(e)] = ch[Other(e)]
    BY <1>3, OtherType DEF TypeOK
  <2>2. SockShape(e)
    BY <1>3, SameTame, Zenon DEF SockShape
  <2> QED BY <1>1, <1>2, <2>1, <2>2 DEF Shape, SendShape
<1>4. CASE /\ found # 0
           /\ \E stale \in MayBeStale(sock[e][found]) :
                 sock' = [sock EXCEPT ![e][found] =
                             local_socket_close_locked(@, stale)]
           /\ ch' = [ch EXCEPT ![e] = Tail(@),
                               ![Other(e)] =
                                  remote_socket_shutdown(@, found, sock[e][found])]
  <2>1. s \in Ids /\ sock[e][s].st = "open" /\ found = s
    BY <1>2, <1>4, Found
  <2> HIDE DEF found, s
  <2>2. PICK stale \in BOOLEAN :
           sock' = [sock EXCEPT ![e][s] =
                       local_socket_close_locked(sock[e][s], stale)]
    BY <1>4, <2>1, Zenon DEF MayBeStale
  <2> DEFINE x == local_socket_close_locked(sock[e][s], stale)
  <2>3. sock[e][s] \in Asocket
    BY <2>1 DEF TypeOK
  <2>4. x.st # "open" /\ Tame(e, s, x)
    BY <2>3, CloseTame
  <2> HIDE DEF x
  <2>5. sock' = [sock EXCEPT ![e][s] = x]
    BY <2>2 DEF x
  <2>6. SockShape(e) /\ sock'[e][s].st # "open"
    BY <2>1, <2>4, <2>5, TameOne
  <2>7. /\ ch'[e] = Tail(ch[e])
        /\ ch'[Other(e)] = remote_socket_shutdown(ch[Other(e)], s, sock[e][s])
    BY <1>4, <2>1, OtherType DEF TypeOK
  <2>8. SendShape(e)
    BY <1>2, <2>1, <2>6, <2>7, ShutdownFits DEF SendShape
  <2> QED BY <1>1, <1>2, <2>6, <2>7, <2>8 DEF Shape
<1> QED BY <1>3, <1>4, Zenon DEF HandleClse

LEMMA WrteShape ==
  ASSUME TypeOK, NEW e \in End, HandleWrte(e)
  PROVE  Shape(e)
<1> DEFINE p == Head(ch[e])
           s == p.arg1
           found == find_local_socket(e, p.arg1, p.arg0)
           answer(q, ret) ==
             CASE ret = "ready"   -> send_ready(q, found, p.arg0)
               [] ret = "error"   -> remote_socket_shutdown(q, found, sock[e][found])
               [] ret = "backlog" -> q
<1>1. ch[e] # <<>> /\ up' = up /\ next_id' = next_id
  BY DEF HandleWrte, Arrives
<1>2. /\ p.arg0 \in 0..MaxId /\ p.arg1 \in 0..MaxId /\ p.data \in Payload
      /\ next_id'[Other(e)] = next_id[Other(e)] /\ next_id'[e] >= next_id[e]
      /\ ch[Other(e)] \in Seq(Packet)
  BY <1>1, HeadType, NextIdSame, OtherType DEF TypeOK
<1>3. CASE ch' = [ch EXCEPT ![e] = Tail(@)] /\ UNCHANGED <<sock, out, broken>>
  <2>1. ch'[e] = Tail(ch[e]) /\ ch'[Other(e)] = ch[Other(e)]
    BY <1>3, OtherType DEF TypeOK
  <2>2. SockShape(e)
    BY <1>3, SameTame, Zenon DEF SockShape
  <2> QED BY <1>1, <1>2, <2>1, <2>2 DEF Shape, SendShape
<1>4. CASE /\ found # 0
           /\ \E r \in local_socket_enqueue(sock[e][found], p.data) :
                 /\ sock' = [sock EXCEPT ![e][found] = r.sock]
                 /\ ch' = [ch EXCEPT ![e] = Tail(@),
                                     ![Other(e)] = answer(@, r.ret)]
  <2>1. /\ s \in Ids /\ sock[e][s].st = "open" /\ found = s
        /\ p.arg0 # 0 => sock[e][s].peer = p.arg0
        /\ sock[e][s] \in Asocket
    BY <1>2, <1>4, Found DEF TypeOK
  <2> HIDE DEF found
  <2>2. PICK r \in local_socket_enqueue(sock[e][s], p.data) :
                 /\ sock' = [sock EXCEPT ![e][s] = r.sock]
                 /\ ch' = [ch EXCEPT ![e] = Tail(@),
                                     ![Other(e)] = answer(@, r.ret)]
    BY <1>4, <2>1
  <2>3. /\ ch'[e] = Tail(ch[e])
        /\ ch'[Other(e)] = answer(ch[Other(e)], r.ret)
    BY <2>2, OtherType DEF TypeOK
  <2>4. /\ r.wrote \in 0..Len(p.data)
        /\ \/ r.ret = "ready" /\ r.sock = sock[e][s]
           \/ r.ret = "backlog" /\ r.sock = Backlog(sock[e][s], p.data, r.wrote)
           \/ r.ret = "error" /\ r.sock = local_socket_close_locked(sock[e][s], FALSE)
    BY <1>2, <2>1, <2>2, EnqueueCases
  <2>5. /\ Tame(e, s, r.sock)
        /\ r.ret = "error" => r.sock.st # "open"
    <3>1. CASE r.ret = "ready" /\ r.sock = sock[e][s]
      BY <3>1, SameTame
    <3>2. CASE r.ret = "backlog" /\ r.sock = Backlog(sock[e][s], p.data, r.wrote)
      <4> DEFINE b == Backlog(sock[e][s], p.data, r.wrote)
      <4>1. b.st = sock[e][s].st /\ b.peer = sock[e][s].peer
        BY <2>1 DEF Backlog, Asocket
      <4> QED BY <3>2, <4>1, SameTame
    <3>3. CASE r.ret = "error" /\ r.sock = local_socket_close_locked(sock[e][s], FALSE)
      <4> DEFINE c == local_socket_close_locked(sock[e][s], FALSE)
      <4>1. c.st # "open" /\ Tame(e, s, c)
        BY <2>1, CloseTame
      <4> QED BY <3>3, <4>1
    <3> QED BY <2>4, <3>1, <3>2, <3>3
  <2>6. SockShape(e) /\ sock'[e][s] = r.sock
    BY <2>1, <2>2, <2>5, TameOne
  <2>7. SendShape(e)
    <3>1. CASE r.ret = "ready"
      <4>1. ch'[Other(e)] = send_ready(ch[Other(e)], s, p.arg0)
        BY <2>1, <2>3, <3>1
      <4>2. /\ Linked(e, s, p.arg0)
            /\ p.arg0 # 0 => sock'[e][s].peer = p.arg0
        BY <1>1, <2>1, <2>4, <2>6, <3>1, HeadLinks
      <4> QED BY <1>2, <2>1, <4>1, <4>2, ReadyFits, SMTT(60), ZenonT(60) DEF SendShape
    <3>2. CASE r.ret = "error"
      <4>1. ch'[Other(e)] = remote_socket_shutdown(ch[Other(e)], s, sock[e][s])
        BY <2>1, <2>3, <3>2
      <4> QED BY <1>2, <2>1, <2>5, <2>6, <3>2, <4>1, ShutdownFits DEF SendShape
    <3>3. CASE r.ret = "backlog"
      BY <2>3, <3>3 DEF SendShape
    <3> QED BY <2>4, <3>1, <3>2, <3>3
  <2> QED BY <1>1, <1>2, <2>3, <2>6, <2>7 DEF Shape
<1> QED BY <1>3, <1>4, Zenon DEF HandleWrte

LEMMA SyncShape ==
  ASSUME TypeOK, NEW e \in End, HandleSync(e)
  PROVE  Shape(e)
<1>1. /\ ch[e] # <<>> /\ ch' = [ch EXCEPT ![e] = Tail(@)]
      /\ up' = up /\ next_id' = next_id
  BY DEF HandleSync, Arrives
<1>2. /\ ch'[e] = Tail(ch[e]) /\ ch'[Other(e)] = ch[Other(e)]
      /\ next_id'[Other(e)] = next_id[Other(e)] /\ next_id'[e] >= next_id[e]
  BY <1>1, NextIdSame, OtherType DEF TypeOK
<1>3. PICK stale \in [Ids -> BOOLEAN] :
         sock' = [sock EXCEPT ![e] = [i \in Ids |->
                    remote_socket_disconnect(sock[e][i], stale[i])]]
  BY Zenon DEF HandleSync, handle_offline
<1> DEFINE swept == [i \in Ids |-> remote_socket_disconnect(sock[e][i], stale[i])]
<1>4. \A i \in Ids : /\ sock[e][i] \in Asocket /\ stale[i] \in BOOLEAN
                     /\ Tame(e, i, local_socket_close_locked(sock[e][i], stale[i]))
  BY CloseTame DEF TypeOK
<1>5. \A i \in Ids : swept[i] = sock[e][i] \/ Tame(e, i, swept[i])
  BY <1>4, Zenon DEF remote_socket_disconnect
<1>6. sock' = [sock EXCEPT ![e] = swept]
  BY <1>3
<1> HIDE DEF swept
<1>7. SockShape(e)
  BY <1>5, <1>6, TameMany
<1> QED BY <1>1, <1>2, <1>7 DEF Shape, SendShape

LEMMA CloseAllShape ==
  ASSUME TypeOK, NEW e \in End, CloseAllSockets(e)
  PROVE  Shape(e) /\ \A i \in Ids : sock'[e][i].st # "open"
<1>1. ch' = ch /\ up' = up /\ next_id' = next_id
  BY DEF CloseAllSockets
<1>2. next_id'[Other(e)] = next_id[Other(e)] /\ next_id'[e] >= next_id[e]
  BY <1>1, NextIdSame
<1> DEFINE c(i) == local_socket_close_locked(sock[e][i], FALSE)
           swept == [i \in Ids |-> IF sock[e][i].st = "open" THEN c(i)
                                   ELSE sock[e][i]]
<1>3. \A i \in Ids : Tame(e, i, c(i)) /\ c(i).st # "open"
  <2> TAKE i \in Ids
  <2>1. sock[e][i] \in Asocket
    BY DEF TypeOK
  <2> QED BY <2>1, CloseTame
<1>4. sock' = [sock EXCEPT ![e] = swept]
  BY Zenon DEF CloseAllSockets
<1> HIDE DEF c
<1>5. \A i \in Ids : /\ swept[i] = sock[e][i] \/ Tame(e, i, swept[i])
                     /\ swept[i].st # "open"
  BY <1>3, Zenon
<1> HIDE DEF swept
<1>6. SockShape(e) /\ sock'[e] = swept
  BY <1>4, <1>5, TameMany
<1> QED BY <1>1, <1>2, <1>5, <1>6 DEF Shape, SendShape

LEMMA ReadableShape ==
  ASSUME TypeOK, NEW e \in End, NEW i \in Ids, SocketReadable(e, i)
  PROVE  Shape(e)
<1> DEFINE s == sock[e][i]
           q == ch[Other(e)]
           data(r) == [n \in 1..r.got |-> <<i, sent[e][i] + n>>]
           enqueue(r) == r.got > 0 /\ s.peer # 0
           w(r) == Pkt("WRTE", i, s.peer, data(r))
           q1(r) == IF enqueue(r) THEN send_packet(q, w(r)) ELSE q
           s1(r) == [s EXCEPT !.rd = ~enqueue(r)]
<1>1. PICK r \in ReadLoop(MaxPayload) :
          /\ sent[e][i] + r.got <= MaxUnits
          /\ sock' = [sock EXCEPT ![e][i] =
                         IF r.is_eof THEN local_socket_close_locked(s1(r), FALSE)
                                     ELSE s1(r)]
          /\ ch' = [ch EXCEPT ![Other(e)] =
                       IF r.is_eof THEN remote_socket_shutdown(q1(r), i, s)
                                   ELSE q1(r)]
  BY Zenon DEF SocketReadable
<1>2. r.got \in 0..MaxPayload /\ r.is_eof \in BOOLEAN
  BY <1>1 DEF ReadLoop
<1>3. /\ s \in Asocket /\ s.peer \in 0..MaxId /\ sent[e][i] \in 0..MaxUnits
      /\ q \in Seq(Packet) /\ Other(e) \in End /\ i \in 0..MaxId
  BY OtherType, ZeroId DEF TypeOK, Asocket
<1>4. s.st = "open" /\ up' = up /\ next_id' = next_id
  BY DEF SocketReadable
<1>5. data(r) \in Payload
  <2>1. \A n \in 1..r.got : <<i, sent[e][i] + n>> \in Unit
    BY <1>1, <1>2, <1>3, BoundsAssumption, SMTT(60) DEF Unit
  <2>2. data(r) \in Seq(Unit) /\ Len(data(r)) = r.got
    BY <1>2, <2>1
  <2> QED BY <1>2, <2>2 DEF Payload
<1>6. w(r) \in Packet /\ w(r).cmd = "WRTE" /\ w(r).arg0 = i /\ w(r).arg1 = s.peer
  BY <1>3, <1>5, PktType DEF Command, Pkt
<1>7. s1(r) \in Asocket /\ s1(r).st = s.st /\ s1(r).peer = s.peer
  BY <1>3 DEF Asocket
<1>8. Linked(e, i, s.peer)
  BY Zenon DEF Linked, Together
<1> HIDE DEF w, s1
<1>9. sock'[e][i].st = "open" => sock'[e][i].peer = s.peer
  <2> DEFINE c == local_socket_close_locked(s1(r), FALSE)
  <2>1. sock'[e][i] = IF r.is_eof THEN c ELSE s1(r)
    BY <1>1, <1>3 DEF TypeOK
  <2>2. c.st # "open"
    BY <1>7, CloseTame
  <2> HIDE DEF c
  <2> QED BY <1>7, <2>1, <2>2, Zenon
<1>10. Fits(e, w(r))
  BY <1>4, <1>6, <1>8, <1>9 DEF Fits
<1>11. q1(r) = q \/ (up /\ q1(r) = Append(q, w(r)))
  BY Zenon DEF send_packet
<1> HIDE DEF q1
<1>12. q1(r) \in Seq(Packet)
  BY <1>3, <1>6, <1>11, SMTT(60)
<1>13. ch'[e] = ch[e] /\ next_id'[Other(e)] = next_id[Other(e)]
       /\ next_id'[e] >= next_id[e]
  BY <1>1, <1>4, OtherType, NextIdSame DEF TypeOK
<1>14. CASE r.is_eof
  <2> DEFINE x == local_socket_close_locked(s1(r), FALSE)
  <2>1. sock' = [sock EXCEPT ![e][i] = x]
        /\ ch'[Other(e)] = remote_socket_shutdown(q1(r), i, s)
    BY <1>1, <1>3, <1>14 DEF TypeOK
  <2>2. x.st # "open" /\ Tame(e, i, x)
    BY <1>7, CloseTame
  <2> HIDE DEF x
  <2>3. SockShape(e) /\ sock'[e][i].st # "open"
    BY <2>1, <2>2, TameOne
  <2>4. \/ ch'[Other(e)] = q1(r)
        \/ up /\ \E c \in Packet : Fits(e, c) /\ ch'[Other(e)] = Append(q1(r), c)
    BY <1>4, <1>12, <2>1, <2>3, ShutdownFits
  <2>5. w(r).cmd # "CLSE"
    BY <1>6
  <2>6. SendShape(e)
    BY <1>6, <1>10, <1>11, <2>4, <2>5, Zenon DEF SendShape
  <2> QED BY <1>4, <1>13, <2>3, <2>6 DEF Shape
<1>15. CASE ~r.is_eof
  <2>1. sock' = [sock EXCEPT ![e][i] = s1(r)] /\ ch'[Other(e)] = q1(r)
    BY <1>1, <1>3, <1>15 DEF TypeOK
  <2>2. Tame(e, i, s1(r))
    BY <1>7, SameTame
  <2>3. SockShape(e)
    BY <2>1, <2>2, TameOne
  <2>4. SendShape(e)
    BY <1>6, <1>10, <1>11, <2>1, Zenon DEF SendShape
  <2> QED BY <1>4, <1>13, <2>3, <2>4 DEF Shape
<1> QED BY <1>14, <1>15

LEMMA DrainedShape ==
  ASSUME TypeOK, NEW e \in End, NEW i \in Ids, SocketDrained(e, i)
  PROVE  Shape(e)
<1> DEFINE s == sock[e][i]
           d == [s EXCEPT !.pkts = <<>>, !.wr = FALSE]
<1>1. /\ s \in Asocket /\ s.peer \in 0..MaxId
      /\ ch[Other(e)] \in Seq(Packet) /\ Other(e) \in End
  BY OtherType DEF TypeOK, Asocket
<1>2. /\ s.st \in {"open", "closing"}
      /\ sock' = [sock EXCEPT ![e][i] = IF s.st = "closing"
                                        THEN local_socket_destroy ELSE d]
      /\ ch' = [ch EXCEPT ![Other(e)] =
                   IF s.st = "closing" THEN @ ELSE send_ready(@, i, s.peer)]
      /\ up' = up /\ next_id' = next_id
  BY Zenon DEF SocketDrained
<1>3. d.st = s.st /\ d.peer = s.peer
  BY <1>1 DEF Asocket
<1> HIDE DEF d
<1>4. Linked(e, i, s.peer)
  BY Zenon DEF Linked, Together
<1>5. /\ ch'[e] = ch[e] /\ next_id'[Other(e)] = next_id[Other(e)]
      /\ next_id'[e] >= next_id[e]
      /\ ch'[Other(e)] = IF s.st = "closing" THEN ch[Other(e)]
                         ELSE send_ready(ch[Other(e)], i, s.peer)
  BY <1>1, <1>2, OtherType, NextIdSame DEF TypeOK
<1>6. SockShape(e)
  <2>1. Tame(e, i, local_socket_destroy)
    BY DestroyFields, ZeroId DEF Tame
  <2>2. Tame(e, i, d)
    BY <1>3, SameTame
  <2>3. Tame(e, i, IF s.st = "closing" THEN local_socket_destroy ELSE d)
    BY <2>1, <2>2, Zenon
  <2> QED BY <1>2, <2>3, TameOne
<1>7. sock'[e][i] = IF s.st = "closing" THEN local_socket_destroy ELSE d
  BY <1>2 DEF TypeOK
<1>8. SendShape(e)
  <2>1. CASE s.st = "closing"
    BY <1>5, <2>1 DEF SendShape
  <2>2. CASE s.st # "closing"
    <3>1. /\ s.st = "open" /\ ch'[Other(e)] = send_ready(ch[Other(e)], i, s.peer)
          /\ sock'[e][i].peer = s.peer
      BY <1>2, <1>3, <1>5, <1>7, <2>2
    <3> QED BY <1>1, <1>4, <3>1, ReadyFits DEF SendShape
  <2> QED BY <2>1, <2>2
<1> QED BY <1>2, <1>5, <1>6, <1>8 DEF Shape

LEMMA BlockedShape ==
  ASSUME TypeOK, NEW e \in End, NEW i \in Ids, NEW err \in BOOLEAN,
         SocketBlocked(e, i, err),
         sock[e][i].st = "closing" => sock[e][i].peer = 0
  PROVE  Shape(e)
<1> DEFINE s == sock[e][i]
           n == Len(s.pkts)
           s1(k) == [s EXCEPT !.pkts = SubSeq(s.pkts, k + 1, n)]
<1>1. /\ s \in Asocket /\ s.pkts \in Seq(Unit) /\ n \in Nat
      /\ ch[Other(e)] \in Seq(Packet) /\ Other(e) \in End
  BY OtherType DEF TypeOK, Asocket
<1>2. PICK k \in 0..n :
          sock' = [sock EXCEPT ![e][i] =
                      IF err THEN local_socket_close_locked(s1(k), FALSE)
                             ELSE s1(k)]
  BY Zenon DEF SocketBlocked
<1>3. s1(k) \in Asocket /\ s1(k).st = s.st /\ s1(k).peer = s.peer
  <2>1. SubSeq(s.pkts, k + 1, n) \in Seq(Unit)
    BY <1>1
  <2>2. s1(k) \in Asocket
    BY <1>1, <2>1, QueueType
  <2> QED BY <1>1, <2>2 DEF Asocket
<1> HIDE DEF s1
<1>4. /\ s.st \in {"open", "closing"} /\ up' = up /\ next_id' = next_id
      /\ ch' = [ch EXCEPT ![Other(e)] =
                   IF err THEN remote_socket_shutdown(@, i, s) ELSE @]
  BY Zenon DEF SocketBlocked
<1>5. /\ ch'[e] = ch[e] /\ next_id'[Other(e)] = next_id[Other(e)]
      /\ next_id'[e] >= next_id[e]
      /\ ch'[Other(e)] = IF err THEN remote_socket_shutdown(ch[Other(e)], i, s)
                                ELSE ch[Other(e)]
  BY <1>1, <1>4, OtherType, NextIdSame DEF TypeOK
<1>6. CASE err
  <2> DEFINE x == local_socket_close_locked(s1(k), FALSE)
  <2>1. x.st # "open" /\ Tame(e, i, x)
    BY <1>3, CloseTame
  <2>2. sock' = [sock EXCEPT ![e][i] = x]
    BY <1>2, <1>6
  <2> HIDE DEF x
  <2>3. SockShape(e) /\ sock'[e][i].st # "open"
    BY <2>1, <2>2, TameOne
  <2>4. ch'[Other(e)] = remote_socket_shutdown(ch[Other(e)], i, s)
    BY <1>5, <1>6
  <2>5. SendShape(e)
    <3>1. CASE s.st = "open"
      BY <1>1, <2>3, <2>4, <3>1, ShutdownFits DEF SendShape
    <3>2. CASE s.peer = 0
      BY <2>4, <3>2 DEF SendShape, remote_socket_shutdown
    <3> QED BY <1>4, <3>1, <3>2
  <2> QED BY <1>4, <1>5, <2>3, <2>5 DEF Shape
<1>7. CASE ~err
  <2>1. sock' = [sock EXCEPT ![e][i] = s1(k)] /\ ch'[Other(e)] = ch[Other(e)]
    BY <1>2, <1>5, <1>7
  <2>2. Tame(e, i, s1(k))
    BY <1>3, SameTame
  <2>3. SockShape(e)
    BY <2>1, <2>2, TameOne
  <2> QED BY <1>4, <1>5, <2>1, <2>3 DEF Shape, SendShape
<1> QED BY <1>6, <1>7

LEMMA StaleShape ==
  ASSUME TypeOK, NEW e \in End, NEW i \in Ids, NEW eof \in BOOLEAN,
         StaleReadable(e, i, eof)
  PROVE  Shape(e)
<1> DEFINE s == sock[e][i]
           c == local_socket_close_locked(s, FALSE)
           x == [s EXCEPT !.stale = FALSE]
<1>1. s \in Asocket
  BY DEF TypeOK
<1>2. x.st = s.st /\ x.peer = s.peer
  BY <1>1 DEF Asocket
<1>3. Tame(e, i, c) /\ Tame(e, i, x)
  BY <1>1, <1>2, CloseTame, SameTame
<1> HIDE DEF c, x
<1>4. /\ sock' = [sock EXCEPT ![e][i] = IF eof THEN c ELSE x]
      /\ ch' = ch /\ up' = up /\ next_id' = next_id
  BY Zenon DEF StaleReadable, c, x
<1>5. Tame(e, i, IF eof THEN c ELSE x)
  BY <1>3, Zenon
<1>6. SockShape(e)
  BY <1>4, <1>5, TameOne
<1>7. next_id'[Other(e)] = next_id[Other(e)] /\ next_id'[e] >= next_id[e]
  BY <1>4, NextIdSame
<1> QED BY <1>4, <1>6, <1>7 DEF Shape, SendShape

-----------------------------------------------------------------------------
(* Steps of that shape keep the invariant. *)

\* Place by place, what end e's step adds to the other end's input.
Adds(e) ==
    LET q == ch[Other(e)]
        r == ch'[Other(e)]
    IN
    \A n \in DOMAIN r :
        \/ n \in DOMAIN q /\ r[n] = q[n]
        \/ /\ up /\ n > Len(q) /\ Fits(e, r[n])
           /\ r[n].cmd = "CLSE" => n = Len(r)

\* Place by place, what remains of its own input.
Drops(e) ==
    \A n \in DOMAIN ch'[e] :
        \/ n \in DOMAIN ch[e] /\ ch'[e][n] = ch[e][n] /\ ch'[e] = ch[e]
        \/ /\ n + 1 \in DOMAIN ch[e] /\ ch'[e][n] = ch[e][n + 1]
           /\ Len(ch[e]) = Len(ch'[e]) + 1

LEMMA ShapePlaces ==
  ASSUME TypeOK, NEW e \in End, Shape(e)
  PROVE  Adds(e) /\ Drops(e)
<1>1. ch[e] \in Seq(Packet) /\ ch[Other(e)] \in Seq(Packet)
  BY OtherType DEF TypeOK
<1>2. Drops(e)
  <2>1. CASE ch'[e] = ch[e]
    BY <2>1 DEF Drops
  <2>2. CASE ch[e] # <<>> /\ ch'[e] = Tail(ch[e])
    BY <1>1, <2>2 DEF Drops
  <2> QED BY <2>1, <2>2 DEF Shape
<1>3. Adds(e)
  <2> DEFINE q == ch[Other(e)]
             r == ch'[Other(e)]
  <2>0. Len(q) \in Nat /\ DOMAIN q = 1..Len(q)
    BY <1>1
  <2>1. CASE r = q
    BY <2>1 DEF Adds
  <2>2. ASSUME up, NEW p \in Packet, Fits(e, p), r = Append(q, p) PROVE Adds(e)
    <3>1. /\ DOMAIN r = 1..(Len(q) + 1) /\ Len(r) = Len(q) + 1
          /\ \A n \in 1..Len(q) : r[n] = q[n]
          /\ r[Len(q) + 1] = p
      BY <1>1, <2>2
    <3> HIDE DEF q, r
    <3>2. \A n \in DOMAIN r : (n \in DOMAIN q /\ r[n] = q[n])
                              \/ (n > Len(q) /\ r[n] = p /\ n = Len(r))
      BY <2>0, <3>1
    <3> QED BY <2>2, <3>2, Zenon DEF Adds, q, r
  <2>3. ASSUME up, NEW p \in Packet, NEW c \in Packet, Fits(e, p), Fits(e, c),
               p.cmd # "CLSE", r = Append(Append(q, p), c)
        PROVE  Adds(e)
    <3>1. /\ DOMAIN r = 1..(Len(q) + 2) /\ Len(r) = Len(q) + 2
          /\ \A n \in 1..Len(q) : r[n] = q[n]
          /\ r[Len(q) + 1] = p /\ r[Len(q) + 2] = c
      BY <1>1, <2>3
    <3> HIDE DEF q, r
    <3>2. \A n \in DOMAIN r : \/ n \in DOMAIN q /\ r[n] = q[n]
                              \/ n > Len(q) /\ r[n] = p
                              \/ n > Len(q) /\ r[n] = c /\ n = Len(r)
      BY <2>0, <3>1
    <3> QED BY <2>3, <3>2, Zenon DEF Adds, q, r
  <2> QED BY <2>1, <2>2, <2>3 DEF Shape, SendShape
<1> QED BY <1>2, <1>3

LEMMA ClosedStep ==
  ASSUME TypeOK, TypeOK', ClosedInv, NEW e \in End, Shape(e)
  PROVE  ClosedInv'
<1>1. Adds(e) /\ Drops(e)
  BY ShapePlaces
<1>2. /\ Other(e) \in End /\ Other(Other(e)) = e
      /\ sock'[Other(e)] = sock[Other(e)]
      /\ \A i \in Ids : Tame(e, i, sock'[e][i])
      /\ next_id'[Other(e)] = next_id[Other(e)] /\ next_id'[e] >= next_id[e]
      /\ next_id[e] \in Nat /\ next_id'[e] \in Nat
  BY OtherType DEF Shape, SockShape, TypeOK
<1>3. \A i \in Ids : IF sock'[e][i].st = "open" THEN i < next_id'[e]
                                               ELSE sock'[e][i].peer = 0
  <2> TAKE i \in Ids
  <2>1. IF sock[e][i].st = "open" THEN i < next_id[e] ELSE sock[e][i].peer = 0
    BY DEF ClosedInv
  <2>2. /\ sock'[e][i].st = "open" => sock[e][i].st = "open" \/ i < next_id'[e]
        /\ sock'[e][i].st # "open" => \/ sock'[e][i].peer = 0
                                      \/ /\ sock[e][i].st # "open"
                                         /\ sock'[e][i].peer = sock[e][i].peer
    BY <1>2, Zenon DEF Tame
  <2>3. i \in Nat
    BY DEF Ids
  <2> QED BY <1>2, <2>1, <2>2, <2>3
<1>4. ASSUME NEW n \in DOMAIN ch'[Other(e)], ch'[Other(e)][n].arg0 # 0
      PROVE  LET p == ch'[Other(e)][n] IN
             /\ p.arg0 < next_id'[e]
             /\ p.cmd = "CLSE" => sock'[e][p.arg0].st # "open"
             /\ (p.arg1 # 0 /\ sock'[e][p.arg0].st = "open") =>
                   sock'[e][p.arg0].peer = p.arg1
  <2> DEFINE p == ch'[Other(e)][n]
             a == p.arg0
  <2>1. p \in Packet
    BY <1>2 DEF TypeOK
  <2>2. a \in Ids
    BY <1>4, <2>1 DEF Packet, Ids
  <2>3. CASE n \in DOMAIN ch[Other(e)] /\ p = ch[Other(e)][n]
    <3>1. /\ a < next_id[e] /\ (p.cmd = "CLSE" => sock[e][a].st # "open")
          /\ (p.arg1 # 0 /\ sock[e][a].st = "open") => sock[e][a].peer = p.arg1
      BY <1>4, <2>3 DEF ClosedInv
    <3>2. a # next_id[e] /\ a < next_id'[e]
      BY <1>2, <2>2, <3>1 DEF Ids
    <3>3. Tame(e, a, sock'[e][a])
      BY <1>2, <2>2
    <3> QED BY <3>1, <3>2, <3>3, Zenon DEF Tame
  <2>4. CASE Fits(e, p)
    <3>1. a < next_id'[e]
      <4>1. sock[e][a].st = "open" => a < next_id[e]
        BY <2>2 DEF ClosedInv
      <4>2. sock[e][a].st = "open" \/ (a = next_id[e] /\ a < next_id'[e])
        BY <1>4, <2>4 DEF Fits
      <4> QED BY <1>2, <2>2, <4>1, <4>2 DEF Ids
    <3> QED BY <1>4, <2>4, <3>1 DEF Fits
  <2> QED BY <1>1, <2>3, <2>4 DEF Adds
<1>5. ASSUME NEW n \in DOMAIN ch'[e], ch'[e][n].arg0 # 0
      PROVE  LET p == ch'[e][n] IN
             /\ p.arg0 < next_id'[Other(e)]
             /\ p.cmd = "CLSE" => sock'[Other(e)][p.arg0].st # "open"
             /\ (p.arg1 # 0 /\ sock'[Other(e)][p.arg0].st = "open") =>
                   sock'[Other(e)][p.arg0].peer = p.arg1
  <2>1. PICK m \in DOMAIN ch[e] : ch'[e][n] = ch[e][m]
    BY <1>1 DEF Drops
  <2>2. LET p == ch[e][m] IN
        /\ p.arg0 < next_id[Other(e)]
        /\ p.cmd = "CLSE" => sock[Other(e)][p.arg0].st # "open"
        /\ (p.arg1 # 0 /\ sock[Other(e)][p.arg0].st = "open") =>
              sock[Other(e)][p.arg0].peer = p.arg1
    BY <1>2, <1>5, <2>1 DEF ClosedInv
  <2> QED BY <1>2, <2>1, <2>2
<1>6. \A i \in Ids : IF sock'[Other(e)][i].st = "open" THEN i < next_id'[Other(e)]
                     ELSE sock'[Other(e)][i].peer = 0
  BY <1>2 DEF ClosedInv
<1>7. \A f \in End : f = e \/ f = Other(e)
  BY BothEnds
<1> QED BY <1>2, <1>3, <1>4, <1>5, <1>6, <1>7, SMTT(60), ZenonT(60) DEF ClosedInv

LEMMA LastStep ==
  ASSUME TypeOK, TypeOK', ClosedInv, CloseIsLast, NEW e \in End, Shape(e)
  PROVE  CloseIsLast'
<1>1. Adds(e) /\ Drops(e)
  BY ShapePlaces
<1>2. /\ Other(e) \in End /\ Other(Other(e)) = e
      /\ ch[e] \in Seq(Packet) /\ ch[Other(e)] \in Seq(Packet)
      /\ ch'[e] \in Seq(Packet) /\ ch'[Other(e)] \in Seq(Packet)
      /\ next_id[e] \in Nat
  BY OtherType DEF TypeOK
<1>3. ASSUME NEW m \in DOMAIN ch'[e], NEW n \in DOMAIN ch'[e], m < n,
             ch'[e][m].cmd = "CLSE", ch'[e][m].arg0 # 0
      PROVE  ch'[e][n].arg0 # ch'[e][m].arg0
  <2>1. CASE ch'[e] = ch[e]
    BY <1>3, <2>1 DEF CloseIsLast
  <2>2. CASE ch'[e] # ch[e]
    <3>1. /\ m + 1 \in DOMAIN ch[e] /\ ch'[e][m] = ch[e][m + 1]
          /\ n + 1 \in DOMAIN ch[e] /\ ch'[e][n] = ch[e][n + 1]
      BY <1>1, <2>2 DEF Drops
    <3>2. m + 1 < n + 1
      BY <1>2, <1>3
    <3> QED BY <1>3, <3>1, <3>2 DEF CloseIsLast
  <2> QED BY <2>1, <2>2
<1>4. ASSUME NEW m \in DOMAIN ch'[Other(e)], NEW n \in DOMAIN ch'[Other(e)],
             m < n, ch'[Other(e)][m].cmd = "CLSE", ch'[Other(e)][m].arg0 # 0
      PROVE  ch'[Other(e)][n].arg0 # ch'[Other(e)][m].arg0
  <2> DEFINE q == ch[Other(e)]
             r == ch'[Other(e)]
             a == r[m].arg0
  <2>0. m \in Nat /\ n \in Nat /\ n <= Len(r) /\ Len(r) \in Nat
        /\ Len(q) \in Nat /\ DOMAIN q = 1..Len(q)
    BY <1>2
  <2>1. m \in DOMAIN q /\ r[m] = q[m]
    <3>1. m # Len(r)
      BY <1>4, <2>0
    <3> QED BY <1>1, <1>4, <3>1 DEF Adds
  <2>2. CASE n \in DOMAIN q /\ r[n] = q[n]
    BY <1>2, <1>4, <2>1, <2>2 DEF CloseIsLast
  <2>3. CASE Fits(e, r[n])
    <3>1. a < next_id[e] /\ sock[e][a].st # "open"
      BY <1>4, <2>1 DEF ClosedInv
    <3>2. a \in Nat
      <4>1. r[m] \in Packet
        BY <1>2
      <4> QED BY <4>1 DEF Packet
    <3>3. a # next_id[e]
      BY <1>2, <3>1, <3>2
    <3> QED BY <1>4, <2>3, <3>1, <3>3, Zenon DEF Fits
  <2> QED BY <1>1, <2>2, <2>3 DEF Adds
<1>5. \A f \in End : f = e \/ f = Other(e)
  BY BothEnds
<1> QED BY <1>3, <1>4, <1>5 DEF CloseIsLast

\* The two ends see the same links.
LEMMA LinkedBothWays ==
  ASSUME NEW mine, NEW theirs, NEW in, NEW back, NEW i, NEW j
  PROVE  Together(mine, theirs, in, back, i, j)
            <=> Together(theirs, mine, back, in, j, i)
  BY Zenon DEF Together

\* The links after a step.
LinkedAfter(e, i, j) ==
    Together(sock'[e], sock'[Other(e)], ch'[e], ch'[Other(e)], i, j)

LEMMA LinkStep ==
  ASSUME TypeOK, TypeOK', NEW e \in End, Shape(e), NEW i \in Ids, NEW j \in Ids,
         LinkedAfter(e, i, j)
  PROVE  Linked(e, i, j) \/ Accepted(e, i, j)
<1>1. Adds(e) /\ Drops(e)
  BY ShapePlaces
<1>2. sock'[Other(e)] = sock[Other(e)] /\ Tame(e, i, sock'[e][i])
  BY DEF Shape, SockShape
<1>3. CASE sock'[e][i].peer = j
  BY <1>2, <1>3, Zenon DEF Tame, Linked, Together
<1>4. CASE sock'[Other(e)][j].peer = i
  BY <1>2, <1>4, Zenon DEF Linked, Together
<1>5. CASE Said(ch'[e], j, i)
  <2>1. Said(ch[e], j, i)
    BY <1>1, <1>5 DEF Drops, Said
  <2> QED BY <2>1, Zenon DEF Linked, Together
<1>6. CASE Said(ch'[Other(e)], i, j)
  <2>1. PICK n \in DOMAIN ch'[Other(e)] : /\ ch'[Other(e)][n].arg0 = i
                                          /\ ch'[Other(e)][n].arg1 = j
    BY <1>6 DEF Said
  <2>2. CASE n \in DOMAIN ch[Other(e)] /\ ch'[Other(e)][n] = ch[Other(e)][n]
    <3>1. Said(ch[Other(e)], i, j)
      BY <2>1, <2>2 DEF Said
    <3> QED BY <3>1, Zenon DEF Linked, Together
  <2>3. CASE Fits(e, ch'[Other(e)][n])
    BY <2>1, <2>3, ZeroId, Zenon DEF Fits
  <2> QED BY <1>1, <2>2, <2>3, Zenon DEF Adds
<1> QED BY <1>3, <1>4, <1>5, <1>6, Zenon DEF LinkedAfter, Together

\* Who asks after a step, and whether it could just have been accepted.
LEMMA AskedStep ==
  ASSUME WindowInv, NEW e \in End, Shape(e), NEW i \in Ids
  PROVE  /\ Asked(ch'[e], i) =>
               Asked(ch[e], i) /\ \A k \in Ids : ~Accepted(e, k, i)
         /\ Asked(ch'[Other(e)], i) =>
               \/ Asked(ch[Other(e)], i)
               \/ /\ i = next_id[e] /\ i < next_id'[e]
                  /\ \A k \in Ids : ~Accepted(e, i, k)
<1>0. TypeOK /\ ch[e] \in Seq(Packet)
  BY DEF WindowInv, TypeOK
<1>1. Adds(e) /\ Drops(e)
  BY <1>0, ShapePlaces
<1>2. Asked(ch'[e], i) => Asked(ch[e], i)
  BY <1>1 DEF Drops, Asked
<1>3. ASSUME NEW k \in Ids, Accepted(e, k, i) PROVE ~Asked(ch'[e], i)
  <2>1. /\ ch[e] # <<>> /\ Head(ch[e]).cmd = "OPEN" /\ Head(ch[e]).arg0 = i
        /\ ch'[e] = Tail(ch[e])
    BY <1>3 DEF Accepted, Arrives
  <2>2. Uses(ch'[e], i) = {}
    BY <2>1, TakenUse
  <2> QED BY <2>2 DEF Uses, Asked
<1>4. ASSUME Asked(ch'[Other(e)], i)
      PROVE  \/ Asked(ch[Other(e)], i)
             \/ /\ i = next_id[e] /\ i < next_id'[e]
                /\ \A k \in Ids : ~Accepted(e, i, k)
  <2>1. PICK n \in DOMAIN ch'[Other(e)] : /\ ch'[Other(e)][n].cmd = "OPEN"
                                          /\ ch'[Other(e)][n].arg0 = i
    BY <1>4 DEF Asked
  <2>2. CASE n \in DOMAIN ch[Other(e)] /\ ch'[Other(e)][n] = ch[Other(e)][n]
    BY <2>1, <2>2 DEF Asked
  <2>3. CASE Fits(e, ch'[Other(e)][n])
    <3>1. i = next_id[e] /\ i < next_id'[e] /\ ch'[e] = ch[e]
      BY <2>1, <2>3 DEF Fits
    <3>2. ch[e] # <<>> => Tail(ch[e]) # ch[e]
      <4> DEFINE t == Tail(ch[e])
      <4>1. ch[e] # <<>> => Len(t) = Len(ch[e]) - 1 /\ Len(ch[e]) \in Nat
        BY <1>0
      <4> HIDE DEF t
      <4>2. ch[e] # <<>> => t # ch[e]
        BY <4>1
      <4> QED BY <4>2 DEF t
    <3>3. \A k \in Ids : ~Accepted(e, i, k)
      BY <3>1, <3>2 DEF Accepted, Arrives
    <3> QED BY <3>1, <3>3
  <2> QED BY <1>1, <2>2, <2>3 DEF Adds
<1> QED BY <1>2, <1>3, <1>4

LEMMA MatchStep ==
  ASSUME WindowInv, TypeOK', MatchInv, NEW e \in End, Shape(e)
  PROVE  MatchInv'
<1> DEFINE f == Other(e)
<1>0. /\ TypeOK /\ f \in End /\ Other(f) = e
      /\ next_id[e] \in Nat /\ next_id'[e] \in Nat /\ next_id'[e] >= next_id[e]
      /\ next_id'[f] = next_id[f] /\ next_id[f] \in Nat
  BY OtherType DEF WindowInv, TypeOK, Shape
<1>1. \A i, j \in Ids : LinkedAfter(e, i, j) => Linked(e, i, j) \/ Accepted(e, i, j)
  BY <1>0, LinkStep
<1>2. \A i, j \in Ids : /\ Linked(f, j, i) <=> Linked(e, i, j)
                        /\ LinkedAfter(f, j, i) <=> LinkedAfter(e, i, j)
  BY <1>0, LinkedBothWays, Zenon DEF Linked, LinkedAfter
<1>3. \A i, j \in Ids : Accepted(e, i, j) =>
         i = next_id[e] /\ i < next_id'[e] /\ Asked(ch[e], j)
  <2> SUFFICES ASSUME NEW i \in Ids, NEW j \in Ids, Accepted(e, i, j)
               PROVE  i = next_id[e] /\ i < next_id'[e] /\ Asked(ch[e], j)
    OBVIOUS
  <2>1. ch[e] # <<>> /\ Head(ch[e]).cmd = "OPEN" /\ Head(ch[e]).arg0 = j
    BY DEF Accepted, Arrives
  <2>2. ch[e] \in Seq(Packet)
    BY <1>0 DEF TypeOK
  <2>3. 1 \in DOMAIN ch[e] /\ Head(ch[e]) = ch[e][1]
    BY <2>1, <2>2
  <2> QED BY <2>1, <2>3 DEF Accepted, Asked
<1>4. \A i, j, k \in Ids : Accepted(e, i, j) /\ Accepted(e, i, k) => j = k
  BY Zenon DEF Accepted
<1>5. \A i \in Ids :
         /\ \A j, k \in Ids : Linked(e, i, j) /\ Linked(e, i, k) => j = k
         /\ \A j \in Ids : Linked(e, i, j) => i < next_id[e]
         /\ Asked(ch[f], i) => i < next_id[e] /\ \A j \in Ids : ~Linked(e, i, j)
  BY <1>0 DEF MatchInv
<1>6. \A j \in Ids :
         /\ \A i, k \in Ids : Linked(f, j, i) /\ Linked(f, j, k) => i = k
         /\ \A i \in Ids : Linked(f, j, i) => j < next_id[f]
         /\ Asked(ch[e], j) => j < next_id[f] /\ \A i \in Ids : ~Linked(f, j, i)
  BY <1>0 DEF MatchInv
<1>7. \A i \in Ids :
         /\ Asked(ch'[e], i) =>
               Asked(ch[e], i) /\ \A k \in Ids : ~Accepted(e, k, i)
         /\ Asked(ch'[f], i) =>
               \/ Asked(ch[f], i)
               \/ /\ i = next_id[e] /\ i < next_id'[e]
                  /\ \A k \in Ids : ~Accepted(e, i, k)
  BY AskedStep
<1>8. \A i \in Ids : /\ i < next_id[e] => i # next_id[e] /\ i < next_id'[e]
                     /\ i \in Nat
  BY <1>0 DEF Ids
<1>9. ASSUME NEW i \in Ids
      PROVE  /\ \A j, k \in Ids : LinkedAfter(e, i, j) /\ LinkedAfter(e, i, k) => j = k
             /\ \A j \in Ids : LinkedAfter(e, i, j) => i < next_id'[e]
             /\ Asked(ch'[f], i) =>
                   i < next_id'[e] /\ \A j \in Ids : ~LinkedAfter(e, i, j)
  BY <1>1, <1>3, <1>4, <1>5, <1>7, <1>8, Zenon
<1>10. ASSUME NEW j \in Ids
       PROVE  /\ \A i, k \in Ids : LinkedAfter(f, j, i) /\ LinkedAfter(f, j, k) => i = k
              /\ \A i \in Ids : LinkedAfter(f, j, i) => j < next_id'[f]
              /\ Asked(ch'[e], j) =>
                    j < next_id'[f] /\ \A i \in Ids : ~LinkedAfter(f, j, i)
  BY <1>0, <1>1, <1>2, <1>3, <1>6, <1>7, Zenon
<1>11. \A g \in End : g = e \/ g = f
  BY BothEnds
<1> QED BY <1>0, <1>9, <1>10, <1>11, ZenonT(60) DEF MatchInv, Linked, LinkedAfter

\* SYNC(0, 0) stays the last packet; online is left alone.
LEMMA PhaseStep ==
  ASSUME TypeOK, TypeOK', PhaseInv, NEW e \in End, Shape(e),
         online' = online,
         \A g \in End : pump'[g] = "running" <=> pump[g] = "running"
  PROVE  PhaseInv'
<1>1. Adds(e) /\ Drops(e) /\ up' = up
  BY ShapePlaces DEF Shape
<1>2. /\ Other(e) \in End
      /\ ch[e] \in Seq(Packet) /\ ch[Other(e)] \in Seq(Packet)
      /\ ch'[e] \in Seq(Packet) /\ ch'[Other(e)] \in Seq(Packet)
  BY OtherType DEF TypeOK
<1>3. ASSUME NEW n \in DOMAIN ch'[e], ch'[e][n].cmd = "SYNC"
      PROVE  ~up /\ online[e] /\ n = Len(ch'[e])
  <2>1. CASE ch'[e] = ch[e]
    BY <1>3, <2>1 DEF PhaseInv
  <2>2. CASE /\ n + 1 \in DOMAIN ch[e] /\ ch'[e][n] = ch[e][n + 1]
             /\ Len(ch[e]) = Len(ch'[e]) + 1
    <3>1. ~up /\ online[e] /\ n + 1 = Len(ch[e])
      BY <1>3, <2>2 DEF PhaseInv
    <3>2. n \in Nat /\ Len(ch'[e]) \in Nat
      BY <1>2
    <3> QED BY <2>2, <3>1, <3>2
  <2> QED BY <1>1, <2>1, <2>2 DEF Drops
<1>4. ASSUME NEW n \in DOMAIN ch'[Other(e)], ch'[Other(e)][n].cmd = "SYNC"
      PROVE  ~up /\ online[Other(e)] /\ n = Len(ch'[Other(e)])
  <2> DEFINE q == ch[Other(e)]
             r == ch'[Other(e)]
  <2>1. n \in DOMAIN q /\ r[n] = q[n]
    BY <1>1, <1>4 DEF Adds, Fits
  <2>2. ~up /\ online[Other(e)] /\ n = Len(q)
    BY <1>2, <1>4, <2>1 DEF PhaseInv
  <2>3. r = q
    BY <2>2 DEF Shape, SendShape
  <2> QED BY <2>2, <2>3
<1>5. \A g \in End : g = e \/ g = Other(e)
  BY BothEnds
<1> QED BY <1>1, <1>3, <1>4, <1>5 DEF PhaseInv

\* Without its transport an end makes no new socket.
LEMMA OutliveStep ==
  ASSUME TypeOK, PhaseInv, NoneOutlivesTransport, NEW e \in End, Shape(e),
         \A g \in End : pump'[g] = "exited" => pump[g] = "exited"
  PROVE  NoneOutlivesTransport'
<1>1. ASSUME NEW g \in End, NEW i \in Ids, pump'[g] = "exited"
      PROVE  sock'[g][i].st # "open"
  <2>1. sock[g][i].st # "open" /\ ~online[g]
    BY <1>1 DEF NoneOutlivesTransport, PhaseInv
  <2>2. CASE g = e
    <3>1. Tame(e, i, sock'[e][i])
      BY DEF Shape, SockShape
    <3> QED BY <2>1, <2>2, <3>1, Zenon DEF Tame
  <2>3. CASE g = Other(e)
    BY <2>1, <2>3 DEF Shape, SockShape
  <2> QED BY <2>2, <2>3, BothEnds
<1> QED BY <1>1 DEF NoneOutlivesTransport

LEMMA ShapeStep ==
  ASSUME PairInv, WindowInv', NEW e \in End, Shape(e),
         PhaseInv', NoneOutlivesTransport'
  PROVE  PairInv'
<1>1. TypeOK /\ TypeOK' /\ WindowInv /\ ClosedInv /\ CloseIsLast /\ MatchInv
  BY DEF PairInv, WindowInv
<1>2. ClosedInv'
  BY <1>1, ClosedStep
<1>3. CloseIsLast'
  BY <1>1, LastStep
<1>4. MatchInv'
  BY <1>1, MatchStep
<1> QED BY <1>2, <1>3, <1>4 DEF PairInv

\* A step that leaves the transport alone.
LEMMA StreamStep ==
  ASSUME PairInv, WindowInv', NEW e \in End, Shape(e),
         online' = online, pump' = pump
  PROVE  PairInv'
<1>1. TypeOK /\ TypeOK' /\ PhaseInv /\ NoneOutlivesTransport
  BY DEF PairInv, WindowInv
<1>2. PhaseInv'
  BY <1>1, PhaseStep
<1>3. NoneOutlivesTransport'
  BY <1>1, OutliveStep
<1> QED BY <1>2, <1>3, ShapeStep

\* The link breaks: a part of each queue is left, and SYNC(0, 0) behind it.
LEMMA LinkDownPlaces ==
  ASSUME TypeOK, TypeOK', LinkDown, NEW f \in End, NEW n \in DOMAIN ch'[f]
  PROVE  /\ n \in Nat /\ n <= Len(ch'[f]) /\ Len(ch'[f]) \in Nat
         /\ \/ n \in DOMAIN ch[f] /\ n < Len(ch'[f]) /\ ch'[f][n] = ch[f][n]
            \/ /\ n = Len(ch'[f]) /\ ch'[f][n].cmd = "SYNC"
               /\ ch'[f][n].arg0 = 0 /\ ch'[f][n].arg1 = 0
<1> DEFINE sync == Pkt("SYNC", 0, 0, <<>>)
<1>1. sync.cmd = "SYNC" /\ sync.arg0 = 0 /\ sync.arg1 = 0
  BY DEF Pkt
<1>2. ch[f] \in Seq(Packet) /\ ch'[f] \in Seq(Packet)
  BY DEF TypeOK
<1>3. \E k \in 0..Len(ch[f]) : ch'[f] = Append(SubSeq(ch[f], 1, k), sync)
  <2>1. PICK host \in 0..Len(ch["host"]), device \in 0..Len(ch["device"]) :
           ch' = [e \in End |->
                    Append(SubSeq(ch[e], 1, IF e = "host" THEN host ELSE device),
                           sync)]
    BY Zenon DEF LinkDown
  <2> HIDE DEF sync
  <2>2. CASE f = "host"
    BY <2>1, <2>2
  <2>3. CASE f = "device"
    BY <2>1, <2>3
  <2> QED BY <2>2, <2>3 DEF End
<1>4. PICK k \in 0..Len(ch[f]) : ch'[f] = Append(SubSeq(ch[f], 1, k), sync)
  BY <1>3
<1> HIDE DEF sync
<1> DEFINE u == SubSeq(ch[f], 1, k)
<1>5. /\ Len(u) = k /\ u \in Seq(Packet) /\ k \in Nat
      /\ \A m \in 1..k : u[m] = ch[f][m] /\ m \in DOMAIN ch[f]
  BY <1>2
<1> HIDE DEF u
<1>6. /\ Len(ch'[f]) = k + 1 /\ DOMAIN ch'[f] = 1..(k + 1)
      /\ \A m \in 1..k : ch'[f][m] = u[m]
      /\ ch'[f][k + 1] = sync
  BY <1>4, <1>5 DEF u
<1>7. n \in 1..k \/ n = k + 1
  BY <1>5, <1>6
<1> QED BY <1>1, <1>5, <1>6, <1>7

LEMMA LinkDownPairs ==
  ASSUME PairInv, WindowInv', LinkDown
  PROVE  PairInv'
<1>0. /\ TypeOK /\ TypeOK' /\ PhaseInv /\ NoneOutlivesTransport
      /\ ClosedInv /\ CloseIsLast /\ MatchInv
  BY DEF PairInv, WindowInv
<1>1. /\ up /\ up' = FALSE /\ sock' = sock /\ next_id' = next_id
      /\ online' = online /\ pump' = pump
  BY DEF LinkDown
<1>2. \A f \in End : \A n \in DOMAIN ch'[f] :
         /\ n \in Nat /\ n <= Len(ch'[f]) /\ Len(ch'[f]) \in Nat
         /\ \/ n \in DOMAIN ch[f] /\ n < Len(ch'[f]) /\ ch'[f][n] = ch[f][n]
            \/ /\ n = Len(ch'[f]) /\ ch'[f][n].cmd = "SYNC"
               /\ ch'[f][n].arg0 = 0 /\ ch'[f][n].arg1 = 0
  BY <1>0, LinkDownPlaces
<1>3. PhaseInv'
  <2>1. \A f \in End : \A n \in DOMAIN ch[f] : ch[f][n].cmd # "SYNC"
    BY <1>0, <1>1 DEF PhaseInv
  <2>2. \A f \in End : online[f]
    BY <1>0, <1>1 DEF PhaseInv
  <2>3. \A f \in End : \A n \in DOMAIN ch'[f] : ch'[f][n].cmd = "SYNC" =>
           ~up' /\ online'[f] /\ n = Len(ch'[f])
    BY <1>1, <1>2, <2>1, <2>2
  <2>4. \A f \in End : online'[f] <=> pump'[f] = "running"
    BY <1>0, <1>1 DEF PhaseInv
  <2> QED BY <1>1, <2>3, <2>4 DEF PhaseInv
<1>4. NoneOutlivesTransport'
  BY <1>0, <1>1 DEF NoneOutlivesTransport
<1>5. ClosedInv'
  <2>1. ASSUME NEW e \in End, NEW n \in DOMAIN ch'[Other(e)],
               ch'[Other(e)][n].arg0 # 0
        PROVE  LET p == ch'[Other(e)][n] IN
               /\ p.arg0 < next_id[e]
               /\ p.cmd = "CLSE" => sock[e][p.arg0].st # "open"
               /\ (p.arg1 # 0 /\ sock[e][p.arg0].st = "open") =>
                     sock[e][p.arg0].peer = p.arg1
    <3>1. n \in DOMAIN ch[Other(e)] /\ ch'[Other(e)][n] = ch[Other(e)][n]
      BY <1>2, <2>1, OtherType
    <3> QED BY <1>0, <2>1, <3>1 DEF ClosedInv
  <2>2. \A e \in End, i \in Ids : IF sock'[e][i].st = "open" THEN i < next_id'[e]
                                  ELSE sock'[e][i].peer = 0
    BY <1>0, <1>1 DEF ClosedInv
  <2> QED BY <1>1, <2>1, <2>2 DEF ClosedInv
<1>6. CloseIsLast'
  <2>1. ASSUME NEW e \in End, NEW m \in DOMAIN ch'[e], NEW n \in DOMAIN ch'[e],
               ch'[e][m].cmd = "CLSE", ch'[e][m].arg0 # 0, m < n
        PROVE  ch'[e][n].arg0 # ch'[e][m].arg0
    <3>1. m \in DOMAIN ch[e] /\ ch'[e][m] = ch[e][m]
      BY <1>2, <2>1
    <3>2. CASE n \in DOMAIN ch[e] /\ ch'[e][n] = ch[e][n]
      BY <1>0, <2>1, <3>1, <3>2 DEF CloseIsLast
    <3>3. CASE ch'[e][n].arg0 = 0
      BY <2>1, <3>3
    <3> QED BY <1>2, <3>2, <3>3
  <2> QED BY <2>1 DEF CloseIsLast
<1>7. MatchInv'
  <2>1. ASSUME NEW f \in End, NEW i \in Ids
        PROVE  /\ Asked(ch'[f], i) => Asked(ch[f], i)
               /\ \A j \in Ids : Said(ch'[f], i, j) => Said(ch[f], i, j)
    BY <1>2, ZeroId DEF Asked, Said
  <2>2. \A f \in End, i, j \in Ids : LinkedAfter(f, i, j) => Linked(f, i, j)
    BY <1>1, <2>1, OtherType, Zenon DEF LinkedAfter, Linked, Together
  <2>3. ASSUME NEW f \in End, NEW i \in Ids
        PROVE  /\ \A j, k \in Ids : LinkedAfter(f, i, j) /\ LinkedAfter(f, i, k) => j = k
               /\ \A j \in Ids : LinkedAfter(f, i, j) => i < next_id'[f]
               /\ Asked(ch'[Other(f)], i) =>
                     i < next_id'[f] /\ \A j \in Ids : ~LinkedAfter(f, i, j)
    BY <1>0, <1>1, <2>1, <2>2, OtherType, Zenon DEF MatchInv
  <2> QED BY <2>3, Zenon DEF MatchInv, Linked, LinkedAfter
<1> QED BY <1>3, <1>4, <1>5, <1>6, <1>7 DEF PairInv

\* SYNC(0, 0) is handled: it was the last packet, and the only such one.
LEMMA SyncPairs ==
  ASSUME PairInv, WindowInv', NEW e \in End, HandleSync(e)
  PROVE  PairInv'
<1>0. /\ TypeOK /\ TypeOK' /\ PhaseInv /\ NoneOutlivesTransport
  BY DEF PairInv, WindowInv
<1>1. Shape(e)
  BY <1>0, SyncShape
<1>2. /\ ch[e] # <<>> /\ Head(ch[e]).cmd = "SYNC"
      /\ ch' = [ch EXCEPT ![e] = Tail(@)] /\ up' = up
      /\ online' = [online EXCEPT ![e] = FALSE]
      /\ pump' = [pump EXCEPT ![e] = "stopping"]
  BY DEF HandleSync, Arrives, handle_offline
<1>3. /\ online'[e] = FALSE /\ pump'[e] = "stopping"
      /\ online'[Other(e)] = online[Other(e)] /\ pump'[Other(e)] = pump[Other(e)]
      /\ ch'[e] = Tail(ch[e]) /\ ch'[Other(e)] = ch[Other(e)]
      /\ ch[e] \in Seq(Packet) /\ Other(e) \in End
  BY <1>0, <1>2, OtherType, ZenonT(60) DEF TypeOK
<1>4. ~up /\ Len(ch[e]) = 1
  <2>1. 1 \in DOMAIN ch[e] /\ ch[e][1].cmd = "SYNC"
    BY <1>2, <1>3
  <2> QED BY <1>0, <2>1 DEF PhaseInv
<1>5. DOMAIN ch'[e] = {}
  <2> DEFINE t == Tail(ch[e])
  <2>1. t \in Seq(Packet) /\ Len(t) = Len(ch[e]) - 1
    BY <1>2, <1>3
  <2> HIDE DEF t
  <2>2. DOMAIN t = {}
    BY <1>4, <2>1
  <2> QED BY <1>3, <2>2 DEF t
<1>6. PhaseInv'
  <2>1. \A g \in End : g = e \/ g = Other(e)
    BY BothEnds
  <2>2. \A g \in End : /\ online'[g] <=> pump'[g] = "running"
                       /\ up' => online'[g]
    BY <1>0, <1>2, <1>3, <1>4, <2>1 DEF PhaseInv
  <2>3. \A g \in End : \A n \in DOMAIN ch'[g] : ch'[g][n].cmd = "SYNC" =>
           ~up' /\ online'[g] /\ n = Len(ch'[g])
    BY <1>0, <1>2, <1>3, <1>4, <1>5, <2>1 DEF PhaseInv
  <2> QED BY <2>2, <2>3 DEF PhaseInv
<1>7. \A g \in End : pump'[g] = "exited" => pump[g] = "exited"
  BY <1>3, BothEnds
<1>8. NoneOutlivesTransport'
  BY <1>0, <1>1, <1>7, OutliveStep
<1> QED BY <1>1, <1>6, <1>8, ShapeStep

\* The input thread sweeps: nothing of the transport is left open.
LEMMA CloseAllPairs ==
  ASSUME PairInv, WindowInv', NEW e \in End, CloseAllSockets(e)
  PROVE  PairInv'
<1>0. /\ TypeOK /\ TypeOK' /\ PhaseInv /\ NoneOutlivesTransport
  BY DEF PairInv, WindowInv
<1>1. Shape(e) /\ \A i \in Ids : sock'[e][i].st # "open"
  BY <1>0, CloseAllShape
<1>2. /\ pump[e] = "stopping" /\ pump' = [pump EXCEPT ![e] = "exited"]
      /\ online' = online
  BY DEF CloseAllSockets
<1>3. /\ pump'[e] = "exited" /\ pump'[Other(e)] = pump[Other(e)]
      /\ Other(e) \in End
  BY <1>0, <1>2, OtherType DEF TypeOK
<1>4. \A g \in End : g = e \/ g = Other(e)
  BY BothEnds
<1>5. PhaseInv'
  BY <1>0, <1>1, <1>2, <1>3, <1>4, PhaseStep
<1>6. NoneOutlivesTransport'
  <2>1. sock'[Other(e)] = sock[Other(e)]
    BY <1>1 DEF Shape, SockShape
  <2> QED BY <1>0, <1>1, <1>3, <1>4, <2>1 DEF NoneOutlivesTransport
<1> QED BY <1>1, <1>5, <1>6, ShapeStep

-----------------------------------------------------------------------------
(* The theorems. *)

LEMMA InitPairs == Init => PairInv
<1> SUFFICES ASSUME Init PROVE PairInv
  OBVIOUS
<1>1. \A e \in End : /\ next_id[e] = 1 /\ ch[e] = <<>> /\ online[e] = TRUE
                     /\ pump[e] = "running"
                     /\ \A i \in Ids : /\ sock[e][i].st = "none"
                                       /\ sock[e][i].peer = 0
  BY DEF Init, NoSocket, Idle
<1>2. PhaseInv /\ NoneOutlivesTransport /\ ClosedInv /\ CloseIsLast
  BY <1>1, OtherType DEF PhaseInv, NoneOutlivesTransport, ClosedInv, CloseIsLast
<1>3. \A e \in End, i, j \in Ids : ~Linked(e, i, j) /\ ~Asked(ch[Other(e)], i)
  BY <1>1, ZeroId, OtherType DEF Linked, Together, Said, Asked
<1>4. MatchInv
  BY <1>3, Zenon DEF MatchInv
<1> QED BY <1>2, <1>4, InitWindow DEF PairInv

\* The pairing is an inductive invariant.
LEMMA NextPairs == PairInv /\ [Next]_vars => PairInv'
<1> SUFFICES ASSUME PairInv, [Next]_vars PROVE PairInv'
  OBVIOUS
<1>1. WindowInv' /\ TypeOK
  BY NextWindow DEF PairInv, WindowInv
<1>2. CASE UNCHANGED vars
  <2>1. /\ sock' = sock /\ ch' = ch /\ next_id' = next_id /\ up' = up
        /\ online' = online /\ pump' = pump
    BY <1>2 DEF vars
  <2>2. MatchInv'
    BY <2>1, Zenon DEF PairInv, MatchInv, Linked
  <2>3. PhaseInv' /\ NoneOutlivesTransport' /\ ClosedInv' /\ CloseIsLast'
    BY <2>1 DEF PairInv, PhaseInv, NoneOutlivesTransport, ClosedInv, CloseIsLast
  <2> QED BY <1>1, <2>2, <2>3 DEF PairInv
<1>3. CASE LinkDown
  BY <1>1, <1>3, LinkDownPairs
<1>4. ASSUME NEW e \in End, HandlePacket(e) PROVE PairInv'
  <2>1. CASE HandleSync(e)
    BY <1>1, <2>1, SyncPairs
  <2>2. CASE HandleOpen(e)
    BY <1>1, <2>2, OpenShape, StreamStep DEF HandleOpen
  <2>3. CASE HandleOkay(e)
    BY <1>1, <2>3, OkayShape, StreamStep DEF HandleOkay
  <2>4. CASE HandleClse(e)
    BY <1>1, <2>4, ClseShape, StreamStep DEF HandleClse
  <2>5. CASE HandleWrte(e)
    BY <1>1, <2>5, WrteShape, StreamStep DEF HandleWrte
  <2> QED BY <1>4, <2>1, <2>2, <2>3, <2>4, <2>5 DEF HandlePacket
<1>5. ASSUME NEW e \in End, NEW i \in Ids, SocketEvent(e, i) PROVE PairInv'
  <2>1. CASE SocketReadable(e, i)
    BY <1>1, <2>1, ReadableShape, StreamStep DEF SocketReadable
  <2>2. CASE SocketDrained(e, i)
    BY <1>1, <2>2, DrainedShape, StreamStep DEF SocketDrained
  <2>3. ASSUME NEW err \in BOOLEAN, SocketBlocked(e, i, err) PROVE PairInv'
    <3>1. sock[e][i].st = "closing" => sock[e][i].peer = 0
      BY DEF PairInv, ClosedInv
    <3>2. Shape(e) /\ online' = online /\ pump' = pump
      BY <1>1, <2>3, <3>1, BlockedShape DEF SocketBlocked
    <3> QED BY <1>1, <3>2, StreamStep
  <2>4. ASSUME NEW eof \in BOOLEAN, StaleReadable(e, i, eof) PROVE PairInv'
    BY <1>1, <2>4, StaleShape, StreamStep DEF StaleReadable
  <2> QED BY <1>5, <2>1, <2>2, <2>3, <2>4 DEF SocketEvent
<1>6. ASSUME NEW e \in End,
             ListenerConnect(e) \/ \E eof \in BOOLEAN : SmartConnect(e, eof)
      PROVE  PairInv'
  <2>1. online' = online /\ pump' = pump
    BY <1>6, Zenon DEF ListenerConnect, SmartConnect
  <2> QED BY <1>1, <1>6, <2>1, ConnectShape, StreamStep
<1>7. ASSUME NEW e \in End, CloseAllSockets(e) PROVE PairInv'
  BY <1>1, <1>7, CloseAllPairs
<1> QED BY <1>2, <1>3, <1>4, <1>5, <1>6, <1>7 DEF Next

\* remote_socket_shutdown() is followed by no packet of the same socket,
\* whichever of the closing paths of sockets.c is taken at either end.
THEOREM LastHolds == Spec => []CloseIsLast
<1>1. PairInv => CloseIsLast
  BY DEF PairInv
<1> QED BY <1>1, InitPairs, NextPairs, PTL DEF Spec

\* When the input thread is gone, handle_offline() and close_all_sockets()
\* have left no socket open, and no client or packet opens another.
THEOREM NoneOutlives == Spec => []NoneOutlivesTransport
<1>1. PairInv => NoneOutlivesTransport
  BY DEF PairInv
<1> QED BY <1>1, InitPairs, NextPairs, PTL DEF Spec

\* A_OPEN and the first A_OKAY pair the sockets of the two ends: no socket of
\* one end is the peer of two sockets of the other, and two open sockets that
\* are connected agree.
THEOREM PairsHold == Spec => []Paired
<1>1. PairInv => Paired
  <2> SUFFICES ASSUME PairInv, NEW e \in End, NEW i \in Ids, NEW k \in Ids,
                      sock[e][i].st = "open", sock[e][i].peer # 0
               PROVE  LET s == sock[e][i]
                          p == sock[Other(e)][s.peer]
                      IN  /\ p.st = "open" => p.peer \in {0, i}
                          /\ sock[e][k].st = "open" /\ sock[e][k].peer = s.peer
                                => k = i
    BY ZenonT(60) DEF Paired
  <2> DEFINE j == sock[e][i].peer
             f == Other(e)
  <2>1. /\ j \in Ids /\ f \in End /\ Other(f) = e
        /\ sock[f][j].peer \in Ids \cup {0}
    <3>1. sock[e][i] \in Asocket /\ f \in End /\ Other(f) = e
      BY OtherType DEF PairInv, WindowInv, TypeOK
    <3>2. j \in Ids
      BY <3>1 DEF Asocket, Ids
    <3>3. sock[f][j] \in Asocket
      BY <3>1, <3>2 DEF PairInv, WindowInv, TypeOK
    <3>4. sock[f][j].peer \in 0..MaxId
      BY <3>3 DEF Asocket
    <3> QED BY <3>1, <3>2, <3>4 DEF Ids
  <2>2. \A a, b \in Ids : Linked(f, j, a) /\ Linked(f, j, b) => a = b
    BY <2>1 DEF PairInv, MatchInv
  <2>3. /\ Linked(f, j, i)
        /\ sock[e][k].peer = j => Linked(f, j, k)
        /\ Linked(f, j, sock[f][j].peer)
    BY <2>1, Zenon DEF Linked, Together
  <2> QED BY <2>1, <2>2, <2>3, Zenon
<1> QED BY <1>1, InitPairs, NextPairs, PTL DEF Spec

\* The two ends see their transport as AdbLifecycle describes it: it goes
\* offline once, when SYNC(0, 0) is handled, and the sweep comes after that.
THEOREM StreamsLifecycle == Spec => Lifecycle
<1> DEFINE ph == [e \in End |-> PhaseOf(e)]
<1>1. Init => L!Init
  BY DEF Init, L!Init, PhaseOf
<1>2. PairInv /\ [Next]_vars => [L!Next]_ph
  <2> SUFFICES ASSUME PairInv, [Next]_vars PROVE [L!Next]_ph
    OBVIOUS
  <2>1. TypeOK /\ PhaseInv
    BY DEF PairInv, WindowInv
  <2>2. ASSUME online' = online, pump' = pump PROVE [L!Next]_ph
    BY <2>2 DEF PhaseOf
  <2>3. ASSUME NEW e \in End, HandleSync(e) PROVE [L!Next]_ph
    <3>1. /\ online' = [online EXCEPT ![e] = FALSE]
          /\ pump' = [pump EXCEPT ![e] = "stopping"]
          /\ ch[e] # <<>> /\ Head(ch[e]).cmd = "SYNC"
      BY <2>3 DEF HandleSync, handle_offline, Arrives
    <3>2. online[e] /\ pump[e] = "running"
      <4>1. ch[e] \in Seq(Packet)
        BY <2>1 DEF TypeOK
      <4>2. 1 \in DOMAIN ch[e] /\ ch[e][1].cmd = "SYNC"
        BY <3>1, <4>1
      <4> QED BY <2>1, <4>2 DEF PhaseInv
    <3>3. ph[e] = "online" /\ ph' = [ph EXCEPT ![e] = "offline"]
      BY <2>1, <3>1, <3>2 DEF PhaseOf, TypeOK
    <3>4. L!Offline(e)
      BY <3>3 DEF L!Offline, L!Becomes
    <3> QED BY <3>4 DEF L!Next
  <2>4. ASSUME NEW e \in End, CloseAllSockets(e) PROVE [L!Next]_ph
    <3>1. /\ pump[e] = "stopping" /\ pump' = [pump EXCEPT ![e] = "exited"]
          /\ online' = online
      BY <2>4 DEF CloseAllSockets
    <3>2. ~online[e]
      BY <2>1, <3>1 DEF PhaseInv
    <3>3. ph[e] = "offline" /\ ph' = [ph EXCEPT ![e] = "swept"]
      BY <2>1, <3>1, <3>2 DEF PhaseOf, TypeOK
    <3>4. L!Sweep(e)
      BY <3>3 DEF L!Sweep, L!Becomes
    <3> QED BY <3>4 DEF L!Next
  <2>5. CASE UNCHANGED vars
    BY <2>2, <2>5 DEF vars
  <2>6. CASE LinkDown
    BY <2>2, <2>6 DEF LinkDown
  <2>7. ASSUME NEW e \in End, HandlePacket(e) PROVE [L!Next]_ph
    BY <2>2, <2>3, <2>7
       DEF HandlePacket, HandleOpen, HandleOkay, HandleClse, HandleWrte
  <2>8. ASSUME NEW e \in End, NEW i \in Ids, SocketEvent(e, i) PROVE [L!Next]_ph
    <3>1. online' = online /\ pump' = pump
      BY <2>8, Zenon DEF SocketEvent, SocketReadable, SocketDrained,
                         SocketBlocked, StaleReadable
    <3> QED BY <2>2, <3>1
  <2>9. ASSUME NEW e \in End,
               ListenerConnect(e) \/ \E eof \in BOOLEAN : SmartConnect(e, eof)
        PROVE  [L!Next]_ph
    <3>1. online' = online /\ pump' = pump
      BY <2>9, Zenon DEF ListenerConnect, SmartConnect
    <3> QED BY <2>2, <3>1
  <2> QED BY <2>4, <2>5, <2>6, <2>7, <2>8, <2>9 DEF Next
<1> QED BY <1>1, <1>2, InitPairs, NextPairs, PTL DEF Spec, Lifecycle, L!Spec

-----------------------------------------------------------------------------
(* Integrity of the data: what a socket wrote, queues and is about to       *)
(* receive is what its peer read.  StreamIntact speaks of connected sockets;*)
(* the invariant must also hold for a socket whose OKAY is still under way, *)
(* behind which its peer's first data may come: that data must not overtake *)
(* the OKAY, or find_local_socket() would not know the socket by its peer   *)
(* yet.                                                                     *)


\* o is what a receiver has, q its input, and r what its peer i read.
Rule(o, q, r, i, j) ==
    /\ Writes(q, i, j) = {} => o = r
    /\ \A n \in Writes(q, i, j) : o \o q[n].data = r

OkayAt(q, m, i, j) == q[m].cmd = "OKAY" /\ q[m].arg0 = i /\ q[m].arg1 = j

\* Input q of a receiver in state y, with sender x: while y has no peer, the
\* OKAY that names it is under way, ahead of all data.
Order(x, y, q, i, j) ==
    y.peer = 0 =>
        /\ \A n \in Writes(q, i, j) :
              \E m \in DOMAIN q : m < n /\ OkayAt(q, m, i, j)
        /\ (x.st = "open" /\ x.peer = j) => \E m \in DOMAIN q : OkayAt(q, m, i, j)

\* What socket i of end e has got.
Got(e, i) == out[e][i] \o sock[e][i].pkts

\* Socket i of end e sends to the open socket j of the other end.
FlowOK(e, i, j) ==
    /\ Rule(Got(Other(e), j), ch[Other(e)], Units(i, sent[e][i]), i, j)
    /\ Order(sock[e][i], sock[Other(e)][j], ch[Other(e)], i, j)

FlowInv ==
    up => \A e \in End, i, j \in Ids :
             (Linked(e, i, j) /\ sock[Other(e)][j].st = "open") => FlowOK(e, i, j)

\* Socket i of end e has neither sent nor received.
Blank(e, i) == sent[e][i] = 0 /\ out[e][i] = <<>> /\ sock[e][i].pkts = <<>>

\* So is a socket that is not yet handed out or whose OPEN is under way.
BlankInv ==
    \A e \in End, i \in Ids :
        (i >= next_id[e] \/ Asked(ch[Other(e)], i)) => Blank(e, i)

DataInv == PairInv /\ BlankInv /\ FlowInv

-----------------------------------------------------------------------------
(* Sequences of units. *)

LEMMA SameSeq ==
  ASSUME NEW S, NEW a \in Seq(S), NEW b \in Seq(S), Len(a) = Len(b),
         \A n \in 1..Len(a) : a[n] = b[n]
  PROVE  a = b
  OBVIOUS

LEMMA ConcatEmpty ==
  ASSUME NEW S, NEW a \in Seq(S)
  PROVE  a \o <<>> = a
<1>1. a \o <<>> \in Seq(S) /\ Len(a \o <<>>) = Len(a)
      /\ \A n \in 1..Len(a) : (a \o <<>>)[n] = a[n]
  OBVIOUS
<1> DEFINE b == a \o <<>>
<1> HIDE DEF b
<1>2. b = a
  BY <1>1, SameSeq DEF b
<1> QED BY <1>2 DEF b

LEMMA ConcatEach ==
  ASSUME NEW S, NEW a \in Seq(S), NEW b \in Seq(S)
  PROVE  /\ a \o b \in Seq(S) /\ Len(a) \in Nat /\ Len(b) \in Nat
         /\ Len(a \o b) = Len(a) + Len(b)
         /\ \A n \in 1..Len(a) : (a \o b)[n] = a[n]
         /\ \A n \in (Len(a) + 1)..(Len(a) + Len(b)) : (a \o b)[n] = b[n - Len(a)]
  OBVIOUS

\* A sequence written in two parts.
LEMMA ConcatSplit ==
  ASSUME NEW S, NEW o \in Seq(S), NEW d \in Seq(S), NEW k \in 0..Len(d)
  PROVE  (o \o SubSeq(d, 1, k)) \o SubSeq(d, k + 1, Len(d)) = o \o d
<1> DEFINE u == SubSeq(d, 1, k)
           v == SubSeq(d, k + 1, Len(d))
           l == (o \o u) \o v
           r == o \o d
<1>1. /\ u \in Seq(S) /\ v \in Seq(S) /\ Len(u) = k /\ Len(v) = Len(d) - k
      /\ Len(d) \in Nat /\ k \in Nat
      /\ \A n \in 1..k : u[n] = d[n]
      /\ \A n \in 1..(Len(d) - k) : v[n] = d[k + n]
  OBVIOUS
<1> HIDE DEF u, v
<1> DEFINE w == o \o u
<1>2. /\ w \in Seq(S) /\ Len(o) \in Nat /\ Len(w) = Len(o) + k
      /\ \A n \in 1..Len(o) : w[n] = o[n]
      /\ \A n \in (Len(o) + 1)..(Len(o) + k) : w[n] = u[n - Len(o)]
  <2>1. /\ w \in Seq(S) /\ Len(o) \in Nat /\ Len(w) = Len(o) + Len(u)
        /\ \A n \in 1..Len(o) : w[n] = o[n]
        /\ \A n \in (Len(o) + 1)..(Len(o) + Len(u)) : w[n] = u[n - Len(o)]
    <3>1. u \in Seq(S)
      BY <1>1
    <3> QED BY <3>1
  <2> HIDE DEF w
  <2> QED BY <1>1, <2>1
<1> HIDE DEF w
<1> DEFINE z == w \o v
<1>3. /\ z \in Seq(S) /\ Len(z) = Len(o) + Len(d)
      /\ \A n \in 1..(Len(o) + k) : z[n] = w[n]
      /\ \A n \in (Len(o) + k + 1)..(Len(o) + Len(d)) : z[n] = v[n - (Len(o) + k)]
  <2>1. /\ z \in Seq(S) /\ Len(z) = Len(w) + Len(v)
        /\ \A n \in 1..Len(w) : z[n] = w[n]
        /\ \A n \in (Len(w) + 1)..(Len(w) + Len(v)) : z[n] = v[n - Len(w)]
    <3>1. w \in Seq(S) /\ v \in Seq(S)
      BY <1>1, <1>2
    <3> QED BY <3>1
  <2> HIDE DEF z
  <2>2. Len(w) = Len(o) + k /\ Len(w) + Len(v) = Len(o) + Len(d)
    BY <1>1, <1>2
  <2> QED BY <2>1, <2>2
<1>4. /\ r \in Seq(S) /\ Len(r) = Len(o) + Len(d)
      /\ \A n \in 1..Len(o) : r[n] = o[n]
      /\ \A n \in (Len(o) + 1)..(Len(o) + Len(d)) : r[n] = d[n - Len(o)]
  BY <1>1, ConcatEach
<1> HIDE DEF z, r
<1>5. ASSUME NEW n \in 1..Len(z) PROVE z[n] = r[n]
  <2>1. CASE n \in 1..Len(o)
    <3>1. n \in 1..(Len(o) + k)
      BY <1>1, <1>2, <2>1
    <3> QED BY <1>2, <1>3, <1>4, <2>1, <3>1
  <2>2. CASE n \in (Len(o) + 1)..(Len(o) + k)
    <3>1. n - Len(o) \in 1..k /\ n \in (Len(o) + 1)..(Len(o) + Len(d))
      BY <1>1, <1>2, <2>2
    <3> QED BY <1>1, <1>2, <1>3, <1>4, <2>2, <3>1
  <2>3. CASE n \in (Len(o) + k + 1)..(Len(o) + Len(d))
    <3>1. /\ n - (Len(o) + k) \in 1..(Len(d) - k)
          /\ n \in (Len(o) + 1)..(Len(o) + Len(d))
          /\ k + (n - (Len(o) + k)) = n - Len(o)
      BY <1>1, <1>2, <2>3
    <3>2. z[n] = v[n - (Len(o) + k)] /\ r[n] = d[n - Len(o)]
      BY <1>3, <1>4, <2>3, <3>1
    <3> QED BY <1>1, <3>1, <3>2
  <2> QED BY <1>1, <1>2, <1>3, <2>1, <2>2, <2>3
<1>6. z = r
  BY <1>3, <1>4, <1>5, SameSeq
<1> QED BY <1>6 DEF z, r, w, u, v

\* The units of a packet continue those that were read before.
LEMMA UnitsGrow ==
  ASSUME NEW i, NEW a \in Nat, NEW g \in Nat, NEW d \in Seq({i} \X Nat),
         Len(d) = g, \A n \in 1..g : d[n] = <<i, a + n>>
  PROVE  Units(i, a) \o d = Units(i, a + g)
<1> DEFINE u == Units(i, a)
           r == Units(i, a + g)
           S == {i} \X Nat
<1>1. /\ u \in Seq(S) /\ Len(u) = a /\ \A n \in 1..a : u[n] = <<i, n>>
      /\ d \in Seq(S)
      /\ r \in Seq(S) /\ Len(r) = a + g /\ \A n \in 1..(a + g) : r[n] = <<i, n>>
  BY DEF Units
<1> HIDE DEF u, r
<1> DEFINE z == u \o d
<1>2. /\ z \in Seq(S) /\ Len(z) = a + g
      /\ \A n \in 1..a : z[n] = u[n]
      /\ \A n \in (a + 1)..(a + g) : z[n] = d[n - a]
  BY <1>1, ConcatEach, ZenonT(60), SMTT(60)
<1> HIDE DEF z, S
<1>3. ASSUME NEW n \in 1..Len(z) PROVE z[n] = r[n]
  <2>1. CASE n \in 1..a
    BY <1>1, <1>2, <2>1
  <2>2. CASE n \in (a + 1)..(a + g)
    <3>1. n - a \in 1..g /\ a + (n - a) = n
      BY <2>2
    <3> QED BY <1>1, <1>2, <2>2, <3>1, ZenonT(60)
  <2> QED BY <1>2, <2>1, <2>2
<1>4. z = r
  BY <1>1, <1>2, <1>3, SameSeq
<1> QED BY <1>4 DEF z, u, r

LEMMA NoUnits == \A i : Units(i, 0) = <<>>
  BY DEF Units

-----------------------------------------------------------------------------
(* What a step of one end does to the data. *)

GotAfter(e, i) == out'[e][i] \o sock'[e][i].pkts

BlankAfter(e, i) == sent'[e][i] = 0 /\ out'[e][i] = <<>> /\ sock'[e][i].pkts = <<>>

FlowAfter(e, i, j) ==
    /\ Rule(GotAfter(Other(e), j), ch'[Other(e)], Units(i, sent'[e][i]), i, j)
    /\ Order(sock'[e][i], sock'[Other(e)][j], ch'[Other(e)], i, j)

\* The other end's data is its own affair, a socket without links stays blank,
\* and an accepted OPEN is answered by an OKAY.
Frame(e) ==
    /\ out'[Other(e)] = out[Other(e)] /\ sent'[Other(e)] = sent[Other(e)]
    /\ \A i \in Ids : (Blank(e, i) /\ \A j \in Ids : ~Linked(e, i, j))
                         => BlankAfter(e, i)
    /\ \A i, j \in Ids : (up /\ Accepted(e, i, j)) =>
          /\ sock'[e][i].peer = j
          /\ \E m \in DOMAIN ch'[Other(e)] : OkayAt(ch'[Other(e)], m, i, j)

\* Socket i of end e sends no data.
Silent(e, i) ==
    /\ sent'[e][i] = sent[e][i]
    /\ \A n \in DOMAIN ch'[Other(e)] :
          (ch'[Other(e)][n].cmd = "WRTE" /\ ch'[Other(e)][n].arg0 = i) =>
             n \in DOMAIN ch[Other(e)] /\ ch'[Other(e)][n] = ch[Other(e)][n]

\* Socket i of end e takes no WRTE from j, gains or loses no data, and is
\* connected if it takes an OKAY.
Passes(e, i, j) ==
    /\ \/ ch'[e] = ch[e]
       \/ LET p == Head(ch[e]) IN
          /\ p.cmd = "WRTE" => p.arg0 # j \/ p.arg1 # i
          /\ (p.cmd = "OKAY" /\ p.arg1 = i /\ p.arg0 # 0
                 /\ up /\ sock'[e][i].st = "open") => sock'[e][i].peer # 0
    /\ (sock[e][i].st = "open" /\ sock'[e][i].st = "open")
          => GotAfter(e, i) = Got(e, i)

\* End e sends no data.
SendsNone(e) ==
    /\ sent'[e] = sent[e]
    /\ \A n \in DOMAIN ch'[Other(e)] : ch'[Other(e)][n].cmd = "WRTE" =>
          n \in DOMAIN ch[Other(e)] /\ ch'[Other(e)][n] = ch[Other(e)][n]

\* End e takes no WRTE, an OKAY that it takes connects the socket that is named,
\* and no socket gains or loses data.
TakesNone(e) ==
    /\ \/ ch'[e] = ch[e]
       \/ LET p == Head(ch[e]) IN
          /\ p.cmd # "WRTE"
          /\ \A i \in Ids : (p.cmd = "OKAY" /\ p.arg1 = i /\ p.arg0 # 0
                                /\ up /\ sock'[e][i].st = "open")
                             => sock'[e][i].peer # 0
    /\ \A i \in Ids : (sock[e][i].st = "open" /\ sock'[e][i].st = "open")
                         => GotAfter(e, i) = Got(e, i)

LEMMA NotAccepted ==
  ASSUME TypeOK, NEW e \in End,
         ch'[e] = ch[e] \/ Head(ch[e]).cmd # "OPEN"
  PROVE  \A i, j \in Ids : ~Accepted(e, i, j)
<1>1. ch[e] \in Seq(Packet)
  BY DEF TypeOK
<1> DEFINE t == Tail(ch[e])
<1>2. ch[e] # <<>> => Len(t) = Len(ch[e]) - 1 /\ Len(ch[e]) \in Nat
  BY <1>1
<1> HIDE DEF t
<1>3. ch[e] # <<>> => t # ch[e]
  BY <1>2
<1> QED BY <1>3 DEF Accepted, Arrives, t

\* The packets that were under way still are.
LEMMA Stays ==
  ASSUME TypeOK, NEW e \in End, Shape(e), NEW n \in DOMAIN ch[Other(e)]
  PROVE  n \in DOMAIN ch'[Other(e)] /\ ch'[Other(e)][n] = ch[Other(e)][n]
<1> DEFINE q == ch[Other(e)]
           r == ch'[Other(e)]
<1>1. q \in Seq(Packet) /\ n \in DOMAIN q
  BY OtherType DEF TypeOK
<1>2. SendShape(e)
  BY DEF Shape
<1>3. CASE r = q
  BY <1>1, <1>3
<1>4. ASSUME NEW p \in Packet, r = Append(q, p)
      PROVE  n \in DOMAIN r /\ r[n] = q[n]
  BY <1>1, <1>4
<1>5. ASSUME NEW p \in Packet, NEW c \in Packet, r = Append(Append(q, p), c)
      PROVE  n \in DOMAIN r /\ r[n] = q[n]
  BY <1>1, <1>5
<1> QED BY <1>2, <1>3, <1>4, <1>5 DEF SendShape

\* Socket i of end e was not linked to j and now is: an OPEN was accepted.
LEMMA NewFlow ==
  ASSUME DataInv, TypeOK', NEW e \in End, Shape(e), Frame(e), up,
         NEW i \in Ids, NEW j \in Ids, Accepted(e, i, j), Silent(e, i)
  PROVE  FlowAfter(e, i, j) /\ FlowAfter(Other(e), j, i)
<1> DEFINE f == Other(e)
<1>0. /\ TypeOK /\ MatchInv /\ BlankInv /\ f \in End /\ Other(f) = e
      /\ Adds(e) /\ Drops(e) /\ ch[e] \in Seq(Packet)
  BY OtherType, ShapePlaces DEF DataInv, PairInv, WindowInv, TypeOK
<1>1. /\ i = next_id[e] /\ ch[e] # <<>> /\ Head(ch[e]).cmd = "OPEN"
      /\ Head(ch[e]).arg0 = j
  BY DEF Accepted, Arrives
<1>2. Asked(ch[e], j)
  <2>1. 1 \in DOMAIN ch[e] /\ Head(ch[e]) = ch[e][1]
    BY <1>0, <1>1
  <2> QED BY <1>1, <2>1 DEF Asked
<1>3. i >= next_id[e] /\ ~(i < next_id[e])
  BY <1>1 DEF Ids
<1>4. Blank(e, i) /\ Blank(f, j)
  BY <1>0, <1>2, <1>3 DEF BlankInv
<1>5. \A k \in Ids : ~Linked(e, i, k)
  BY <1>0, <1>3 DEF MatchInv
<1>6. BlankAfter(e, i) /\ BlankAfter(f, j)
  <2>1. BlankAfter(e, i)
    BY <1>4, <1>5 DEF Frame
  <2>2. sock'[f] = sock[f] /\ out'[f] = out[f] /\ sent'[f] = sent[f]
    BY DEF Shape, SockShape, Frame
  <2> QED BY <1>4, <2>1, <2>2 DEF Blank, BlankAfter
<1>7. ~Said(ch[f], i, j) /\ ~Said(ch[e], j, i)
  BY <1>5, Zenon DEF Linked, Together
<1>8. Writes(ch'[f], i, j) = {}
  BY <1>7 DEF Writes, Silent, Said
<1>9. Writes(ch'[e], j, i) = {}
  BY <1>0, <1>7 DEF Writes, Drops, Said
<1>10. /\ GotAfter(e, i) = <<>> /\ GotAfter(f, j) = <<>>
       /\ Units(i, sent'[e][i]) = <<>> /\ Units(j, sent'[f][j]) = <<>>
  <2>1. <<>> \o <<>> = <<>>
    OBVIOUS
  <2> QED BY <1>6, <2>1, NoUnits DEF GotAfter, BlankAfter
<1>11. /\ sock'[e][i].peer # 0
       /\ \E m \in DOMAIN ch'[f] : OkayAt(ch'[f], m, i, j)
  BY ZeroId DEF Frame
<1>12. FlowAfter(e, i, j)
  BY <1>8, <1>10, <1>11, Zenon DEF FlowAfter, Rule, Order
<1>13. FlowAfter(f, j, i)
  BY <1>0, <1>9, <1>10, <1>11, Zenon DEF FlowAfter, Rule, Order
<1> QED BY <1>12, <1>13

\* The streams from socket i of end e, when it sends no data.
LEMMA OutFlow ==
  ASSUME DataInv, TypeOK', NEW e \in End, Shape(e), Frame(e), up,
         NEW i \in Ids, NEW j \in Ids, Silent(e, i), LinkedAfter(e, i, j),
         sock'[Other(e)][j].st = "open"
  PROVE  FlowAfter(e, i, j)
<1> DEFINE f == Other(e)
           q == ch[f]
           r == ch'[f]
<1>0. /\ TypeOK /\ ClosedInv /\ FlowInv /\ f \in End /\ Other(f) = e
      /\ Adds(e) /\ Drops(e)
  BY OtherType, ShapePlaces DEF DataInv, PairInv, WindowInv, TypeOK
<1>1. CASE Accepted(e, i, j)
  BY <1>1, NewFlow
<1>2. CASE Linked(e, i, j)
  <2>1. /\ sock'[f] = sock[f] /\ out'[f] = out[f] /\ sent'[e][i] = sent[e][i]
        /\ Tame(e, i, sock'[e][i])
    BY DEF Shape, SockShape, Frame, Silent
  <2>2. FlowOK(e, i, j)
    BY <1>0, <1>2, <2>1 DEF FlowInv
  <2>3. \A n \in DOMAIN q : n \in DOMAIN r /\ r[n] = q[n]
    BY <1>0, Stays
  <2>4. \A n \in Writes(r, i, j) : n \in Writes(q, i, j) /\ r[n] = q[n]
    BY DEF Writes, Silent
  <2>5. \A n \in Writes(q, i, j) : n \in Writes(r, i, j)
    BY <2>3 DEF Writes
  <2>6. GotAfter(f, j) = Got(f, j) /\ Units(i, sent'[e][i]) = Units(i, sent[e][i])
    BY <2>1 DEF GotAfter, Got
  <2>7. Rule(GotAfter(f, j), r, Units(i, sent'[e][i]), i, j)
    <3>1. Rule(Got(f, j), q, Units(i, sent[e][i]), i, j)
      BY <2>2 DEF FlowOK
    <3>2. Writes(r, i, j) = {} => Writes(q, i, j) = {}
      BY <2>5
    <3> QED BY <2>4, <2>6, <3>1, <3>2 DEF Rule
  <2>8. ASSUME NEW m \in DOMAIN q, OkayAt(q, m, i, j)
        PROVE  m \in DOMAIN r /\ OkayAt(r, m, i, j)
    BY <2>3, <2>8 DEF OkayAt
  <2>9. ASSUME sock[f][j].peer = 0, sock'[e][i].st = "open", sock'[e][i].peer = j
        PROVE  sock[e][i].st = "open" /\ sock[e][i].peer = j
    <3>1. \/ sock[e][i].peer = j \/ Said(ch[e], j, i) \/ Accepted(e, i, j)
      BY <2>1, <2>9 DEF Tame
    <3>2. CASE sock[e][i].peer = j
      <4>1. sock[e][i].st = "open" \/ sock[e][i].peer = 0
        BY <1>0 DEF ClosedInv
      <4> QED BY <3>2, <4>1, ZeroId
    <3>3. CASE Said(ch[e], j, i)
      <4>1. PICK n \in DOMAIN ch[e] : ch[e][n].arg0 = j /\ ch[e][n].arg1 = i
        BY <3>3 DEF Said
      <4>2. sock[f][j].peer = i
        <5>1. j # 0 /\ i # 0 /\ sock[f][j].st = "open"
          BY <2>1, ZeroId
        <5> QED BY <1>0, <4>1, <5>1 DEF ClosedInv
      <4> QED BY <2>9, <4>2, ZeroId
    <3>4. CASE Accepted(e, i, j)
      <4>1. sock[f][j].peer = 0 /\ sock'[e][i].peer = j
        BY <2>9
      <4>2. ~Linked(e, i, j)
        <5>1. i = next_id[e] /\ MatchInv
          BY <3>4 DEF Accepted, DataInv, PairInv
        <5>2. ~(i < next_id[e])
          BY <5>1 DEF Ids
        <5> QED BY <5>1, <5>2 DEF MatchInv
      <4> QED BY <1>2, <4>2
    <3> QED BY <3>1, <3>2, <3>3, <3>4
  <2>10. Order(sock'[e][i], sock'[f][j], r, i, j)
    <3>1. Order(sock[e][i], sock[f][j], q, i, j)
      BY <2>2 DEF FlowOK
    <3> QED BY <2>1, <2>4, <2>8, <2>9, <3>1, Zenon DEF Order
  <2> QED BY <2>7, <2>10 DEF FlowAfter
<1> QED BY <1>0, <1>1, <1>2, LinkStep

\* The streams to socket i of end e, when it takes no data.
LEMMA InFlow ==
  ASSUME DataInv, TypeOK', NEW e \in End, Shape(e), Frame(e), up,
         NEW i \in Ids, NEW j \in Ids, Passes(e, i, j),
         Silent(e, i) \/ ch'[e] = ch[e], LinkedAfter(e, i, j),
         sock'[e][i].st = "open"
  PROVE  FlowAfter(Other(e), j, i)
<1> DEFINE f == Other(e)
           q == ch[e]
           r == ch'[e]
<1>0. /\ TypeOK /\ FlowInv /\ MatchInv /\ f \in End /\ Other(f) = e
      /\ Adds(e) /\ Drops(e)
      /\ q \in Seq(Packet) /\ r \in Seq(Packet)
  BY OtherType, ShapePlaces DEF DataInv, PairInv, WindowInv, TypeOK
<1>1. CASE Accepted(e, i, j)
  <2>1. Silent(e, i)
    BY <1>0, <1>1, NotAccepted
  <2> QED BY <1>1, <2>1, NewFlow
<1>2. CASE Linked(e, i, j)
  <2>1. /\ sock'[f] = sock[f] /\ sent'[f] = sent[f] /\ Tame(e, i, sock'[e][i])
    BY DEF Shape, SockShape, Frame
  <2>2. i < next_id[e] /\ i # next_id[e]
    <3>1. i < next_id[e]
      BY <1>0, <1>2 DEF MatchInv
    <3>2. i \in Nat /\ next_id[e] \in Nat
      BY <1>0 DEF TypeOK, Ids
    <3> QED BY <3>1, <3>2
  <2>3. sock[e][i].st = "open" /\ sock[e][i].peer \in {0, sock'[e][i].peer}
    BY <2>1, <2>2 DEF Tame
  <2>4. FlowOK(f, j, i)
    <3>1. Linked(f, j, i)
      BY <1>0, <1>2, LinkedBothWays, Zenon DEF Linked
    <3> QED BY <1>0, <2>3, <3>1 DEF FlowInv
  <2>5. /\ GotAfter(e, i) = Got(e, i)
        /\ Units(j, sent'[f][j]) = Units(j, sent[f][j])
    BY <2>1, <2>3 DEF Passes
  <2>6. CASE r = q
    <3>1. Order(sock'[f][j], sock'[e][i], r, j, i)
      BY <1>0, <2>1, <2>3, <2>4, <2>6, Zenon DEF FlowOK, Order
    <3>2. Rule(GotAfter(e, i), r, Units(j, sent'[f][j]), j, i)
      BY <1>0, <2>4, <2>5, <2>6 DEF FlowOK
    <3> QED BY <1>0, <3>1, <3>2 DEF FlowAfter
  <2>7. CASE r # q
    <3>1. /\ q # <<>> /\ r = Tail(q)
          /\ Head(q).cmd = "WRTE" => Head(q).arg0 # j \/ Head(q).arg1 # i
          /\ (Head(q).cmd = "OKAY" /\ Head(q).arg1 = i /\ Head(q).arg0 # 0)
                => sock'[e][i].peer # 0
      BY <2>7 DEF Shape, Passes
    <3>2. /\ \A n \in DOMAIN r : n + 1 \in DOMAIN q /\ r[n] = q[n + 1] /\ n \in Nat
          /\ \A n \in DOMAIN q : n = 1 \/ (n - 1 \in DOMAIN r /\ r[n - 1] = q[n])
          /\ \A n \in DOMAIN q : n \in Nat /\ (n - 1) + 1 = n
          /\ q[1] = Head(q)
      BY <1>0, <3>1
    <3> HIDE DEF q, r
    <3>3. \A n \in Writes(r, j, i) : n + 1 \in Writes(q, j, i) /\ r[n] = q[n + 1]
      BY <3>2 DEF Writes
    <3>4. \A n \in Writes(q, j, i) : n - 1 \in Writes(r, j, i)
      BY <3>1, <3>2 DEF Writes
    <3>5. Rule(GotAfter(e, i), r, Units(j, sent'[f][j]), j, i)
      <4>1. Rule(Got(e, i), q, Units(j, sent[f][j]), j, i)
        BY <1>0, <2>4 DEF FlowOK, q
      <4>2. Writes(r, j, i) = {} => Writes(q, j, i) = {}
        BY <3>4
      <4> QED BY <2>5, <3>3, <4>1, <4>2 DEF Rule
    <3>6. ASSUME NEW m \in DOMAIN q, OkayAt(q, m, j, i), sock'[e][i].peer = 0
          PROVE  m - 1 \in DOMAIN r /\ OkayAt(r, m - 1, j, i)
      BY <3>1, <3>2, <3>6, ZeroId, SMTT(60), ZenonT(60) DEF OkayAt
    <3>7. Order(sock[f][j], sock[e][i], q, j, i)
      BY <1>0, <2>4 DEF FlowOK, q
    <3>8. ASSUME sock'[e][i].peer = 0, NEW n \in Writes(r, j, i)
          PROVE  \E m \in DOMAIN r : m < n /\ OkayAt(r, m, j, i)
      <4>1. PICK m \in DOMAIN q : m < n + 1 /\ OkayAt(q, m, j, i)
        <5>1. sock[e][i].peer = 0
          BY <2>3, <3>8
        <5> QED BY <3>3, <3>7, <3>8, <5>1 DEF Order
      <4>2. m - 1 < n
        <5>1. n \in Nat /\ m \in Nat
          BY <3>2, <3>8 DEF Writes
        <5> QED BY <4>1, <5>1
      <4> QED BY <3>6, <3>8, <4>1, <4>2
    <3>9. ASSUME sock'[e][i].peer = 0, sock'[f][j].st = "open", sock'[f][j].peer = i
          PROVE  \E m \in DOMAIN r : OkayAt(r, m, j, i)
      <4>1. PICK m \in DOMAIN q : OkayAt(q, m, j, i)
        BY <2>1, <2>3, <3>7, <3>9 DEF Order
      <4> QED BY <3>6, <3>9, <4>1
    <3>10. Order(sock'[f][j], sock'[e][i], r, j, i)
      BY <3>8, <3>9 DEF Order
    <3> QED BY <1>0, <3>5, <3>10 DEF FlowAfter, r
  <2> QED BY <2>6, <2>7
<1> QED BY <1>0, <1>1, <1>2, LinkStep

\* Sockets whose OPEN is under way, and ids not handed out, stay blank.
LEMMA BlankStep ==
  ASSUME DataInv, TypeOK', NEW e \in End, Shape(e), Frame(e)
  PROVE  BlankInv'
<1> DEFINE f == Other(e)
<1>0. /\ WindowInv /\ TypeOK /\ MatchInv /\ BlankInv /\ f \in End /\ Other(f) = e
      /\ next_id'[f] = next_id[f] /\ next_id'[e] >= next_id[e]
      /\ next_id[e] \in Nat /\ next_id'[e] \in Nat
  BY OtherType, SMTT(60) DEF DataInv, PairInv, WindowInv, TypeOK, Shape
<1>1. ASSUME NEW i \in Ids, i >= next_id'[e] \/ Asked(ch'[f], i)
      PROVE  BlankAfter(e, i)
  <2>1. i >= next_id[e] \/ Asked(ch[f], i)
    <3>1. Asked(ch'[f], i) => Asked(ch[f], i) \/ i = next_id[e]
      BY <1>0, AskedStep
    <3> QED BY <1>0, <1>1, <3>1 DEF Ids
  <2>2. Blank(e, i)
    BY <1>0, <2>1 DEF BlankInv
  <2>3. \A j \in Ids : ~Linked(e, i, j)
    <3>1. i >= next_id[e] => ~(i < next_id[e])
      BY <1>0 DEF Ids
    <3> QED BY <1>0, <2>1, <3>1 DEF MatchInv
  <2> QED BY <2>2, <2>3 DEF Frame
<1>2. ASSUME NEW i \in Ids, i >= next_id'[f] \/ Asked(ch'[e], i)
      PROVE  BlankAfter(f, i)
  <2>1. Asked(ch'[e], i) => Asked(ch[e], i)
    BY <1>0, AskedStep
  <2>2. Blank(f, i)
    BY <1>0, <1>2, <2>1 DEF BlankInv
  <2>3. sock'[f] = sock[f] /\ out'[f] = out[f] /\ sent'[f] = sent[f]
    BY DEF Shape, SockShape, Frame
  <2> QED BY <2>2, <2>3 DEF Blank, BlankAfter
<1>3. \A g \in End : g = e \/ g = f
  BY BothEnds
<1> QED BY <1>0, <1>1, <1>2, <1>3 DEF BlankInv, Blank, BlankAfter

\* The parts of a step, put together.
LEMMA FlowStep ==
  ASSUME DataInv, PairInv', NEW e \in End, Shape(e), Frame(e),
         \A i, j \in Ids :
            (up /\ LinkedAfter(e, i, j) /\ sock'[Other(e)][j].st = "open")
               => FlowAfter(e, i, j),
         \A i, j \in Ids : (up /\ LinkedAfter(e, i, j) /\ sock'[e][i].st = "open")
               => FlowAfter(Other(e), j, i)
  PROVE  DataInv'
<1> DEFINE f == Other(e)
<1>1. TypeOK' /\ f \in End /\ Other(f) = e /\ up' = up
  BY OtherType DEF PairInv, WindowInv, Shape
<1>2. BlankInv'
  BY <1>1, BlankStep
<1>3. \A i, j \in Ids : LinkedAfter(f, j, i) <=> LinkedAfter(e, i, j)
  BY <1>1, LinkedBothWays, Zenon DEF LinkedAfter
<1>4. ASSUME up, NEW g \in End, NEW i \in Ids, NEW j \in Ids,
             LinkedAfter(g, i, j), sock'[Other(g)][j].st = "open"
      PROVE  FlowAfter(g, i, j)
  <2>1. CASE g = e
    BY <1>4, <2>1
  <2>2. CASE g = f
    BY <1>1, <1>3, <1>4, <2>2
  <2> QED BY <2>1, <2>2, BothEnds
<1>5. FlowInv'
  BY <1>1, <1>4, Zenon
     DEF FlowInv, FlowOK, FlowAfter, Linked, LinkedAfter, Got, GotAfter
<1> QED BY <1>2, <1>5 DEF DataInv

\* A step that moves no data.
LEMMA CalmStep ==
  ASSUME DataInv, PairInv', NEW e \in End, Shape(e), Frame(e), SendsNone(e),
         TakesNone(e)
  PROVE  DataInv'
<1>1. TypeOK'
  BY DEF PairInv, WindowInv
<1>2. \A i \in Ids : Silent(e, i)
  BY DEF SendsNone, Silent
<1>3. \A i, j \in Ids : Passes(e, i, j)
  BY DEF TakesNone, Passes
<1>4. \A i, j \in Ids :
         (up /\ LinkedAfter(e, i, j) /\ sock'[Other(e)][j].st = "open")
            => FlowAfter(e, i, j)
  BY <1>1, <1>2, OutFlow
<1>5. \A i, j \in Ids : (up /\ LinkedAfter(e, i, j) /\ sock'[e][i].st = "open")
            => FlowAfter(Other(e), j, i)
  BY <1>1, <1>2, <1>3, InFlow
<1> QED BY <1>4, <1>5, FlowStep

-----------------------------------------------------------------------------
(* The handlers. *)

\* r is q, or q with one packet that is not a WRTE behind it.
Quietly(q, r) == r = q \/ \E c \in Packet : c.cmd # "WRTE" /\ r = Append(q, c)

LEMMA QuietSends ==
  ASSUME TypeOK, NEW e \in End, Quietly(ch[Other(e)], ch'[Other(e)]),
         sent' = sent
  PROVE  SendsNone(e)
<1> DEFINE q == ch[Other(e)]
           r == ch'[Other(e)]
<1>1. q \in Seq(Packet)
  BY OtherType DEF TypeOK
<1>2. CASE r = q
  BY <1>2 DEF SendsNone
<1>3. ASSUME NEW c \in Packet, c.cmd # "WRTE", r = Append(q, c)
      PROVE  SendsNone(e)
  <2>1. \A n \in DOMAIN r : (n \in DOMAIN q /\ r[n] = q[n]) \/ r[n] = c
    BY <1>1, <1>3
  <2> QED BY <1>3, <2>1, Zenon DEF SendsNone
<1> QED BY <1>2, <1>3 DEF Quietly

LEMMA QuietReady ==
  ASSUME NEW q, NEW a \in 0..MaxId, NEW b \in 0..MaxId
  PROVE  Quietly(q, send_ready(q, a, b)) /\ Quietly(q, send_close(q, a, b))
<1> DEFINE o == Pkt("OKAY", a, b, <<>>)
           c == Pkt("CLSE", a, b, <<>>)
<1>1. o \in Packet /\ o.cmd # "WRTE" /\ c \in Packet /\ c.cmd # "WRTE"
  BY PktType, EmptyPayload DEF Command, Pkt
<1>2. /\ send_ready(q, a, b) = q \/ send_ready(q, a, b) = Append(q, o)
      /\ send_close(q, a, b) = q \/ send_close(q, a, b) = Append(q, c)
  BY Zenon DEF send_ready, send_close, send_packet
<1> HIDE DEF o, c
<1> QED BY <1>1, <1>2, Zenon DEF Quietly

LEMMA QuietShutdown ==
  ASSUME NEW q, NEW i \in Ids, NEW s \in Asocket
  PROVE  Quietly(q, remote_socket_shutdown(q, i, s))
<1>1. s.peer \in 0..MaxId /\ i \in 0..MaxId
  BY ZeroId DEF Asocket
<1>2. Quietly(q, q)
  BY DEF Quietly
<1> QED BY <1>1, <1>2, QuietReady, Zenon DEF remote_socket_shutdown

\* One socket changes and no descriptor is read or written.
LEMMA OneCalm ==
  ASSUME TypeOK, NEW e \in End, NEW s \in Ids, NEW x,
         sock' = [sock EXCEPT ![e][s] = x], out' = out, sent' = sent,
         x.pkts = <<>> \/ x.pkts = sock[e][s].pkts,
         (x.st = "open" /\ sock[e][s].st = "open") => x.pkts = sock[e][s].pkts,
         ch'[e] = ch[e] \/ Head(ch[e]).cmd # "OPEN"
  PROVE  /\ Frame(e)
         /\ \A i \in Ids : (sock[e][i].st = "open" /\ sock'[e][i].st = "open")
                              => GotAfter(e, i) = Got(e, i)
<1>1. /\ sock'[e][s] = x
      /\ \A k \in Ids : k # s => sock'[e][k] = sock[e][k]
  BY DEF TypeOK
<1>2. \A i, j \in Ids : ~Accepted(e, i, j)
  BY NotAccepted
<1>3. \A i \in Ids : Blank(e, i) => BlankAfter(e, i)
  BY <1>1 DEF Blank, BlankAfter
<1>4. Frame(e)
  BY <1>2, <1>3 DEF Frame
<1>5. ASSUME NEW i \in Ids, sock[e][i].st = "open", sock'[e][i].st = "open"
      PROVE  GotAfter(e, i) = Got(e, i)
  <2>1. sock'[e][i].pkts = sock[e][i].pkts
    BY <1>1, <1>5
  <2> QED BY <2>1 DEF Got, GotAfter
<1> QED BY <1>4, <1>5

\* Nothing changes but the queues.
LEMMA NoneCalm ==
  ASSUME TypeOK, NEW e \in End, sock' = sock, out' = out, sent' = sent,
         \A i, j \in Ids : ~Accepted(e, i, j)
  PROVE  /\ Frame(e)
         /\ \A i \in Ids : GotAfter(e, i) = Got(e, i)
  BY DEF Frame, Blank, BlankAfter, Got, GotAfter

\* Several sockets close at once.
LEMMA ManyCalm ==
  ASSUME TypeOK, NEW e \in End, NEW swept,
         sock' = [sock EXCEPT ![e] = swept], out' = out, sent' = sent,
         \A i \in Ids : \/ swept[i] = sock[e][i]
                        \/ /\ swept[i].st # "open"
                           /\ swept[i].pkts = <<>> \/ swept[i].pkts = sock[e][i].pkts,
         ch'[e] = ch[e] \/ Head(ch[e]).cmd # "OPEN"
  PROVE  /\ Frame(e)
         /\ \A i \in Ids : (sock[e][i].st = "open" /\ sock'[e][i].st = "open")
                              => GotAfter(e, i) = Got(e, i)
<1>1. sock'[e] = swept
  BY DEF TypeOK
<1>2. \A i, j \in Ids : ~Accepted(e, i, j)
  BY NotAccepted
<1>3. \A i \in Ids : Blank(e, i) => BlankAfter(e, i)
  BY <1>1 DEF Blank, BlankAfter
<1>4. Frame(e)
  BY <1>2, <1>3 DEF Frame
<1>5. ASSUME NEW i \in Ids, sock[e][i].st = "open", sock'[e][i].st = "open"
      PROVE  GotAfter(e, i) = Got(e, i)
  <2>1. sock'[e][i] = sock[e][i]
    BY <1>1, <1>5
  <2> QED BY <2>1 DEF Got, GotAfter
<1> QED BY <1>4, <1>5

LEMMA ConnectData ==
  ASSUME DataInv, PairInv', NEW e \in End,
         ListenerConnect(e) \/ \E eof \in BOOLEAN : SmartConnect(e, eof)
  PROVE  DataInv'
<1> DEFINE i == next_id[e]
           p == Pkt("OPEN", i, 0, <<>>)
<1>0. TypeOK /\ ClosedInv
  BY DEF DataInv, PairInv, WindowInv
<1>1. /\ i <= MaxId
      /\ ch' = [ch EXCEPT ![Other(e)] = send_packet(@, p)]
      /\ out' = out /\ sent' = sent
      /\ \/ sock' = [sock EXCEPT ![e][i] = create_local_socket(0, FALSE, FALSE)]
         \/ sock' = [sock EXCEPT ![e][i] = create_local_socket(0, TRUE, FALSE)]
         \/ sock' = [sock EXCEPT ![e][i] = local_socket_destroy]
  BY Zenon DEF ListenerConnect, SmartConnect
<1>2. i \in Ids /\ Other(e) \in End
  BY <1>0, <1>1, OtherType, BoundsAssumption DEF TypeOK, Ids
<1>3. p \in Packet /\ p.cmd = "OPEN"
  BY <1>2, ZeroId, PktType, EmptyPayload DEF Command, Pkt
<1> HIDE DEF p
<1>4. ch'[e] = ch[e] /\ ch'[Other(e)] = send_packet(ch[Other(e)], p)
  BY <1>0, <1>1, OtherType DEF TypeOK
<1>5. SendsNone(e)
  <2>1. p.cmd # "WRTE"
    BY <1>3
  <2>2. Quietly(ch[Other(e)], ch'[Other(e)])
    BY <1>3, <1>4, <2>1, Zenon DEF Quietly, send_packet
  <2> QED BY <1>0, <1>1, <2>2, QuietSends
<1>6. sock[e][i].st # "open"
  BY <1>0, <1>2 DEF ClosedInv, Ids
<1>7. PICK x : /\ sock' = [sock EXCEPT ![e][i] = x]
               /\ \/ x = create_local_socket(0, FALSE, FALSE)
                  \/ x = create_local_socket(0, TRUE, FALSE)
                  \/ x = local_socket_destroy
  BY <1>1
<1>8. x.pkts = <<>>
  BY <1>7 DEF create_local_socket, local_socket_destroy, Idle
<1>9. Frame(e) /\ TakesNone(e)
  BY <1>0, <1>1, <1>2, <1>4, <1>6, <1>7, <1>8, OneCalm DEF TakesNone
<1>10. Shape(e)
  BY <1>0, ConnectShape
<1> QED BY <1>5, <1>9, <1>10, CalmStep

LEMMA OpenData ==
  ASSUME DataInv, PairInv', NEW e \in End, HandleOpen(e)
  PROVE  DataInv'
<1> DEFINE p == Head(ch[e])
           i == next_id[e]
           j == p.arg0
           ignored == ~online[e] \/ p.arg0 = 0 \/ p.arg1 # 0
<1>0. TypeOK /\ ClosedInv
  BY DEF DataInv, PairInv, WindowInv
<1>1. /\ ch[e] # <<>> /\ p.cmd = "OPEN" /\ out' = out /\ sent' = sent
  BY DEF HandleOpen, Arrives
<1>2. /\ ch[Other(e)] \in Seq(Packet) /\ Other(e) \in End
      /\ p.arg0 \in 0..MaxId /\ p.cmd # "WRTE" /\ p.cmd # "OKAY"
  BY <1>0, <1>1, HeadType, OtherType DEF TypeOK
<1>3. Shape(e)
  BY <1>0, OpenShape
<1>4. CASE /\ UNCHANGED <<sock, next_id>>
           /\ ch' = [ch EXCEPT ![e] = Tail(@),
                               ![Other(e)] = IF ignored
                                             THEN @
                                             ELSE send_close(@, 0, p.arg0)]
  <2>1. \/ ch'[Other(e)] = ch[Other(e)]
        \/ ch'[Other(e)] = send_close(ch[Other(e)], 0, p.arg0)
    BY <1>0, <1>4, OtherType DEF TypeOK
  <2>2. Quietly(ch[Other(e)], ch'[Other(e)])
    <3>1. Quietly(ch[Other(e)], send_close(ch[Other(e)], 0, p.arg0))
      BY <1>2, ZeroId, QuietReady
    <3> QED BY <2>1, <3>1 DEF Quietly
  <2>3. SendsNone(e)
    BY <1>0, <1>1, <2>2, QuietSends
  <2>4. \A k, l \in Ids : ~Accepted(e, k, l)
    <3>1. next_id' = next_id /\ next_id[e] \in Nat
      BY <1>0, <1>4 DEF TypeOK
    <3> QED BY <3>1 DEF Accepted
  <2>5. Frame(e) /\ TakesNone(e)
    BY <1>0, <1>1, <1>2, <1>4, <2>4, NoneCalm DEF TakesNone
  <2> QED BY <1>3, <2>3, <2>5, CalmStep
<1>5. CASE /\ ~ignored /\ i <= MaxId
           /\ sock' = [sock EXCEPT ![e][i] =
                          create_local_socket(p.arg0, FALSE, TRUE)]
           /\ ch' = [ch EXCEPT ![e] = Tail(@),
                               ![Other(e)] = send_ready(@, i, p.arg0)]
  <2> DEFINE x == create_local_socket(j, FALSE, TRUE)
             q == ch[Other(e)]
             c == Pkt("OKAY", i, j, <<>>)
  <2>1. i \in Ids /\ i \in 0..MaxId
    BY <1>0, <1>5, BoundsAssumption DEF TypeOK, Ids
  <2>2. x.pkts = <<>> /\ x.peer = j
    BY DEF create_local_socket, Idle
  <2> HIDE DEF x
  <2>3. /\ sock'[e][i] = x /\ \A k \in Ids : k # i => sock'[e][k] = sock[e][k]
        /\ ch'[Other(e)] = send_ready(q, i, j)
    BY <1>0, <1>5, <2>1, OtherType DEF TypeOK, x
  <2>4. SendsNone(e)
    <3>1. Quietly(q, ch'[Other(e)])
      BY <1>2, <2>1, <2>3, QuietReady
    <3> QED BY <1>0, <1>1, <3>1, QuietSends
  <2>5. sock[e][i].st # "open"
    BY <1>0, <2>1 DEF ClosedInv, Ids
  <2>6. TakesNone(e)
    <3>1. ASSUME NEW k \in Ids, sock[e][k].st = "open"
          PROVE  GotAfter(e, k) = Got(e, k)
      BY <1>1, <2>3, <2>5, <3>1 DEF Got, GotAfter
    <3> QED BY <1>2, <3>1 DEF TakesNone
  <2>7. \A k \in Ids : Blank(e, k) => BlankAfter(e, k)
    BY <1>1, <2>2, <2>3 DEF Blank, BlankAfter
  <2>8. up => \E m \in DOMAIN ch'[Other(e)] : OkayAt(ch'[Other(e)], m, i, j)
    <3>1. c \in Packet /\ c.cmd = "OKAY" /\ c.arg0 = i /\ c.arg1 = j
      BY <1>2, <2>1, PktType, EmptyPayload DEF Command, Pkt
    <3>2. up => ch'[Other(e)] = Append(q, c)
      BY <2>3 DEF send_ready, send_packet
    <3> HIDE DEF c
    <3>3. Len(q) + 1 \in DOMAIN Append(q, c) /\ Append(q, c)[Len(q) + 1] = c
      BY <1>2, <3>1
    <3> QED BY <3>1, <3>2, <3>3 DEF OkayAt
  <2>9. \A k, l \in Ids : Accepted(e, k, l) => k = i /\ l = j
    BY DEF Accepted
  <2>10. Frame(e)
    <3>1. \A k, l \in Ids : (up /\ Accepted(e, k, l)) =>
             /\ sock'[e][k].peer = l
             /\ \E m \in DOMAIN ch'[Other(e)] : OkayAt(ch'[Other(e)], m, k, l)
      BY <2>2, <2>3, <2>8, <2>9
    <3> QED BY <1>1, <2>7, <3>1 DEF Frame
  <2> QED BY <1>3, <2>4, <2>6, <2>10, CalmStep
<1> QED BY <1>4, <1>5, Zenon DEF HandleOpen

LEMMA OkayData ==
  ASSUME DataInv, PairInv', NEW e \in End, HandleOkay(e)
  PROVE  DataInv'
<1> DEFINE p == Head(ch[e])
           s == p.arg1
<1>0. TypeOK /\ (up => online[e])
  BY DEF DataInv, PairInv, WindowInv, PhaseInv
<1>1. /\ ch[e] # <<>> /\ p.cmd = "OKAY" /\ ch' = [ch EXCEPT ![e] = Tail(@)]
      /\ out' = out /\ sent' = sent
  BY DEF HandleOkay, Arrives
<1>2. /\ p.arg0 \in 0..MaxId /\ p.arg1 \in 0..MaxId /\ 0 \in 0..MaxId
      /\ p.cmd # "WRTE" /\ p.cmd # "OPEN"
      /\ ch'[e] = Tail(ch[e]) /\ ch'[Other(e)] = ch[Other(e)]
  BY <1>0, <1>1, HeadType, ZeroId, OtherType DEF TypeOK
<1>3. Shape(e)
  BY <1>0, OkayShape
<1>4. SendsNone(e)
  BY <1>0, <1>1, <1>2, QuietSends DEF Quietly
<1>5. CASE /\ UNCHANGED <<sock, status>>
           /\ ~(/\ online[e] /\ p.arg0 # 0 /\ find_local_socket(e, p.arg1, 0) # 0
                /\ sock[e][find_local_socket(e, p.arg1, 0)].peer \in {0, p.arg0})
  <2>1. Frame(e) /\ \A k \in Ids : GotAfter(e, k) = Got(e, k)
    BY <1>0, <1>1, <1>2, <1>5, NotAccepted, NoneCalm
  <2>2. ASSUME NEW k \in Ids, p.arg1 = k, p.arg0 # 0, up, sock'[e][k].st = "open"
        PROVE  sock'[e][k].peer # 0
    <3>1. sock' = sock
      BY <1>5
    <3>2. find_local_socket(e, p.arg1, 0) = k
      BY <2>2, <3>1 DEF find_local_socket
    <3> QED BY <1>0, <1>5, <2>2, <3>1, <3>2, ZeroId
  <2>3. TakesNone(e)
    BY <1>2, <2>1, <2>2 DEF TakesNone
  <2> QED BY <1>3, <1>4, <2>1, <2>3, CalmStep
<1>6. CASE /\ find_local_socket(e, p.arg1, 0) # 0 /\ p.arg0 # 0
           /\ sock' = [sock EXCEPT ![e][find_local_socket(e, p.arg1, 0)] =
                          local_socket_ready(@, p.arg0)]
  <2>1. /\ s \in Ids /\ sock[e][s].st = "open"
        /\ find_local_socket(e, p.arg1, 0) = s
    BY <1>0, <1>2, <1>6, Found
  <2> DEFINE x == local_socket_ready(sock[e][s], p.arg0)
  <2>2. sock[e][s] \in Asocket
    BY <1>0, <2>1 DEF TypeOK
  <2>3. x.peer = p.arg0 /\ x.pkts = sock[e][s].pkts
    BY <1>2, <2>2, ReadyFields
  <2>4. sock' = [sock EXCEPT ![e][s] = x]
    BY <1>6, <2>1
  <2> HIDE DEF x
  <2>5. sock'[e][s] = x
    BY <1>0, <2>1, <2>4 DEF TypeOK
  <2>6. /\ Frame(e)
        /\ \A k \in Ids : (sock[e][k].st = "open" /\ sock'[e][k].st = "open")
                             => GotAfter(e, k) = Got(e, k)
    BY <1>0, <1>1, <1>2, <2>1, <2>3, <2>4, OneCalm
  <2>7. TakesNone(e)
    BY <1>2, <1>6, <2>3, <2>5, <2>6 DEF TakesNone
  <2> QED BY <1>3, <1>4, <2>6, <2>7, CalmStep
<1> QED BY <1>5, <1>6, Zenon DEF HandleOkay

LEMMA ClseData ==
  ASSUME DataInv, PairInv', NEW e \in End, HandleClse(e)
  PROVE  DataInv'
<1> DEFINE p == Head(ch[e])
           s == p.arg1
           found == find_local_socket(e, p.arg1, p.arg0)
<1>0. TypeOK
  BY DEF DataInv, PairInv, WindowInv
<1>1. /\ ch[e] # <<>> /\ p.cmd = "CLSE" /\ out' = out /\ sent' = sent
  BY DEF HandleClse, Arrives
<1>2. /\ p.arg0 \in 0..MaxId /\ p.arg1 \in 0..MaxId
      /\ p.cmd # "WRTE" /\ p.cmd # "OPEN" /\ p.cmd # "OKAY"
  BY <1>0, <1>1, HeadType
<1>3. Shape(e)
  BY <1>0, ClseShape
<1>4. CASE ch' = [ch EXCEPT ![e] = Tail(@)] /\ UNCHANGED <<sock, status>>
  <2>1. ch'[e] = Tail(ch[e]) /\ ch'[Other(e)] = ch[Other(e)]
    BY <1>0, <1>4, OtherType DEF TypeOK
  <2>2. SendsNone(e)
    BY <1>0, <1>1, <2>1, QuietSends DEF Quietly
  <2>3. Frame(e) /\ \A k \in Ids : GotAfter(e, k) = Got(e, k)
    BY <1>0, <1>1, <1>2, <1>4, NotAccepted, NoneCalm
  <2>4. TakesNone(e)
    BY <1>2, <2>3 DEF TakesNone
  <2> QED BY <1>3, <2>2, <2>3, <2>4, CalmStep
<1>5. CASE /\ found # 0
           /\ \E stale \in MayBeStale(sock[e][found]) :
                 sock' = [sock EXCEPT ![e][found] =
                             local_socket_close_locked(@, stale)]
           /\ ch' = [ch EXCEPT ![e] = Tail(@),
                               ![Other(e)] =
                                  remote_socket_shutdown(@, found, sock[e][found])]
  <2>1. s \in Ids /\ sock[e][s].st = "open" /\ found = s
    BY <1>0, <1>2, <1>5, Found
  <2> HIDE DEF found, s
  <2>2. PICK stale \in BOOLEAN :
           sock' = [sock EXCEPT ![e][s] =
                       local_socket_close_locked(sock[e][s], stale)]
    BY <1>5, <2>1, Zenon DEF MayBeStale
  <2> DEFINE x == local_socket_close_locked(sock[e][s], stale)
  <2>3. sock[e][s] \in Asocket
    BY <1>0, <2>1 DEF TypeOK
  <2>4. x.st # "open" /\ (x.pkts = <<>> \/ x.pkts = sock[e][s].pkts)
    BY <2>3, CloseFields
  <2> HIDE DEF x
  <2>5. sock' = [sock EXCEPT ![e][s] = x]
    BY <2>2 DEF x
  <2>6. /\ Frame(e)
        /\ \A k \in Ids : (sock[e][k].st = "open" /\ sock'[e][k].st = "open")
                             => GotAfter(e, k) = Got(e, k)
    BY <1>0, <1>1, <1>2, <2>1, <2>4, <2>5, OneCalm
  <2>7. ch'[Other(e)] = remote_socket_shutdown(ch[Other(e)], s, sock[e][s])
    BY <1>0, <1>5, <2>1, OtherType DEF TypeOK
  <2>8. SendsNone(e)
    BY <1>0, <1>1, <2>1, <2>3, <2>7, QuietShutdown, QuietSends
  <2>9. TakesNone(e)
    BY <1>2, <2>6 DEF TakesNone
  <2> QED BY <1>3, <2>6, <2>8, <2>9, CalmStep
<1> QED BY <1>4, <1>5, Zenon DEF HandleClse

LEMMA SyncData ==
  ASSUME DataInv, PairInv', NEW e \in End, HandleSync(e)
  PROVE  DataInv'
<1>0. TypeOK
  BY DEF DataInv, PairInv, WindowInv
<1>1. /\ ch' = [ch EXCEPT ![e] = Tail(@)] /\ Head(ch[e]).cmd = "SYNC"
      /\ out' = out /\ sent' = sent
  BY DEF HandleSync, Arrives
<1>2. /\ ch'[Other(e)] = ch[Other(e)]
      /\ Head(ch[e]).cmd \notin {"WRTE", "OPEN", "OKAY"}
  BY <1>0, <1>1, OtherType DEF TypeOK
<1>3. Shape(e)
  BY <1>0, SyncShape
<1>4. SendsNone(e)
  BY <1>0, <1>1, <1>2, QuietSends DEF Quietly
<1>5. PICK stale \in [Ids -> BOOLEAN] :
         sock' = [sock EXCEPT ![e] = [i \in Ids |->
                    remote_socket_disconnect(sock[e][i], stale[i])]]
  BY Zenon DEF HandleSync, handle_offline
<1> DEFINE swept == [i \in Ids |-> remote_socket_disconnect(sock[e][i], stale[i])]
           c(i) == local_socket_close_locked(sock[e][i], stale[i])
<1>6. \A i \in Ids : /\ c(i).st # "open"
                     /\ c(i).pkts = <<>> \/ c(i).pkts = sock[e][i].pkts
  <2> TAKE i \in Ids
  <2>1. sock[e][i] \in Asocket /\ stale[i] \in BOOLEAN
    BY <1>0 DEF TypeOK
  <2> QED BY <2>1, CloseFields
<1>7. \A i \in Ids : swept[i] = sock[e][i] \/ swept[i] = c(i)
  BY Zenon DEF remote_socket_disconnect
<1>8. sock' = [sock EXCEPT ![e] = swept]
  BY <1>5
<1> HIDE DEF swept, c
<1>9. /\ Frame(e)
      /\ \A k \in Ids : (sock[e][k].st = "open" /\ sock'[e][k].st = "open")
                           => GotAfter(e, k) = Got(e, k)
  <2>1. \A i \in Ids : \/ swept[i] = sock[e][i]
                       \/ /\ swept[i].st # "open"
                          /\ swept[i].pkts = <<>> \/ swept[i].pkts = sock[e][i].pkts
    BY <1>6, <1>7
  <2>2. Head(ch[e]).cmd # "OPEN"
    BY <1>2
  <2> QED BY <1>0, <1>1, <1>8, <2>1, <2>2, ManyCalm
<1>10. TakesNone(e)
  BY <1>2, <1>9 DEF TakesNone
<1> QED BY <1>3, <1>4, <1>9, <1>10, CalmStep

LEMMA CloseAllData ==
  ASSUME DataInv, PairInv', NEW e \in End, CloseAllSockets(e)
  PROVE  DataInv'
<1>0. TypeOK
  BY DEF DataInv, PairInv, WindowInv
<1>1. ch' = ch /\ out' = out /\ sent' = sent
  BY DEF CloseAllSockets
<1>2. Shape(e)
  BY <1>0, CloseAllShape
<1>3. SendsNone(e)
  BY <1>0, <1>1, QuietSends DEF Quietly
<1> DEFINE c(i) == local_socket_close_locked(sock[e][i], FALSE)
           swept == [i \in Ids |-> IF sock[e][i].st = "open" THEN c(i)
                                   ELSE sock[e][i]]
<1>4. \A i \in Ids : /\ c(i).st # "open"
                     /\ c(i).pkts = <<>> \/ c(i).pkts = sock[e][i].pkts
  <2> TAKE i \in Ids
  <2>1. sock[e][i] \in Asocket /\ FALSE \in BOOLEAN
    BY <1>0 DEF TypeOK
  <2> QED BY <2>1, CloseFields
<1>5. sock' = [sock EXCEPT ![e] = swept]
  BY Zenon DEF CloseAllSockets
<1> HIDE DEF c
<1>6. \A i \in Ids : swept[i] = sock[e][i] \/ swept[i] = c(i)
  BY Zenon
<1> HIDE DEF swept
<1>7. /\ Frame(e)
      /\ \A k \in Ids : (sock[e][k].st = "open" /\ sock'[e][k].st = "open")
                           => GotAfter(e, k) = Got(e, k)
  <2>1. \A i \in Ids : \/ swept[i] = sock[e][i]
                       \/ /\ swept[i].st # "open"
                          /\ swept[i].pkts = <<>> \/ swept[i].pkts = sock[e][i].pkts
    BY <1>4, <1>6
  <2> QED BY <1>0, <1>1, <1>5, <2>1, ManyCalm
<1>8. TakesNone(e)
  BY <1>1, <1>7 DEF TakesNone
<1> QED BY <1>2, <1>3, <1>7, <1>8, CalmStep

LEMMA StaleData ==
  ASSUME DataInv, PairInv', NEW e \in End, NEW i \in Ids, NEW eof \in BOOLEAN,
         StaleReadable(e, i, eof)
  PROVE  DataInv'
<1>0. TypeOK
  BY DEF DataInv, PairInv, WindowInv
<1> DEFINE s == sock[e][i]
           c == local_socket_close_locked(s, FALSE)
           d == [s EXCEPT !.stale = FALSE]
           x == IF eof THEN c ELSE d
<1>1. s \in Asocket /\ s.st = "closing" /\ FALSE \in BOOLEAN
  BY <1>0 DEF TypeOK, StaleReadable
<1>2. d.pkts = s.pkts /\ (c.pkts = <<>> \/ c.pkts = s.pkts)
  BY <1>1, CloseFields DEF Asocket
<1> HIDE DEF c, d
<1>3. x.pkts = <<>> \/ x.pkts = s.pkts
  BY <1>2, Zenon
<1>4. /\ sock' = [sock EXCEPT ![e][i] = x]
      /\ ch' = ch /\ out' = out /\ sent' = sent
  BY Zenon DEF StaleReadable, c, d
<1> HIDE DEF x
<1>5. /\ Frame(e)
      /\ \A k \in Ids : (sock[e][k].st = "open" /\ sock'[e][k].st = "open")
                           => GotAfter(e, k) = Got(e, k)
  <2>1. sock[e][i].st # "open"
    BY <1>1
  <2> QED BY <1>0, <1>3, <1>4, <2>1, OneCalm
<1>6. TakesNone(e) /\ SendsNone(e)
  BY <1>0, <1>4, <1>5, QuietSends DEF TakesNone, Quietly
<1>7. Shape(e)
  BY <1>0, StaleShape
<1> QED BY <1>5, <1>6, <1>7, CalmStep

Alone(e, i) == \A j \in Ids : ~Linked(e, i, j)

\* One socket changes and its descriptor is written.
LEMMA OneFrame ==
  ASSUME TypeOK, NEW e \in End, NEW s \in Ids, NEW x, NEW o,
         sock' = [sock EXCEPT ![e][s] = x], out' = [out EXCEPT ![e][s] = o],
         sent' = sent,
         (Blank(e, s) /\ Alone(e, s)) => o = <<>> /\ x.pkts = <<>>,
         ch'[e] = ch[e] \/ Head(ch[e]).cmd # "OPEN"
  PROVE  /\ Frame(e) /\ sock'[e][s] = x /\ out'[e][s] = o
         /\ \A i \in Ids : i # s => GotAfter(e, i) = Got(e, i)
<1>1. /\ sock'[e][s] = x /\ out'[e][s] = o /\ out'[Other(e)] = out[Other(e)]
      /\ \A k \in Ids : k # s => sock'[e][k] = sock[e][k] /\ out'[e][k] = out[e][k]
  BY OtherType DEF TypeOK
<1>2. \A i, j \in Ids : ~Accepted(e, i, j)
  BY NotAccepted
<1>3. \A i \in Ids : (Blank(e, i) /\ \A j \in Ids : ~Linked(e, i, j))
                        => BlankAfter(e, i)
  BY <1>1 DEF Blank, BlankAfter, Alone
<1>4. Frame(e)
  BY <1>1, <1>2, <1>3 DEF Frame
<1>5. \A i \in Ids : i # s => GotAfter(e, i) = Got(e, i)
  BY <1>1 DEF Got, GotAfter
<1> QED BY <1>1, <1>4, <1>5

\* The same, when the socket has got the same data as before.
LEMMA OneWrites ==
  ASSUME TypeOK, NEW e \in End, NEW s \in Ids, NEW x, NEW o,
         sock' = [sock EXCEPT ![e][s] = x], out' = [out EXCEPT ![e][s] = o],
         sent' = sent, Blank(e, s) => o = <<>> /\ x.pkts = <<>>,
         (x.st = "open" /\ sock[e][s].st = "open") => o \o x.pkts = Got(e, s),
         ch'[e] = ch[e] \/ Head(ch[e]).cmd # "OPEN"
  PROVE  /\ Frame(e)
         /\ \A i \in Ids : (sock[e][i].st = "open" /\ sock'[e][i].st = "open")
                              => GotAfter(e, i) = Got(e, i)
<1>1. /\ Frame(e) /\ sock'[e][s] = x /\ out'[e][s] = o
      /\ \A i \in Ids : i # s => GotAfter(e, i) = Got(e, i)
  <2>1. (Blank(e, s) /\ Alone(e, s)) => o = <<>> /\ x.pkts = <<>>
    OBVIOUS
  <2> QED BY <2>1, OneFrame
<1>2. (sock[e][s].st = "open" /\ x.st = "open") => GotAfter(e, s) = Got(e, s)
  BY <1>1 DEF GotAfter
<1> QED BY <1>1, <1>2

LEMMA DrainedData ==
  ASSUME DataInv, PairInv', NEW e \in End, NEW i \in Ids, SocketDrained(e, i)
  PROVE  DataInv'
<1>0. TypeOK
  BY DEF DataInv, PairInv, WindowInv
<1> DEFINE s == sock[e][i]
           d == [s EXCEPT !.pkts = <<>>, !.wr = FALSE]
           x == IF s.st = "closing" THEN local_socket_destroy ELSE d
           o == out[e][i] \o s.pkts
           q == ch[Other(e)]
<1>1. /\ s \in Asocket /\ s.peer \in 0..MaxId /\ i \in 0..MaxId
      /\ s.pkts \in Seq(Unit) /\ out[e][i] \in Seq(Unit)
  BY <1>0, ZeroId DEF TypeOK, Asocket
<1>2. d.pkts = <<>> /\ local_socket_destroy.pkts = <<>>
  BY <1>1, DestroyFields DEF Asocket
<1> HIDE DEF d
<1>3. x.pkts = <<>>
  BY <1>2, Zenon
<1>4. /\ sock' = [sock EXCEPT ![e][i] = x] /\ out' = [out EXCEPT ![e][i] = o]
      /\ sent' = sent
      /\ ch' = [ch EXCEPT ![Other(e)] =
                   IF s.st = "closing" THEN @ ELSE send_ready(@, i, s.peer)]
  BY Zenon DEF SocketDrained, d
<1>5. /\ ch'[e] = ch[e]
      /\ ch'[Other(e)] = q \/ ch'[Other(e)] = send_ready(q, i, s.peer)
  BY <1>0, <1>4, OtherType DEF TypeOK
<1> HIDE DEF x
<1>6. Blank(e, i) => o = <<>>
  BY <1>1, ConcatEmpty DEF Blank
<1>7. o \o x.pkts = Got(e, i)
  <2>1. o \in Seq(Unit)
    BY <1>1
  <2>2. o \o <<>> = o
    BY <2>1, ConcatEmpty
  <2> QED BY <1>3, <2>2 DEF Got
<1> HIDE DEF o
<1>8. /\ Frame(e)
      /\ \A k \in Ids : (sock[e][k].st = "open" /\ sock'[e][k].st = "open")
                           => GotAfter(e, k) = Got(e, k)
  BY <1>0, <1>3, <1>4, <1>5, <1>6, <1>7, OneWrites
<1>9. SendsNone(e)
  <2>1. Quietly(q, send_ready(q, i, s.peer)) /\ Quietly(q, q)
    BY <1>1, QuietReady DEF Quietly
  <2> QED BY <1>0, <1>4, <1>5, <2>1, QuietSends
<1>10. TakesNone(e)
  BY <1>5, <1>8 DEF TakesNone
<1>11. Shape(e)
  BY <1>0, DrainedShape
<1> QED BY <1>8, <1>9, <1>10, <1>11, CalmStep

LEMMA BlockedData ==
  ASSUME DataInv, PairInv', NEW e \in End, NEW i \in Ids, NEW err \in BOOLEAN,
         SocketBlocked(e, i, err)
  PROVE  DataInv'
<1>0. TypeOK /\ (sock[e][i].st = "closing" => sock[e][i].peer = 0)
  BY DEF DataInv, PairInv, WindowInv, ClosedInv
<1> DEFINE s == sock[e][i]
           n == Len(s.pkts)
           s1(k) == [s EXCEPT !.pkts = SubSeq(s.pkts, k + 1, n)]
           x(k) == IF err THEN local_socket_close_locked(s1(k), FALSE) ELSE s1(k)
           o(k) == out[e][i] \o SubSeq(s.pkts, 1, k)
           q == ch[Other(e)]
<1>1. /\ s \in Asocket /\ s.pkts \in Seq(Unit) /\ out[e][i] \in Seq(Unit)
      /\ n \in Nat
  BY <1>0 DEF TypeOK, Asocket
<1>2. PICK k \in 0..n : /\ k < n
                        /\ sock' = [sock EXCEPT ![e][i] = x(k)]
                        /\ out' = [out EXCEPT ![e][i] = o(k)]
  BY Zenon DEF SocketBlocked
<1>3. /\ sent' = sent
      /\ ch' = [ch EXCEPT ![Other(e)] =
                   IF err THEN remote_socket_shutdown(@, i, s) ELSE @]
  BY Zenon DEF SocketBlocked
<1>4. /\ ch'[e] = ch[e]
      /\ ch'[Other(e)] = q \/ ch'[Other(e)] = remote_socket_shutdown(q, i, s)
  BY <1>0, <1>3, OtherType DEF TypeOK
<1>5. s1(k) \in Asocket /\ s1(k).pkts = SubSeq(s.pkts, k + 1, n)
  <2>1. SubSeq(s.pkts, k + 1, n) \in Seq(Unit)
    BY <1>1
  <2>2. s1(k) \in Asocket
    BY <1>1, <2>1, QueueType
  <2> QED BY <1>1, <2>2 DEF Asocket
<1> HIDE DEF s1
<1>6. x(k).st = "open" => x(k).pkts = SubSeq(s.pkts, k + 1, n)
  <2> DEFINE c == local_socket_close_locked(s1(k), FALSE)
  <2>1. c.st # "open"
    BY <1>5, CloseFields
  <2> HIDE DEF c
  <2>2. x(k) = c \/ x(k) = s1(k)
    BY Zenon DEF c
  <2> QED BY <1>5, <2>1, <2>2
<1> HIDE DEF x
<1>7. ~Blank(e, i)
  <2>1. s.pkts = <<>> => n = 0
    OBVIOUS
  <2> QED BY <1>1, <1>2, <2>1 DEF Blank
<1>8. o(k) \o SubSeq(s.pkts, k + 1, n) = Got(e, i)
  BY <1>1, <1>2, ConcatSplit DEF Got
<1> HIDE DEF o
<1>9. /\ Frame(e)
      /\ \A m \in Ids : (sock[e][m].st = "open" /\ sock'[e][m].st = "open")
                           => GotAfter(e, m) = Got(e, m)
  BY <1>0, <1>2, <1>3, <1>4, <1>6, <1>7, <1>8, OneWrites
<1>10. SendsNone(e)
  <2>1. Quietly(q, remote_socket_shutdown(q, i, s)) /\ Quietly(q, q)
    BY <1>1, QuietShutdown DEF Quietly
  <2> QED BY <1>0, <1>3, <1>4, <2>1, QuietSends
<1>11. TakesNone(e)
  BY <1>4, <1>9 DEF TakesNone
<1>12. Shape(e)
  BY <1>0, BlockedShape
<1> QED BY <1>9, <1>10, <1>11, <1>12, CalmStep

\* A WRTE that arrives at an open socket finds it connected to the sender: the
\* OKAY came first, and the socket is linked to nobody else.
LEMMA WrteMatches ==
  ASSUME DataInv, up, NEW e \in End, ch[e] # <<>>, Head(ch[e]).cmd = "WRTE",
         NEW i \in Ids, NEW j \in Ids, Head(ch[e]).arg0 = j, Head(ch[e]).arg1 = i,
         sock[e][i].st = "open"
  PROVE  /\ online[e] /\ find_local_socket(e, i, j) = i
         /\ FlowOK(Other(e), j, i) /\ 1 \in Writes(ch[e], j, i)
         /\ ch[e][1] = Head(ch[e])
<1> DEFINE f == Other(e)
           q == ch[e]
<1>0. /\ TypeOK /\ PhaseInv /\ MatchInv /\ FlowInv /\ f \in End /\ Other(f) = e
      /\ q \in Seq(Packet) /\ sock[e][i] \in Asocket
  BY OtherType DEF DataInv, PairInv, WindowInv, TypeOK
<1>1. /\ 1 \in DOMAIN q /\ q[1] = Head(q) /\ \A m \in DOMAIN q : ~(m < 1)
  BY <1>0
<1>2. 1 \in Writes(q, j, i)
  BY <1>1 DEF Writes
<1>3. Linked(e, i, j) /\ Linked(f, j, i) /\ Linked(e, i, sock[e][i].peer)
  <2>1. Said(q, j, i)
    BY <1>1 DEF Said
  <2> QED BY <1>0, <2>1, Zenon DEF Linked, Together
<1>4. FlowOK(f, j, i)
  BY <1>0, <1>3 DEF FlowInv
<1>5. sock[e][i].peer # 0
  BY <1>0, <1>1, <1>2, <1>4 DEF FlowOK, Order
<1>6. sock[e][i].peer = j
  <2>1. sock[e][i].peer \in Ids
    BY <1>0, <1>5 DEF Asocket, Ids
  <2> QED BY <1>0, <1>3, <2>1 DEF MatchInv
<1>7. online[e]
  BY <1>0 DEF PhaseInv
<1> QED BY <1>1, <1>2, <1>4, <1>6, <1>7 DEF find_local_socket

LEMMA WrteData ==
  ASSUME DataInv, PairInv', NEW e \in End, HandleWrte(e)
  PROVE  DataInv'
<1> DEFINE p == Head(ch[e])
           s == p.arg1
           g == p.arg0
           f == Other(e)
           found == find_local_socket(e, p.arg1, p.arg0)
           answer(q, ret) ==
             CASE ret = "ready"   -> send_ready(q, found, p.arg0)
               [] ret = "error"   -> remote_socket_shutdown(q, found, sock[e][found])
               [] ret = "backlog" -> q
<1>0. TypeOK /\ TypeOK' /\ WindowInv /\ MatchInv
  BY DEF DataInv, PairInv, WindowInv
<1>1. /\ ch[e] # <<>> /\ p.cmd = "WRTE" /\ sent' = sent
  BY DEF HandleWrte, Arrives
<1>2. /\ p.arg0 \in 0..MaxId /\ p.arg1 \in 0..MaxId /\ p.data \in Payload
      /\ p.cmd # "OPEN" /\ p.cmd # "OKAY"
      /\ f \in End /\ Other(f) = e /\ ch[f] \in Seq(Packet)
  BY <1>0, <1>1, HeadType, OtherType DEF TypeOK
<1>3. Shape(e) /\ \A i, j \in Ids : ~Accepted(e, i, j)
  BY <1>0, <1>2, WrteShape, NotAccepted
<1>4. ASSUME Frame(e), SendsNone(e),
             \A i, j \in Ids : (up /\ LinkedAfter(e, i, j) /\ sock'[e][i].st = "open")
                                  => FlowAfter(f, j, i)
      PROVE  DataInv'
  <2>1. \A i \in Ids : Silent(e, i)
    BY <1>4 DEF SendsNone, Silent
  <2>2. \A i, j \in Ids :
           (up /\ LinkedAfter(e, i, j) /\ sock'[f][j].st = "open")
              => FlowAfter(e, i, j)
    BY <1>0, <1>3, <1>4, <2>1, OutFlow
  <2> QED BY <1>3, <1>4, <2>2, FlowStep
<1>5. CASE /\ ~(online[e] /\ p.arg0 # 0 /\ found # 0)
           /\ ch' = [ch EXCEPT ![e] = Tail(@)] /\ UNCHANGED <<sock, out, broken>>
  <2>1. ch'[e] = Tail(ch[e]) /\ ch'[f] = ch[f]
    BY <1>0, <1>5, OtherType DEF TypeOK
  <2>2. SendsNone(e)
    BY <1>0, <1>1, <2>1, QuietSends DEF Quietly
  <2>3. Frame(e) /\ \A k \in Ids : GotAfter(e, k) = Got(e, k)
    BY <1>0, <1>1, <1>3, <1>5, NoneCalm
  <2>4. ASSUME NEW i \in Ids, NEW j \in Ids, up, LinkedAfter(e, i, j),
               sock'[e][i].st = "open"
        PROVE  FlowAfter(f, j, i)
    <3>1. p.arg0 # j \/ p.arg1 # i
      <4> SUFFICES ASSUME p.arg0 = j, p.arg1 = i PROVE FALSE
        OBVIOUS
      <4>1. sock[e][i].st = "open" /\ j # 0 /\ i # 0
        BY <1>5, <2>4, ZeroId
      <4> QED BY <1>1, <1>5, <2>4, <4>1, WrteMatches
    <3>2. Passes(e, i, j)
      BY <1>2, <2>3, <3>1 DEF Passes
    <3>3. Silent(e, i)
      BY <2>2 DEF SendsNone, Silent
    <3> QED BY <1>0, <1>3, <2>3, <2>4, <3>2, <3>3, InFlow
  <2> QED BY <1>4, <2>2, <2>3, <2>4
<1>6. CASE /\ found # 0 /\ p.arg0 # 0
           /\ \E r \in local_socket_enqueue(sock[e][found], p.data) :
                 /\ sock' = [sock EXCEPT ![e][found] = r.sock]
                 /\ out' = [out EXCEPT ![e][found] =
                               @ \o SubSeq(p.data, 1, r.wrote)]
                 /\ ch' = [ch EXCEPT ![e] = Tail(@),
                                     ![Other(e)] = answer(@, r.ret)]
  <2> DEFINE old == sock[e][s]
             d == p.data
             o(k) == out[e][s] \o SubSeq(d, 1, k)
  <2>1. /\ s \in Ids /\ old.st = "open" /\ found = s /\ g \in Ids
        /\ old.peer = g /\ old \in Asocket /\ out[e][s] \in Seq(Unit)
        /\ d \in Seq(Unit)
    <3>0. found # 0 /\ g # 0
      BY <1>6, Zenon
    <3>1. g \in Ids
      BY <1>2, <3>0 DEF Ids
    <3>2. s \in Ids /\ old.st = "open" /\ found = s /\ old.peer = g
      BY <1>0, <1>2, <3>0, Found
    <3> QED BY <1>0, <1>2, <3>1, <3>2, ZenonT(60), SMTT(60) DEF TypeOK, Payload
  <2> HIDE DEF found
  <2>2. PICK r \in local_socket_enqueue(old, d) :
                 /\ sock' = [sock EXCEPT ![e][s] = r.sock]
                 /\ out' = [out EXCEPT ![e][s] = o(r.wrote)]
                 /\ ch' = [ch EXCEPT ![e] = Tail(@),
                                     ![Other(e)] = answer(@, r.ret)]
    BY <1>6, <2>1
  <2>3. /\ r.wrote \in 0..Len(d) /\ Len(d) \in Nat
        /\ \/ r.ret = "ready" /\ r.sock = old /\ r.wrote = Len(d)
           \/ r.ret = "backlog" /\ r.sock = Backlog(old, d, r.wrote)
           \/ r.ret = "error" /\ r.sock = local_socket_close_locked(old, FALSE)
    <3>1. Len(d) \in Nat
      BY <2>1
    <3> QED BY <1>2, <2>1, <2>2, <3>1, EnqueueCases
  <2>4. ch'[e] = Tail(ch[e]) /\ ch'[f] = answer(ch[f], r.ret)
    BY <1>0, <2>2, OtherType, ZenonT(60) DEF TypeOK
  <2>5. SendsNone(e)
    <3>1. /\ Quietly(ch[f], send_ready(ch[f], s, g)) /\ Quietly(ch[f], ch[f])
          /\ Quietly(ch[f], remote_socket_shutdown(ch[f], s, old))
      BY <1>2, <2>1, QuietReady, QuietShutdown DEF Quietly
    <3>2. \/ ch'[f] = send_ready(ch[f], s, g) \/ ch'[f] = ch[f]
          \/ ch'[f] = remote_socket_shutdown(ch[f], s, old)
      BY <2>1, <2>3, <2>4
    <3>3. Quietly(ch[f], ch'[f])
      BY <3>1, <3>2
    <3> QED BY <1>0, <1>1, <3>3, QuietSends
  <2>6. Linked(e, s, g)
    BY <2>1, Zenon DEF Linked, Together
  <2>7. /\ Frame(e) /\ sock'[e][s] = r.sock /\ out'[e][s] = o(r.wrote)
        /\ \A i \in Ids : i # s => GotAfter(e, i) = Got(e, i)
    <3> HIDE DEF o, old, s, d
    <3>1. ~Alone(e, s)
      BY <2>1, <2>6 DEF Alone
    <3> QED BY <1>0, <1>1, <1>2, <2>1, <2>2, <3>1, OneFrame, ZenonT(60)
  <2>8. old.pkts = <<>> /\ Uses(Tail(ch[e]), g) = {}
    <3>1. Holders(sock[e], g) = {} /\ Uses(Tail(ch[e]), g) = {}
      BY <1>0, <1>1, <2>1, TakenUse
    <3> QED BY <2>1, <3>1, HoldersDef DEF Holds
  <2>9. r.sock.st = "open" =>
           r.sock.pkts = SubSeq(d, r.wrote + 1, Len(d)) /\ r.sock.peer = g
    <3> DEFINE u == SubSeq(d, r.wrote + 1, Len(d))
    <3>1. u \in Seq(Unit) /\ (r.wrote = Len(d) => u = <<>>)
      BY <2>1, <2>3
    <3>2. CASE r.ret = "ready" /\ r.sock = old /\ r.wrote = Len(d)
      BY <2>1, <2>8, <3>1, <3>2
    <3>3. CASE r.ret = "backlog" /\ r.sock = Backlog(old, d, r.wrote)
      <4>1. r.sock = [old EXCEPT !.pkts = old.pkts \o u, !.wr = TRUE]
        BY <3>3, Zenon DEF Backlog
      <4> DEFINE w == old.pkts \o u
      <4>2. w = u
        BY <2>8, <3>1
      <4> HIDE DEF w, u, old
      <4>3. r.sock.pkts = w /\ r.sock.peer = old.peer
        BY <2>1, <4>1 DEF Asocket, w
      <4> QED BY <2>1, <4>2, <4>3 DEF u
    <3>4. CASE r.ret = "error" /\ r.sock = local_socket_close_locked(old, FALSE)
      BY <2>1, <3>4, CloseFields
    <3> QED BY <2>3, <3>2, <3>3, <3>4
  <2>10. ASSUME NEW i \in Ids, NEW j \in Ids, up, LinkedAfter(e, i, j),
                sock'[e][i].st = "open"
         PROVE  FlowAfter(f, j, i)
    <3>1. CASE i # s
      <4>1. Passes(e, i, j)
        BY <1>2, <2>7, <3>1 DEF Passes
      <4>2. Silent(e, i)
        BY <2>5 DEF SendsNone, Silent
      <4> QED BY <1>0, <1>3, <2>7, <2>10, <4>1, <4>2, InFlow
    <3>2. CASE i = s
      <4>1. j = g
        <5>1. Linked(e, i, j)
          BY <1>0, <1>3, <2>10, LinkStep
        <5> QED BY <1>0, <2>1, <2>6, <3>2, <5>1 DEF MatchInv
      <4>2. FlowOK(f, g, s) /\ 1 \in Writes(ch[e], g, s) /\ ch[e][1] = p
        BY <1>1, <2>1, <2>10, WrteMatches
      <4>3. out[e][s] \o d = Units(g, sent[f][g])
        <5>1. Got(e, s) \o d = Units(g, sent[f][g])
          BY <1>2, <4>2 DEF FlowOK, Rule
        <5>2. Got(e, s) = out[e][s]
          BY <2>1, <2>8, ConcatEmpty DEF Got
        <5> QED BY <5>1, <5>2
      <4>4. GotAfter(e, s) = out[e][s] \o d
        <5>1. GotAfter(e, s) = o(r.wrote) \o SubSeq(d, r.wrote + 1, Len(d))
          BY <2>7, <2>9, <2>10, <3>2 DEF GotAfter
        <5> QED BY <2>1, <2>3, <5>1, ConcatSplit
      <4>5. Writes(ch'[e], g, s) = {}
        BY <2>4, <2>8 DEF Writes, Uses
      <4>6. sock'[e][s].peer # 0
        BY <2>1, <2>7, <2>9, <2>10, <3>2, ZeroId
      <4> HIDE DEF d, s, g, f, p, o
      <4>7. FlowAfter(f, g, s)
        BY <1>1, <1>2, <4>3, <4>4, <4>5, <4>6 DEF FlowAfter, Rule, Order
      <4> QED BY <3>2, <4>1, <4>7
    <3> QED BY <3>1, <3>2
  <2> QED BY <1>4, <2>5, <2>7, <2>10
<1> QED BY <1>5, <1>6, Zenon DEF HandleWrte

\* What a socket reads is the continuation of what it read before: its
\* permission to send was at home, so none of its data is under way.
LEMMA SentFlow ==
  ASSUME DataInv, TypeOK', NEW e \in End, Shape(e), NEW i \in Ids, NEW j \in Ids,
         sock[e][i].st = "open", sock[e][i].rd, sock[e][i].peer = j, up,
         sock[Other(e)][j].st = "open", out' = out, NEW got \in Nat, NEW w,
         sent'[e][i] = sent[e][i] + got, ch'[e] = ch[e],
         w \in Packet, w.cmd = "WRTE", w.arg0 = i, w.arg1 = j,
         w.data = [n \in 1..got |-> <<i, sent[e][i] + n>>],
         \/ ch'[Other(e)] = Append(ch[Other(e)], w)
         \/ \E c \in Packet : /\ c.cmd # "WRTE"
                              /\ ch'[Other(e)] = Append(Append(ch[Other(e)], w), c)
  PROVE  FlowAfter(e, i, j)
<1> DEFINE f == Other(e)
           q == ch[f]
           r == ch'[f]
           n == Len(q) + 1
<1>0. /\ TypeOK /\ WindowInv /\ FlowInv /\ f \in End /\ Other(f) = e
      /\ q \in Seq(Packet) /\ sent[e][i] \in Nat /\ Len(q) \in Nat
  <2>1. TypeOK /\ WindowInv /\ FlowInv
    BY DEF DataInv, PairInv, WindowInv
  <2>2. f \in End /\ Other(f) = e
    BY OtherType
  <2>3. q \in Seq(Packet) /\ sent[e][i] \in 0..MaxUnits
    BY <2>1, <2>2 DEF TypeOK
  <2>4. Len(q) \in Nat
    BY <2>3
  <2> QED BY <2>1, <2>2, <2>3, <2>4, BoundsAssumption
<1>1. sock'[f] = sock[f]
  BY DEF Shape, SockShape
<1>2. FlowOK(e, i, j)
  <2>1. Linked(e, i, j)
    BY Zenon DEF Linked, Together
  <2> QED BY <1>0, <2>1 DEF FlowInv
<1>3. Writes(q, i, j) = {}
  <2>1. Uses(q, i) = {}
    <3>1. One(e, i)
      BY <1>0 DEF WindowInv
    <3> QED BY <3>1, Zenon DEF One, Single
  <2> QED BY <2>1 DEF Writes, Uses
<1>4. Got(f, j) = Units(i, sent[e][i])
  BY <1>2, <1>3 DEF FlowOK, Rule
<1>5. /\ n \in DOMAIN r /\ r[n] = w
      /\ \A m \in DOMAIN r : (m \in DOMAIN q /\ r[m] = q[m]) \/ m = n \/ r[m].cmd # "WRTE"
  <2>1. CASE r = Append(q, w)
    BY <1>0, <2>1
  <2>2. ASSUME NEW c \in Packet, c.cmd # "WRTE", r = Append(Append(q, w), c)
        PROVE  <1>5!:
    <3> DEFINE v == Append(q, w)
    <3>1. /\ v \in Seq(Packet) /\ Len(v) = n /\ v[n] = w /\ n \in Nat
          /\ \A m \in DOMAIN v : (m \in DOMAIN q /\ v[m] = q[m]) \/ m = n
      BY <1>0
    <3>2. r = Append(v, c)
      BY <2>2
    <3> HIDE DEF v
    <3>3. /\ \A m \in DOMAIN r : (m \in DOMAIN v /\ r[m] = v[m]) \/ r[m] = c
          /\ \A m \in DOMAIN v : m \in DOMAIN r /\ r[m] = v[m]
          /\ n \in DOMAIN v
      BY <3>1, <3>2
    <3> HIDE DEF n, q, r
    <3> QED BY ONLY <2>2, <3>1, <3>3, SMTT(60), ZenonT(60)
  <2> QED BY <2>1, <2>2
<1>6. Writes(r, i, j) = {n}
  <2> HIDE DEF n, q, r
  <2> QED BY <1>3, <1>5 DEF Writes
<1>7. GotAfter(f, j) = Got(f, j)
  BY <1>1 DEF GotAfter, Got
<1>8. Got(f, j) \o w.data = Units(i, sent'[e][i])
  <2> DEFINE a == sent[e][i]
             d == w.data
  <2>1. a \in Nat /\ d = [m \in 1..got |-> <<i, a + m>>]
    BY <1>0
  <2>2. Got(f, j) = Units(i, a) /\ sent'[e][i] = a + got
    BY <1>4
  <2> HIDE DEF a, d, f
  <2>3. /\ d \in Seq({i} \X Nat) /\ Len(d) = got
        /\ \A m \in 1..got : d[m] = <<i, a + m>>
    BY <2>1
  <2>4. Units(i, a) \o d = Units(i, a + got)
    BY <2>1, <2>3, UnitsGrow, ZenonT(60)
  <2> QED BY <2>2, <2>4, Zenon DEF d
<1>9. Rule(GotAfter(f, j), r, Units(i, sent'[e][i]), i, j)
  <2> HIDE DEF n, r
  <2> QED BY <1>5, <1>6, <1>7, <1>8 DEF Rule
<1>10. Order(sock'[e][i], sock'[f][j], r, i, j)
  <2> SUFFICES ASSUME sock[f][j].peer = 0
               PROVE  \E m \in DOMAIN r : m < n /\ OkayAt(r, m, i, j)
    BY <1>1, <1>6, Zenon DEF Order
  <2>1. PICK m \in DOMAIN q : OkayAt(q, m, i, j)
    BY <1>2 DEF FlowOK, Order
  <2>2. m < n
    BY <1>0, <2>1
  <2>3. m \in DOMAIN r /\ r[m] = q[m]
    BY <1>0, Stays
  <2> QED BY <2>1, <2>2, <2>3 DEF OkayAt
<1> QED BY <1>9, <1>10 DEF FlowAfter

LEMMA ReadableData ==
  ASSUME DataInv, PairInv', NEW e \in End, NEW i \in Ids, SocketReadable(e, i)
  PROVE  DataInv'
<1> DEFINE s == sock[e][i]
           f == Other(e)
           q == ch[f]
           data(r) == [n \in 1..r.got |-> <<i, sent[e][i] + n>>]
           enqueue(r) == r.got > 0 /\ s.peer # 0
           w(r) == Pkt("WRTE", i, s.peer, data(r))
           q1(r) == IF enqueue(r) THEN send_packet(q, w(r)) ELSE q
           s1(r) == [s EXCEPT !.rd = ~enqueue(r)]
           x(r) == IF r.is_eof THEN local_socket_close_locked(s1(r), FALSE)
                               ELSE s1(r)
<1>0. /\ TypeOK /\ TypeOK' /\ MatchInv /\ f \in End /\ Other(f) = e
      /\ q \in Seq(Packet) /\ s \in Asocket /\ s.peer \in 0..MaxId
      /\ sent[e][i] \in 0..MaxUnits /\ i \in 0..MaxId
  <2>1. TypeOK /\ TypeOK' /\ MatchInv
    BY DEF DataInv, PairInv, WindowInv
  <2>2. f \in End /\ Other(f) = e /\ i \in 0..MaxId
    BY OtherType, ZeroId
  <2>3. q \in Seq(Packet) /\ s \in Asocket /\ sent[e][i] \in 0..MaxUnits
    BY <2>1, <2>2 DEF TypeOK
  <2>4. s.peer \in 0..MaxId
    BY <2>3 DEF Asocket
  <2> QED BY <2>1, <2>2, <2>3, <2>4
<1>1. PICK r \in ReadLoop(MaxPayload) :
          /\ sent[e][i] + r.got <= MaxUnits
          /\ sent' = [sent EXCEPT ![e][i] = IF enqueue(r) THEN @ + r.got ELSE @]
          /\ sock' = [sock EXCEPT ![e][i] = x(r)]
          /\ ch' = [ch EXCEPT ![Other(e)] =
                       IF r.is_eof THEN remote_socket_shutdown(q1(r), i, s)
                                   ELSE q1(r)]
  BY Zenon DEF SocketReadable
<1>2. s.st = "open" /\ s.rd /\ out' = out
  BY DEF SocketReadable
<1>3. r.got \in 0..MaxPayload /\ r.got \in Nat
  BY <1>1, BoundsAssumption DEF ReadLoop
<1>4. Shape(e)
  BY <1>0, ReadableShape
<1>5. /\ w(r) \in Packet /\ w(r).cmd = "WRTE" /\ w(r).arg0 = i
      /\ w(r).arg1 = s.peer /\ w(r).data = data(r)
  <2>1. data(r) \in Payload
    <3>1. \A n \in 1..r.got : <<i, sent[e][i] + n>> \in Unit
      BY <1>0, <1>1, <1>3, BoundsAssumption DEF Unit
    <3>2. data(r) \in Seq(Unit) /\ Len(data(r)) = r.got
      BY <1>3, <3>1
    <3> QED BY <1>3, <3>2 DEF Payload
  <2> QED BY <1>0, <2>1, PktType DEF Command, Pkt
<1> HIDE DEF w
<1>6. s1(r) \in Asocket /\ s1(r).pkts = s.pkts
  BY <1>0 DEF Asocket
<1> HIDE DEF s1
<1>7. x(r).pkts = <<>> \/ x(r).pkts = s.pkts
  <2> DEFINE c == local_socket_close_locked(s1(r), FALSE)
  <2>1. c.pkts = <<>> \/ c.pkts = s.pkts
    BY <1>6, CloseFields
  <2> HIDE DEF c
  <2>2. x(r) = c \/ x(r) = s1(r)
    BY Zenon DEF c
  <2> HIDE DEF x
  <2> QED BY <1>6, <2>1, <2>2
<1>8. x(r).st = "open" => x(r).pkts = s.pkts
  <2> DEFINE c == local_socket_close_locked(s1(r), FALSE)
  <2>1. c.st # "open"
    BY <1>6, CloseFields
  <2> HIDE DEF c
  <2>2. x(r) = c \/ x(r) = s1(r)
    BY Zenon DEF c
  <2> HIDE DEF x
  <2> QED BY <1>6, <2>1, <2>2
<1> HIDE DEF x
<1>9. /\ sock'[e][i] = x(r) /\ sock'[f] = sock[f]
      /\ \A k \in Ids : k # i => sock'[e][k] = sock[e][k]
      /\ ch'[e] = ch[e]
      /\ ch'[f] = IF r.is_eof THEN remote_socket_shutdown(q1(r), i, s) ELSE q1(r)
  BY <1>0, <1>1, OtherType DEF TypeOK
<1>10. /\ sent'[f] = sent[f]
       /\ \A k \in Ids : k # i => sent'[e][k] = sent[e][k]
       /\ enqueue(r) => sent'[e][i] = sent[e][i] + r.got
       /\ ~enqueue(r) => sent'[e][i] = sent[e][i]
  BY <1>0, <1>1, OtherType DEF TypeOK
<1>11. \A a, b \in Ids : ~Accepted(e, a, b)
  BY <1>0, <1>9, NotAccepted
<1>12. \A k \in Ids : GotAfter(e, k) = Got(e, k) \/ (k = i /\ x(r).st # "open")
  BY <1>2, <1>8, <1>9 DEF Got, GotAfter
<1>13. Linked(e, i, s.peer) /\ (s.peer # 0 => s.peer \in Ids)
  <2>1. s.peer # 0 => s.peer \in Ids
    BY <1>0 DEF Ids
  <2> QED BY <2>1, Zenon DEF Linked, Together
<1>14. Frame(e)
  <2>1. ASSUME NEW k \in Ids, Blank(e, k), \A j \in Ids : ~Linked(e, k, j)
        PROVE  BlankAfter(e, k)
    <3>1. sent'[e][k] = sent[e][k]
      BY <1>10, <1>13, <2>1
    <3>2. sock'[e][k].pkts = <<>>
      BY <1>7, <1>9, <2>1 DEF Blank
    <3> QED BY <1>2, <2>1, <3>1, <3>2 DEF Blank, BlankAfter
  <2> QED BY <1>2, <1>10, <1>11, <2>1 DEF Frame
<1>15. \A a, b \in Ids : (up /\ LinkedAfter(e, a, b) /\ sock'[e][a].st = "open")
                            => FlowAfter(f, b, a)
  <2>1. \A a, b \in Ids : Passes(e, a, b)
    BY <1>9, <1>12 DEF Passes
  <2> QED BY <1>0, <1>4, <1>9, <1>14, <2>1, InFlow
<1>16. ch'[f] = q1(r) \/ \E c \in Packet : c.cmd # "WRTE" /\ ch'[f] = Append(q1(r), c)
  <2>1. Quietly(q1(r), remote_socket_shutdown(q1(r), i, s)) /\ Quietly(q1(r), q1(r))
    BY <1>0, QuietShutdown DEF Quietly
  <2>2. Quietly(q1(r), ch'[f])
    BY <1>9, <2>1, Zenon
  <2> QED BY <2>2 DEF Quietly
<1>17. q1(r) = IF enqueue(r) /\ up THEN Append(q, w(r)) ELSE q
  BY Zenon DEF send_packet
<1> HIDE DEF q1
<1>18. ASSUME NEW a \in Ids, NEW b \in Ids, up, LinkedAfter(e, a, b),
              sock'[f][b].st = "open"
       PROVE  FlowAfter(e, a, b)
  <2>1. CASE a = i /\ enqueue(r)
    <3>1. b = s.peer
      <4>1. Linked(e, a, b)
        BY <1>0, <1>4, <1>11, <1>18, LinkStep
      <4> QED BY <1>0, <1>13, <2>1, <4>1 DEF MatchInv
    <3>2. q1(r) = Append(q, w(r))
      BY <1>17, <1>18, <2>1
    <3>3. /\ sock[f][b].st = "open" /\ sent'[e][i] = sent[e][i] + r.got
          /\ \/ ch'[f] = Append(q, w(r))
             \/ \E c \in Packet : c.cmd # "WRTE" /\ ch'[f] = Append(Append(q, w(r)), c)
      BY <1>9, <1>10, <1>16, <1>18, <2>1, <3>2
    <3> QED BY <1>0, <1>2, <1>3, <1>4, <1>5, <1>9, <1>18, <2>1, <3>1, <3>3, SentFlow, ZenonT(60)
  <2>2. CASE a # i \/ ~enqueue(r)
    <3>1. sent'[e][a] = sent[e][a]
      BY <1>10, <2>2
    <3>2. \A n \in DOMAIN q1(r) : (n \in DOMAIN q /\ q1(r)[n] = q[n])
                                  \/ (enqueue(r) /\ q1(r)[n] = w(r))
      BY <1>0, <1>5, <1>17
    <3>3. \A n \in DOMAIN ch'[f] : (n \in DOMAIN q1(r) /\ ch'[f][n] = q1(r)[n])
                                   \/ ch'[f][n].cmd # "WRTE"
      <4>1. q1(r) \in Seq(Packet)
        BY <1>0, <1>5, <1>17
      <4>2. ASSUME NEW c \in Packet, c.cmd # "WRTE", ch'[f] = Append(q1(r), c)
            PROVE  <3>3!:
        BY <4>1, <4>2
      <4> QED BY <1>16, <4>2
    <3>4. Silent(e, a)
      BY <1>5, <2>2, <3>1, <3>2, <3>3 DEF Silent
    <3> QED BY <1>0, <1>4, <1>14, <1>18, <3>4, OutFlow
  <2> QED BY <2>1, <2>2
<1> QED BY <1>4, <1>14, <1>15, <1>18, FlowStep

\* When the link breaks the streams end: only the blank sockets matter.
LEMMA LinkDownData ==
  ASSUME DataInv, PairInv', LinkDown
  PROVE  DataInv'
<1>0. TypeOK /\ TypeOK' /\ BlankInv
  BY DEF DataInv, PairInv, WindowInv
<1>1. /\ ~up' /\ sock' = sock /\ next_id' = next_id /\ sent' = sent /\ out' = out
  BY DEF LinkDown
<1>2. \A e \in End, i \in Ids : Asked(ch'[Other(e)], i) => Asked(ch[Other(e)], i)
  <2> TAKE e \in End, i \in Ids
  <2> HAVE Asked(ch'[Other(e)], i)
  <2>1. PICK n \in DOMAIN ch'[Other(e)] : /\ ch'[Other(e)][n].cmd = "OPEN"
                                          /\ ch'[Other(e)][n].arg0 = i
    BY DEF Asked
  <2>2. n \in DOMAIN ch[Other(e)] /\ ch'[Other(e)][n] = ch[Other(e)][n]
    <3>1. Other(e) \in End
      BY OtherType
    <3> QED BY <1>0, <2>1, <3>1, LinkDownPlaces
  <2> QED BY <2>1, <2>2 DEF Asked
<1>3. BlankInv'
  BY <1>0, <1>1, <1>2 DEF BlankInv, Blank
<1>4. FlowInv'
  BY <1>1 DEF FlowInv
<1> QED BY <1>3, <1>4 DEF DataInv

-----------------------------------------------------------------------------
(* The theorem. *)

LEMMA InitData == Init => DataInv
<1> SUFFICES ASSUME Init PROVE DataInv
  OBVIOUS
<1>1. \A e \in End : /\ ch[e] = <<>>
                     /\ \A i \in Ids : /\ sock[e][i].st = "none"
                                       /\ sock[e][i].pkts = <<>>
                                       /\ out[e][i] = <<>> /\ sent[e][i] = 0
  BY DEF Init, NoSocket, Idle
<1>2. BlankInv
  BY <1>1 DEF BlankInv, Blank
<1>3. FlowInv
  BY <1>1, OtherType DEF FlowInv
<1> QED BY <1>2, <1>3, InitPairs DEF DataInv

LEMMA NextData == DataInv /\ [Next]_vars => DataInv'
<1> SUFFICES ASSUME DataInv, [Next]_vars PROVE DataInv'
  OBVIOUS
<1>1. PairInv'
  BY NextPairs DEF DataInv
<1>2. CASE UNCHANGED vars
  <2>1. /\ sock' = sock /\ ch' = ch /\ next_id' = next_id /\ up' = up
        /\ sent' = sent /\ out' = out
    BY <1>2 DEF vars
  <2>2. BlankInv'
    BY <2>1 DEF DataInv, BlankInv, Blank, Asked
  <2>3. FlowInv'
    BY <2>1, Zenon DEF DataInv, FlowInv, FlowOK, Linked, Got
  <2> QED BY <1>1, <2>2, <2>3 DEF DataInv
<1>3. CASE LinkDown
  BY <1>1, <1>3, LinkDownData
<1>4. ASSUME NEW e \in End, HandlePacket(e) PROVE DataInv'
  BY <1>1, <1>4, OpenData, OkayData, ClseData, WrteData, SyncData DEF HandlePacket
<1>5. ASSUME NEW e \in End, NEW i \in Ids, SocketEvent(e, i) PROVE DataInv'
  BY <1>1, <1>5, ReadableData, DrainedData, BlockedData, StaleData DEF SocketEvent
<1>6. ASSUME NEW e \in End,
             ListenerConnect(e) \/ \E eof \in BOOLEAN : SmartConnect(e, eof)
      PROVE  DataInv'
  BY <1>1, <1>6, ConnectData
<1>7. ASSUME NEW e \in End, CloseAllSockets(e) PROVE DataInv'
  BY <1>1, <1>7, CloseAllData
<1> QED BY <1>2, <1>3, <1>4, <1>5, <1>6, <1>7 DEF Next

\* While the link works, what a connected socket wrote to its descriptor, what
\* it queued in local_socket_enqueue() and what is under way to it is what the
\* other end's local_socket_event_func() read, in that order: no data is lost,
\* repeated, reordered or delivered to another stream, for any number of
\* streams, any MAX_PAYLOAD, and descriptors that block, fail or end anywhere.
THEOREM IntactHolds == Spec => []StreamIntact
<1>1. DataInv => StreamIntact
  <2> SUFFICES ASSUME DataInv, NEW e \in End, NEW j \in Ids, up,
                      sock[e][j].st = "open", sock[e][j].peer # 0
               PROVE  LET s == sock[e][j]
                          read == Units(s.peer, sent[Other(e)][s.peer])
                          writes == Writes(ch[e], s.peer, j)
                      IN  /\ writes = {} => out[e][j] \o s.pkts = read
                          /\ \A n \in writes :
                                (out[e][j] \o s.pkts) \o ch[e][n].data = read
    BY Zenon DEF StreamIntact
  <2> DEFINE i == sock[e][j].peer
             f == Other(e)
  <2>1. i \in Ids /\ f \in End /\ Other(f) = e
    <3>1. sock[e][j] \in Asocket /\ f \in End /\ Other(f) = e
      BY OtherType DEF DataInv, PairInv, WindowInv, TypeOK
    <3> QED BY <3>1 DEF Asocket, Ids
  <2>2. Linked(f, i, j)
    BY <2>1, Zenon DEF Linked, Together
  <2>3. FlowOK(f, i, j)
    BY <2>1, <2>2 DEF DataInv, FlowInv
  <2> QED BY <2>1, <2>3, Zenon DEF FlowOK, Rule, Got
<1> QED BY <1>1, InitData, NextData, PTL DEF Spec
=============================================================================
