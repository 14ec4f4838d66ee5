---------------------------- MODULE AdbUsbProofs ----------------------------
(***************************************************************************)
(* The handles of usb_linux.c, AdbUsb, for every number of devices and     *)
(* handles and every length of data: handle_list, who may still use a      *)
(* handle that is freed, whom the poll thread kicks, and what a writer may *)
(* take for sent.                                                          *)
(*                                                                         *)
(* HandlesRight is not inductive alone.  The handle that register_device() *)
(* has just added must still be the last of the list when its transport is *)
(* registered, although usb_close() may shorten the list meanwhile; and    *)
(* whoever drops the last reference must find a handle that is open.       *)
(*                                                                         *)
(* Delivered needs to know how far the device is: never more than the      *)
(* transfer that the writer waits for, and just that one when the transfer *)
(* was completed or reaped as completed and the handle is not dead.        *)
(***************************************************************************)
EXTENDS AdbUsb, LinkedLists, TLAPS

Open == {h \in Handles : name[h] # "none"} \ closed

ListInv ==
    /\ Links(list, Open)
    /\ \A g, h \in Open : name[g] = name[h] => g = h

\* usb_lock keeps the list as the poll thread found it.
WalkInv ==
    /\ IsInjective(walk) /\ ToSet(walk) \subseteq Open
    /\ poll # "kick" => walk = <<>>

\* The handle whose transport is still to be registered.
RegisterInv ==
    poll = "register" => list # <<>> /\ transport[Last(list)] = "none"

\* A handle gets threads after its transport was registered, and is freed by
\* the last of them.
ThreadInvOf(h) ==
    /\ transport[h] # "none" => name[h] # "none"
    /\ transport[h] \in {"none", "pending"} => reader[h] = "none" /\ writer[h] = "none"
    /\ writer[h] # "none" => Writeable(h)
    /\ tLock = h => reader[h] = "done" /\ writer[h] = "done" /\ h \notin closed
    /\ h \in closed => /\ reader[h] = "done" /\ writer[h] = "done"
                       /\ transport[h] = "gone"
                       /\ urb_in[h] # "flying" /\ urb_out[h] # "flying"

\* A transfer is in flight only while the writer waits for it.
UrbInvOf(h) ==
    /\ writer[h] \in {"submit", "wait"} => left[h] # <<>>
    /\ urb_out[h] = "flying" => writer[h] = "wait" /\ out_busy[h] /\ h \notin dead

ThreadInv == \A h \in Handles : ThreadInvOf(h) /\ UrbInvOf(h)

\* The scan marks every handle whose device is there, if it can read the
\* directory.
MarkInv ==
    \A h \in Open : OnBus(h) /\ name[h] \notin missed =>
        IF poll = "kick" THEN h \in ToSet(walk) => h \in mark
                         ELSE name[h] \in toScan \/ h \in mark

UsbInv == TypeOK /\ ListInv /\ WalkInv /\ RegisterInv /\ ThreadInv /\ MarkInv

-----------------------------------------------------------------------------
(* The transfers of a packet have lengths, and there is one at least. *)

LEMMA TransfersType ==
  ASSUME NEW len \in Nat
  PROVE  Transfers(len) \in Seq(Nat) /\ (len > 0 => Transfers(len) # <<>>)
<1> DEFINE count == (len + 4095) \div 4096
           u == [i \in 1..count |-> IF i < count THEN 4096 ELSE len - 4096 * (count - 1)]
           z == IF ZeroMask # 0 /\ len % ZeroMask = 0 THEN <<0>> ELSE <<>>
<1>1. count \in Nat /\ (len > 0 => count > 0) /\ 4096 * count <= len + 4095
  OBVIOUS
<1> HIDE DEF count
<1>2. ASSUME NEW i \in 1..count
      PROVE  (IF i < count THEN 4096 ELSE len - 4096 * (count - 1)) \in Nat
  BY <1>1
<1>3. u \in Seq(Nat) /\ Len(u) = count
  BY <1>1, <1>2
<1>4. z \in Seq(Nat)
  OBVIOUS
<1> HIDE DEF u, z
<1>5. u \o z \in Seq(Nat) /\ Len(u \o z) = Len(u) + Len(z) /\ Len(z) \in Nat
  BY ONLY <1>3, <1>4
<1>6. len > 0 => u \o z # <<>>
  BY <1>1, <1>3, <1>5
<1>7. Transfers(len) = u \o z
  BY DEF Transfers, u, z, count
<1> QED BY <1>5, <1>6, <1>7

LEMMA RemoteWriteType ==
  ASSUME NEW len \in Nat
  PROVE  remote_write(len) \in Seq(Nat) /\ remote_write(len) # <<>>
<1> DEFINE u == Transfers(24)
           v == IF len = 0 THEN <<>> ELSE Transfers(len)
<1>1. u \in Seq(Nat) /\ u # <<>>
  <2>1. 24 \in Nat /\ 24 > 0
    OBVIOUS
  <2> QED BY <2>1, TransfersType
<1>2. v \in Seq(Nat)
  BY TransfersType
<1> HIDE DEF u, v
<1>3. Len(u) \in Nat /\ Len(u) > 0 /\ Len(v) \in Nat
  BY ONLY <1>1, <1>2
<1>4. u \o v \in Seq(Nat) /\ Len(u \o v) = Len(u) + Len(v)
  BY ONLY <1>1, <1>2
<1>5. u \o v # <<>>
  BY <1>3, <1>4
<1> QED BY <1>4, <1>5 DEF remote_write, u, v

-----------------------------------------------------------------------------
(* Parts of the invariant that a step leaves alone. *)

ReaderAt == {"none", "submit", "reap", "kick", "unref", "done"}
WriterAt == {"none", "idle", "submit", "wait", "kick", "unref", "done"}

\* Types of what belongs to the threads of a handle.
UrbTypes ==
    /\ urb_in \in [Handles -> Urb] /\ urb_out \in [Handles -> Urb]
    /\ out_busy \in [Handles -> BOOLEAN] /\ out_ok \in [Handles -> BOOLEAN]
    /\ reader \in [Handles -> ReaderAt] /\ writer \in [Handles -> WriterAt]
    /\ left \in [Handles -> Seq(Nat)] /\ past \in [Handles -> Seq(Nat)]
    /\ heard \in [Handles -> Seq(Nat)]

\* Types of the rest.
ListTypes ==
    /\ plugged \subseteq Devs /\ name \in [Handles -> Devs \cup {"none"}]
    /\ list \in Seq(Handles) /\ mark \subseteq Handles /\ dead \subseteq Handles
    /\ closed \subseteq Handles
    /\ transport \in [Handles -> {"none", "pending", "listed", "gone"}]
    /\ tLock \in Handles \cup {"none"} /\ poll \in {"scan", "register", "kick"}
    /\ toScan \subseteq Devs /\ missed \subseteq Devs /\ walk \in Seq(Handles)

LEMMA TypeParts == TypeOK <=> UrbTypes /\ ListTypes
  BY DEF TypeOK, UrbTypes, ListTypes, ReaderAt, WriterAt

\* The poll thread and the handles stand still, and no new device is there.
LEMMA ListsKept ==
  ASSUME UsbInv, UNCHANGED <<handles, mark, scan>>, plugged' \subseteq plugged
  PROVE  ListInv' /\ WalkInv' /\ MarkInv'
<1>1. /\ UNCHANGED <<name, list, closed, mark, poll, toScan, missed, walk>>
      /\ Open' = Open
  BY DEF handles, scan, Open
<1> QED BY <1>1 DEF UsbInv, ListInv, WalkInv, MarkInv, OnBus

\* What the threads of g see is unchanged.
Same(g) ==
    /\ name'[g] = name[g] /\ transport'[g] = transport[g]
    /\ reader'[g] = reader[g] /\ writer'[g] = writer[g]
    /\ urb_in'[g] = urb_in[g] /\ urb_out'[g] = urb_out[g]
    /\ out_busy'[g] = out_busy[g] /\ left'[g] = left[g]
    /\ g \in closed' <=> g \in closed
    /\ g \in dead' <=> g \in dead
    /\ tLock' = g => tLock = g

LEMMA SameKept ==
  ASSUME NEW g \in Handles, ThreadInv, Same(g)
  PROVE  ThreadInvOf(g)' /\ UrbInvOf(g)'
<1>1. ThreadInvOf(g) /\ UrbInvOf(g)
  BY DEF ThreadInv
<1> QED BY <1>1 DEF Same, ThreadInvOf, UrbInvOf, Writeable

\* A step of one handle's threads, of the kernel or of the main thread.
LEMMA ThreadStep ==
  ASSUME UsbInv, NEW h \in Handles,
         UNCHANGED <<plugged, handles, mark, scan>>,
         UrbTypes', dead' \subseteq Handles, tLock' \in Handles \cup {"none"},
         transport' \in [Handles -> {"none", "pending", "listed", "gone"}],
         \A g \in Handles : transport[g] = "none" => transport'[g] = "none",
         \A g \in Handles : g # h => Same(g),
         ThreadInvOf(h)', UrbInvOf(h)'
  PROVE  UsbInv'
<1>1. UNCHANGED <<name, list, closed, mark, poll, toScan, missed, walk, plugged>>
  BY DEF handles, scan
<1>2. ListTypes'
  BY <1>1, TypeParts DEF UsbInv, ListTypes
<1>3. TypeOK'
  BY <1>2 DEF TypeOK, UrbTypes, ListTypes, ReaderAt, WriterAt
<1>4. plugged' \subseteq plugged
  BY <1>1
<1>5. ListInv' /\ WalkInv' /\ MarkInv'
  BY <1>4, ListsKept
<1>6. RegisterInv'
  <2> SUFFICES ASSUME poll = "register"
               PROVE  list # <<>> /\ transport'[Last(list)] = "none"
    BY <1>1 DEF RegisterInv
  <2>1. list # <<>> /\ transport[Last(list)] = "none" /\ list \in Seq(Handles)
    BY DEF UsbInv, RegisterInv, TypeOK
  <2>2. Last(list) \in Handles
    BY <2>1 DEF Last
  <2> QED BY <2>1, <2>2
<1>7. ThreadInv'
  <2> SUFFICES ASSUME NEW g \in Handles PROVE ThreadInvOf(g)' /\ UrbInvOf(g)'
    BY DEF ThreadInv
  <2>1. ThreadInv
    BY DEF UsbInv
  <2> QED BY <2>1, SameKept
<1> QED BY <1>3, <1>5, <1>6, <1>7 DEF UsbInv

\* One that also leaves the lists of transports and the locks alone.
UrbSame(g) ==
    /\ reader'[g] = reader[g] /\ writer'[g] = writer[g]
    /\ urb_in'[g] = urb_in[g] /\ urb_out'[g] = urb_out[g]
    /\ out_busy'[g] = out_busy[g] /\ left'[g] = left[g]

\* What ThreadInvOf(h) says of the threads' own steps.
MayMove(h) ==
    /\ transport[h] \in {"none", "pending"} => reader'[h] = "none" /\ writer'[h] = "none"
    /\ writer'[h] # "none" => writer[h] # "none"
    /\ tLock = h \/ h \in closed => reader'[h] = "done" /\ writer'[h] = "done"
    /\ h \in closed => urb_in'[h] # "flying" /\ urb_out'[h] # "flying"

LEMMA UrbStep ==
  ASSUME UsbInv, NEW h \in Handles,
         UNCHANGED <<plugged, handles, mark, dead, transport, tLock, scan>>,
         UrbTypes', \A g \in Handles : g # h => UrbSame(g), MayMove(h), UrbInvOf(h)'
  PROVE  UsbInv'
<1>1. /\ UNCHANGED <<plugged, handles, mark, scan>>
      /\ UNCHANGED <<name, closed, dead, transport, tLock>>
  BY DEF handles
<1>2. /\ dead' \subseteq Handles /\ tLock' \in Handles \cup {"none"}
      /\ transport' \in [Handles -> {"none", "pending", "listed", "gone"}]
  BY <1>1, TypeParts DEF UsbInv, ListTypes
<1>3. \A g \in Handles : transport[g] = "none" => transport'[g] = "none"
  BY <1>1
<1>4. \A g \in Handles : g # h => Same(g)
  BY <1>1 DEF Same, UrbSame
<1>5. ThreadInvOf(h)'
  <2>1. ThreadInvOf(h)
    BY DEF UsbInv, ThreadInv
  <2> QED BY <1>1, <2>1 DEF ThreadInvOf, MayMove, Writeable
<1> QED BY <1>1, <1>2, <1>3, <1>4, <1>5, ThreadStep

\* What the lemmas below start from.
LEMMA Threads ==
  ASSUME UsbInv, NEW h \in Handles
  PROVE  ThreadInvOf(h) /\ UrbInvOf(h) /\ UrbTypes
BY TypeParts DEF UsbInv, ThreadInv

-----------------------------------------------------------------------------
(* The kernel. *)

LEMMA CompleteInStep ==
  ASSUME UsbInv, NEW h \in Handles, CompleteIn(h)
  PROVE  UsbInv'
<1>1. /\ UNCHANGED <<plugged, handles, mark, dead, transport, tLock, scan>>
      /\ UNCHANGED <<urb_out, out_busy, out_ok, reader, writer, left, past, heard>>
  BY DEF CompleteIn, data
<1>2. \E w \in {"complete", "failed"} : urb_in' = [urb_in EXCEPT ![h] = w]
  BY DEF CompleteIn
<1>3. ThreadInvOf(h) /\ UrbInvOf(h) /\ UrbTypes
  BY Threads
<1>4. UrbTypes'
  BY <1>1, <1>2, <1>3 DEF UrbTypes, Urb
<1>5. \A g \in Handles : g # h => UrbSame(g)
  BY <1>1, <1>2, <1>3 DEF UrbTypes, UrbSame
<1>6. MayMove(h)
  BY <1>1, <1>2, <1>3 DEF UrbTypes, ThreadInvOf, MayMove
<1>7. UrbInvOf(h)'
  BY <1>1, <1>3 DEF UrbInvOf
<1> QED BY <1>1, <1>4, <1>5, <1>6, <1>7, UrbStep

LEMMA CompleteOutStep ==
  ASSUME UsbInv, NEW h \in Handles, CompleteOut(h)
  PROVE  UsbInv'
<1>1. /\ UNCHANGED <<plugged, handles, mark, dead, transport, tLock, scan>>
      /\ UNCHANGED <<urb_in, out_busy, out_ok, reader, writer, left, past>>
      /\ urb_out[h] = "flying" /\ urb_out' = [urb_out EXCEPT ![h] = "complete"]
      /\ heard' = [heard EXCEPT ![h] = Append(heard[h], Head(left[h]))]
  BY DEF CompleteOut
<1>2. ThreadInvOf(h) /\ UrbInvOf(h) /\ UrbTypes
  BY Threads
<1>3. Append(heard[h], Head(left[h])) \in Seq(Nat)
  <2>1. left[h] # <<>> /\ left[h] \in Seq(Nat) /\ heard[h] \in Seq(Nat)
    BY <1>1, <1>2 DEF UrbInvOf, UrbTypes
  <2>2. Head(left[h]) \in Nat
    BY <2>1
  <2> QED BY <2>1, <2>2
<1>4. heard' \in [Handles -> Seq(Nat)]
  <2> DEFINE x == Append(heard[h], Head(left[h]))
  <2>1. x \in Seq(Nat) /\ heard' = [heard EXCEPT ![h] = x]
    BY <1>1, <1>3
  <2> HIDE DEF x
  <2> QED BY <1>2, <2>1 DEF UrbTypes
<1>5. UrbTypes'
  BY <1>1, <1>2, <1>4 DEF UrbTypes, Urb
<1>6. \A g \in Handles : g # h => UrbSame(g)
  BY <1>1, <1>2 DEF UrbTypes, UrbSame
<1>7. MayMove(h)
  BY <1>1, <1>2 DEF UrbTypes, ThreadInvOf, MayMove
<1>8. UrbInvOf(h)'
  BY <1>1, <1>2 DEF UrbInvOf, UrbTypes
<1> QED BY <1>1, <1>5, <1>6, <1>7, <1>8, UrbStep

LEMMA FailOutStep ==
  ASSUME UsbInv, NEW h \in Handles, FailOut(h)
  PROVE  UsbInv'
<1>1. /\ UNCHANGED <<plugged, handles, mark, dead, transport, tLock, scan>>
      /\ UNCHANGED <<urb_in, out_busy, out_ok, reader, writer, left, past, heard>>
      /\ urb_out' = [urb_out EXCEPT ![h] = "failed"]
  BY DEF FailOut, data
<1>2. ThreadInvOf(h) /\ UrbInvOf(h) /\ UrbTypes
  BY Threads
<1>3. UrbTypes'
  BY <1>1, <1>2 DEF UrbTypes, Urb
<1>4. \A g \in Handles : g # h => UrbSame(g)
  BY <1>1, <1>2 DEF UrbTypes, UrbSame
<1>5. MayMove(h)
  BY <1>1, <1>2 DEF UrbTypes, ThreadInvOf, MayMove
<1>6. UrbInvOf(h)'
  BY <1>1, <1>2 DEF UrbInvOf, UrbTypes
<1> QED BY <1>1, <1>3, <1>4, <1>5, <1>6, UrbStep

-----------------------------------------------------------------------------
(* The reader. *)

LEMMA ReadSubmitStep ==
  ASSUME UsbInv, NEW h \in Handles, ReadSubmit(h)
  PROVE  UsbInv'
<1>1. /\ UNCHANGED <<plugged, handles, mark, dead, transport, tLock, scan>>
      /\ UNCHANGED <<urb_out, out_busy, out_ok, writer, left, past, heard>>
      /\ reader[h] = "submit"
  BY DEF ReadSubmit, data
<1>2. /\ \E w \in {"reap", "kick"} : reader' = [reader EXCEPT ![h] = w]
      /\ urb_in' = urb_in \/ urb_in' = [urb_in EXCEPT ![h] = "flying"]
  BY DEF ReadSubmit
<1>3. ThreadInvOf(h) /\ UrbInvOf(h) /\ UrbTypes
  BY Threads
<1>4. UrbTypes'
  BY <1>1, <1>2, <1>3 DEF UrbTypes, Urb, ReaderAt
<1>5. \A g \in Handles : g # h => UrbSame(g)
  BY <1>1, <1>2, <1>3 DEF UrbTypes, UrbSame
<1>6. MayMove(h)
  BY <1>1, <1>2, <1>3 DEF UrbTypes, ThreadInvOf, MayMove
<1>7. UrbInvOf(h)'
  BY <1>1, <1>3 DEF UrbInvOf
<1> QED BY <1>1, <1>4, <1>5, <1>6, <1>7, UrbStep

LEMMA ReapInStep ==
  ASSUME UsbInv, NEW h \in Handles, ReapIn(h)
  PROVE  UsbInv'
<1>1. /\ UNCHANGED <<plugged, handles, mark, dead, transport, tLock, scan>>
      /\ UNCHANGED <<urb_out, out_busy, out_ok, writer, left, past, heard>>
      /\ reader[h] = "reap" /\ urb_in' = [urb_in EXCEPT ![h] = "idle"]
  BY DEF ReapIn, data
<1>2. \E w \in {"submit", "kick"} : reader' = [reader EXCEPT ![h] = w]
  BY DEF ReapIn
<1>3. ThreadInvOf(h) /\ UrbInvOf(h) /\ UrbTypes
  BY Threads
<1>4. UrbTypes'
  BY <1>1, <1>2, <1>3 DEF UrbTypes, Urb, ReaderAt
<1>5. \A g \in Handles : g # h => UrbSame(g)
  BY <1>1, <1>2, <1>3 DEF UrbTypes, UrbSame
<1>6. MayMove(h)
  BY <1>1, <1>2, <1>3 DEF UrbTypes, ThreadInvOf, MayMove
<1>7. UrbInvOf(h)'
  BY <1>1, <1>3 DEF UrbInvOf
<1> QED BY <1>1, <1>4, <1>5, <1>6, <1>7, UrbStep

LEMMA ReapOutStep ==
  ASSUME UsbInv, NEW h \in Handles, ReapOut(h)
  PROVE  UsbInv'
<1>1. /\ UNCHANGED <<plugged, handles, mark, dead, transport, tLock, scan>>
      /\ UNCHANGED <<urb_in, writer, left, past, heard>>
      /\ reader[h] = "reap" /\ urb_out' = [urb_out EXCEPT ![h] = "idle"]
  BY DEF ReapOut, data
<1>2. \/ /\ reader' = [reader EXCEPT ![h] = "kick"]
         /\ out_busy' = out_busy /\ out_ok' = out_ok
      \/ /\ reader' = reader
         /\ out_busy' = [out_busy EXCEPT ![h] = FALSE]
         /\ out_ok' = [out_ok EXCEPT ![h] = urb_out[h] = "complete"]
  BY DEF ReapOut
<1>3. ThreadInvOf(h) /\ UrbInvOf(h) /\ UrbTypes
  BY Threads
<1>4. UrbTypes'
  <2>1. urb_out' \in [Handles -> Urb] /\ reader' \in [Handles -> ReaderAt]
    BY <1>1, <1>2, <1>3 DEF UrbTypes, Urb, ReaderAt
  <2>2. out_busy' \in [Handles -> BOOLEAN] /\ out_ok' \in [Handles -> BOOLEAN]
    BY <1>2, <1>3 DEF UrbTypes
  <2> QED BY <1>1, <1>3, <2>1, <2>2 DEF UrbTypes
<1>5. \A g \in Handles : g # h => UrbSame(g)
  BY <1>1, <1>2, <1>3 DEF UrbTypes, UrbSame
<1>6. MayMove(h)
  BY <1>1, <1>2, <1>3 DEF UrbTypes, ThreadInvOf, MayMove
<1>7. UrbInvOf(h)'
  BY <1>1, <1>3 DEF UrbInvOf, UrbTypes
<1> QED BY <1>1, <1>4, <1>5, <1>6, <1>7, UrbStep

LEMMA ReapErrorStep ==
  ASSUME UsbInv, NEW h \in Handles, ReapError(h)
  PROVE  UsbInv'
<1>1. /\ UNCHANGED <<plugged, handles, mark, dead, transport, tLock, scan>>
      /\ UNCHANGED <<urb_in, urb_out, out_busy, out_ok, writer, left, past, heard>>
      /\ reader[h] = "reap" /\ reader' = [reader EXCEPT ![h] = "kick"]
  BY DEF ReapError, urbs, data
<1>2. ThreadInvOf(h) /\ UrbInvOf(h) /\ UrbTypes
  BY Threads
<1>3. UrbTypes'
  BY <1>1, <1>2 DEF UrbTypes, ReaderAt
<1>4. \A g \in Handles : g # h => UrbSame(g)
  BY <1>1, <1>2 DEF UrbTypes, UrbSame
<1>5. MayMove(h)
  BY <1>1, <1>2 DEF UrbTypes, ThreadInvOf, MayMove
<1>6. UrbInvOf(h)'
  BY <1>1, <1>2 DEF UrbInvOf
<1> QED BY <1>1, <1>3, <1>4, <1>5, <1>6, UrbStep

-----------------------------------------------------------------------------
(* The writer. *)

LEMMA WriteBeginStep ==
  ASSUME UsbInv, NEW h \in Handles, NEW len \in Lens, WriteBegin(h, len)
  PROVE  UsbInv'
<1> DEFINE x == remote_write(len)
<1>1. /\ UNCHANGED <<plugged, handles, mark, dead, transport, tLock, scan>>
      /\ UNCHANGED <<urb_in, urb_out, out_busy, out_ok, reader>>
      /\ writer[h] = "idle" /\ writer' = [writer EXCEPT ![h] = "submit"]
      /\ left' = [left EXCEPT ![h] = x]
      /\ past' = [past EXCEPT ![h] = <<>>]
      /\ heard' = [heard EXCEPT ![h] = <<>>]
  BY DEF WriteBegin, urbs
<1>2. x \in Seq(Nat) /\ x # <<>>
  <2>1. len \in Nat
    BY DevicesAssumption
  <2> QED BY <2>1, RemoteWriteType
<1> HIDE DEF x
<1>3. ThreadInvOf(h) /\ UrbInvOf(h) /\ UrbTypes
  BY Threads
<1>4. UrbTypes'
  <2>1. writer' \in [Handles -> WriterAt]
    BY <1>1, <1>3 DEF UrbTypes, WriterAt
  <2>2. left' \in [Handles -> Seq(Nat)]
    BY <1>1, <1>2, <1>3 DEF UrbTypes
  <2>3. past' \in [Handles -> Seq(Nat)] /\ heard' \in [Handles -> Seq(Nat)]
    BY <1>1, <1>3 DEF UrbTypes
  <2> QED BY <1>1, <1>3, <2>1, <2>2, <2>3 DEF UrbTypes
<1>5. \A g \in Handles : g # h => UrbSame(g)
  BY <1>1, <1>3 DEF UrbTypes, UrbSame
<1>6. MayMove(h)
  BY <1>1, <1>3 DEF UrbTypes, ThreadInvOf, MayMove
<1>7. UrbInvOf(h)'
  BY <1>1, <1>2, <1>3 DEF UrbInvOf, UrbTypes
<1> QED BY <1>1, <1>4, <1>5, <1>6, <1>7, UrbStep

\* What GiveUp(h) and GoOn(h) do to the packet.
LEMMA PacketMoves ==
  ASSUME UsbInv, NEW h \in Handles, writer[h] \in {"submit", "wait"},
         GiveUp(h) \/ GoOn(h)
  PROVE  \E p \in {"idle", "submit"}, l \in Seq(Nat), q \in Seq(Nat) :
            /\ writer' = [writer EXCEPT ![h] = p]
            /\ left' = [left EXCEPT ![h] = l]
            /\ past' = [past EXCEPT ![h] = q]
            /\ p = "submit" => l # <<>>
<1>1. UrbInvOf(h) /\ UrbTypes
  BY Threads
<1>2. left[h] # <<>> /\ left[h] \in Seq(Nat) /\ past[h] \in Seq(Nat)
  BY <1>1 DEF UrbInvOf, UrbTypes
<1>3. CASE GiveUp(h)
  <2>1. past' = [past EXCEPT ![h] = past[h]]
    BY <1>1, <1>3 DEF GiveUp, UrbTypes
  <2>2. <<>> \in Seq(Nat)
    OBVIOUS
  <2> QED BY <1>2, <1>3, <2>1, <2>2 DEF GiveUp
<1>4. CASE GoOn(h)
  <2> DEFINE l == Tail(left[h])
             q == Append(past[h], Head(left[h]))
             p == IF Len(left[h]) = 1 THEN "idle" ELSE "submit"
  <2>1. writer' = [writer EXCEPT ![h] = p] /\ left' = [left EXCEPT ![h] = l]
        /\ past' = [past EXCEPT ![h] = q]
    BY <1>4 DEF GoOn
  <2>2. l \in Seq(Nat) /\ Head(left[h]) \in Nat /\ Len(left[h]) \in Nat
        /\ Len(l) = Len(left[h]) - 1 /\ Len(left[h]) > 0
    BY <1>2
  <2>3. q \in Seq(Nat)
    BY <1>2, <2>2
  <2>4. p = "submit" => l # <<>>
    <3>1. p = "submit" => Len(left[h]) # 1
      OBVIOUS
    <3>2. Len(left[h]) # 1 => Len(l) # 0
      BY ONLY <2>2
    <3>3. Len(<<>>) = 0
      OBVIOUS
    <3> HIDE DEF l, p
    <3> QED BY <3>1, <3>2, <3>3
  <2>5. p \in {"idle", "submit"}
    OBVIOUS
  <2> HIDE DEF l, q, p
  <2> QED BY <2>1, <2>2, <2>3, <2>4, <2>5
<1> QED BY <1>3, <1>4

\* A step that ends the transfer, or the packet.
LEMMA PacketStep ==
  ASSUME UsbInv, NEW h \in Handles, writer[h] \in {"submit", "wait"},
         GiveUp(h) \/ GoOn(h), urb_out[h] # "flying",
         UNCHANGED <<plugged, handles, mark, dead, transport, tLock, scan>>,
         UNCHANGED <<urb_in, urb_out, out_busy, out_ok, reader, heard>>
  PROVE  UsbInv'
<1>1. PICK p \in {"idle", "submit"}, l \in Seq(Nat), q \in Seq(Nat) :
            /\ writer' = [writer EXCEPT ![h] = p]
            /\ left' = [left EXCEPT ![h] = l]
            /\ past' = [past EXCEPT ![h] = q]
            /\ p = "submit" => l # <<>>
  BY PacketMoves
<1>2. ThreadInvOf(h) /\ UrbInvOf(h) /\ UrbTypes
  BY Threads
<1>3. UrbTypes'
  BY <1>1, <1>2 DEF UrbTypes, WriterAt
<1>4. \A g \in Handles : g # h => UrbSame(g)
  BY <1>1, <1>2 DEF UrbTypes, UrbSame
<1>5. MayMove(h)
  BY <1>1, <1>2 DEF UrbTypes, ThreadInvOf, MayMove
<1>6. UrbInvOf(h)'
  BY <1>1, <1>2 DEF UrbInvOf, UrbTypes
<1> QED BY <1>3, <1>4, <1>5, <1>6, UrbStep

LEMMA WriteSubmitStep ==
  ASSUME UsbInv, NEW h \in Handles, WriteSubmit(h)
  PROVE  UsbInv'
<1>1. /\ UNCHANGED <<plugged, handles, mark, dead, transport, tLock, scan>>
      /\ UNCHANGED <<urb_in, reader, heard>>
      /\ writer[h] = "submit"
  BY DEF WriteSubmit
<1>2. ThreadInvOf(h) /\ UrbInvOf(h) /\ UrbTypes
  BY Threads
<1>3. CASE GiveUp(h) /\ UNCHANGED <<urb_out, out_busy, out_ok>>
  <2>1. urb_out[h] # "flying"
    BY <1>1, <1>2 DEF UrbInvOf
  <2> QED BY <1>1, <1>3, <2>1, PacketStep
<1>4. CASE /\ h \notin dead
           /\ urb_out' = [urb_out EXCEPT ![h] = "flying"]
           /\ out_busy' = [out_busy EXCEPT ![h] = TRUE]
           /\ out_ok' = [out_ok EXCEPT ![h] = FALSE]
           /\ writer' = [writer EXCEPT ![h] = "wait"]
           /\ UNCHANGED <<left, past>>
  <2>1. UrbTypes'
    <3>1. urb_out' \in [Handles -> Urb] /\ writer' \in [Handles -> WriterAt]
      BY <1>2, <1>4 DEF UrbTypes, Urb, WriterAt
    <3>2. out_busy' \in [Handles -> BOOLEAN] /\ out_ok' \in [Handles -> BOOLEAN]
      BY <1>2, <1>4 DEF UrbTypes
    <3> QED BY <1>1, <1>2, <1>4, <3>1, <3>2 DEF UrbTypes
  <2>2. \A g \in Handles : g # h => UrbSame(g)
    BY <1>1, <1>2, <1>4 DEF UrbTypes, UrbSame
  <2>3. MayMove(h)
    BY <1>1, <1>2, <1>4 DEF UrbTypes, ThreadInvOf, MayMove
  <2>4. UrbInvOf(h)'
    BY <1>1, <1>2, <1>4 DEF UrbInvOf, UrbTypes
  <2> QED BY <1>1, <2>1, <2>2, <2>3, <2>4, UrbStep
<1> QED BY <1>3, <1>4 DEF WriteSubmit

LEMMA WriteWaitStep ==
  ASSUME UsbInv, NEW h \in Handles, WriteWait(h)
  PROVE  UsbInv'
<1>1. /\ UNCHANGED <<plugged, handles, mark, dead, transport, tLock, scan>>
      /\ UNCHANGED <<urb_in, urb_out, out_busy, out_ok, reader, heard>>
      /\ writer[h] = "wait"
  BY DEF WriteWait, urbs
<1>2. GiveUp(h) \/ GoOn(h)
  BY DEF WriteWait
<1>3. h \in dead \/ ~out_busy[h]
  BY DEF WriteWait
<1>4. urb_out[h] # "flying"
  BY <1>3, Threads DEF UrbInvOf
<1> QED BY <1>1, <1>2, <1>4, PacketStep

LEMMA WriteEndStep ==
  ASSUME UsbInv, NEW h \in Handles, WriteEnd(h)
  PROVE  UsbInv'
<1>1. /\ UNCHANGED <<plugged, handles, mark, dead, transport, tLock, scan>>
      /\ UNCHANGED <<urb_in, urb_out, out_busy, out_ok, reader, left, past, heard>>
      /\ writer[h] = "idle" /\ writer' = [writer EXCEPT ![h] = "kick"]
  BY DEF WriteEnd, urbs, data
<1>2. ThreadInvOf(h) /\ UrbInvOf(h) /\ UrbTypes
  BY Threads
<1>3. UrbTypes'
  BY <1>1, <1>2 DEF UrbTypes, WriterAt
<1>4. \A g \in Handles : g # h => UrbSame(g)
  BY <1>1, <1>2 DEF UrbTypes, UrbSame
<1>5. MayMove(h)
  BY <1>1, <1>2 DEF UrbTypes, ThreadInvOf, MayMove
<1>6. UrbInvOf(h)'
  BY <1>1, <1>2 DEF UrbInvOf, UrbTypes
<1> QED BY <1>1, <1>3, <1>4, <1>5, <1>6, UrbStep

-----------------------------------------------------------------------------
(* The end of the threads, and their start. *)

\* What usb_kick() of a writeable handle may change.
KickedOnly(h) ==
    /\ dead' \subseteq Handles
    /\ \A g \in Handles : g # h => (g \in dead' <=> g \in dead)
    /\ urb_in' \in [Handles -> Urb] /\ urb_out' \in [Handles -> Urb]
    /\ out_busy' \in [Handles -> BOOLEAN] /\ out_ok' \in [Handles -> BOOLEAN]
    /\ \A g \in Handles : g # h => /\ urb_in'[g] = urb_in[g]
                                   /\ urb_out'[g] = urb_out[g]
                                   /\ out_busy'[g] = out_busy[g]
    /\ urb_in'[h] = "flying" => urb_in[h] = "flying"
    /\ urb_out'[h] = "flying" => urb_out[h] = "flying" /\ UNCHANGED <<dead, out_busy>>

LEMMA KickUrbs ==
  ASSUME UsbInv, NEW h \in Handles, KickWriteable(h)
  PROVE  KickedOnly(h)
<1>1. UrbTypes /\ dead \subseteq Handles
  BY Threads DEF UsbInv, TypeOK
<1>2. CASE UNCHANGED <<dead, urb_in, urb_out, out_busy, out_ok>>
  BY <1>1, <1>2 DEF UrbTypes, KickedOnly
<1>3. CASE /\ dead' = dead \cup {h}
           /\ urb_in' = [urb_in EXCEPT ![h] = Discard(urb_in[h])]
           /\ urb_out' = [urb_out EXCEPT ![h] = Discard(urb_out[h])]
           /\ out_busy' = [out_busy EXCEPT ![h] = FALSE]
           /\ out_ok' = [out_ok EXCEPT ![h] = FALSE]
  <2>1. \A u \in Urb : Discard(u) \in Urb /\ Discard(u) # "flying"
    BY DEF Discard, Urb
  <2>2. urb_in[h] \in Urb /\ urb_out[h] \in Urb
    BY <1>1 DEF UrbTypes
  <2> DEFINE a == Discard(urb_in[h])
             b == Discard(urb_out[h])
  <2>3. /\ a \in Urb /\ a # "flying" /\ b \in Urb /\ b # "flying"
        /\ urb_in' = [urb_in EXCEPT ![h] = a] /\ urb_out' = [urb_out EXCEPT ![h] = b]
    BY <1>3, <2>1, <2>2
  <2> HIDE DEF a, b
  <2>4. urb_in' \in [Handles -> Urb] /\ urb_out' \in [Handles -> Urb]
    BY <1>1, <2>3 DEF UrbTypes
  <2>5. out_busy' \in [Handles -> BOOLEAN] /\ out_ok' \in [Handles -> BOOLEAN]
    BY <1>1, <1>3 DEF UrbTypes
  <2>6. urb_in'[h] = a /\ urb_out'[h] = b
    BY <1>1, <2>3 DEF UrbTypes
  <2>7. \A g \in Handles : g # h => /\ urb_in'[g] = urb_in[g]
                                    /\ urb_out'[g] = urb_out[g]
                                    /\ out_busy'[g] = out_busy[g]
    BY <1>1, <1>3, <2>3 DEF UrbTypes
  <2>8. dead' \subseteq Handles /\ \A g \in Handles : g # h => (g \in dead' <=> g \in dead)
    BY <1>1, <1>3
  <2> QED BY <2>3, <2>4, <2>5, <2>6, <2>7, <2>8 DEF KickedOnly
<1> QED BY <1>2, <1>3 DEF KickWriteable, urbs

LEMMA ReaderKickStep ==
  ASSUME UsbInv, NEW h \in Handles, ReaderKick(h)
  PROVE  UsbInv'
<1>1. /\ UNCHANGED <<plugged, handles, mark, scan>>
      /\ UNCHANGED <<name, closed, writer, left, past, heard, transport, tLock>>
      /\ reader[h] = "kick" /\ reader' = [reader EXCEPT ![h] = "unref"]
  BY DEF ReaderKick, data, handles
<1>2. ThreadInvOf(h) /\ UrbInvOf(h) /\ UrbTypes
  BY Threads
<1>3. KickedOnly(h)
  BY KickUrbs DEF ReaderKick
<1>4. UrbTypes'
  <2>1. reader' \in [Handles -> ReaderAt]
    BY <1>1, <1>2 DEF UrbTypes, ReaderAt
  <2> QED BY <1>1, <1>2, <1>3, <2>1 DEF UrbTypes, KickedOnly
<1>5. \A g \in Handles : g # h => Same(g)
  BY <1>1, <1>2, <1>3 DEF UrbTypes, Same, KickedOnly
<1>6. ThreadInvOf(h)'
  BY <1>1, <1>2, <1>3 DEF UrbTypes, ThreadInvOf, Writeable, KickedOnly
<1>7. UrbInvOf(h)'
  BY <1>1, <1>2, <1>3 DEF UrbInvOf, UrbTypes, KickedOnly
<1>8. /\ dead' \subseteq Handles /\ tLock' \in Handles \cup {"none"}
      /\ transport' \in [Handles -> {"none", "pending", "listed", "gone"}]
      /\ \A g \in Handles : transport[g] = "none" => transport'[g] = "none"
  BY <1>1, <1>3 DEF UsbInv, TypeOK, KickedOnly
<1> QED BY <1>1, <1>4, <1>5, <1>6, <1>7, <1>8, ThreadStep

LEMMA WriterKickStep ==
  ASSUME UsbInv, NEW h \in Handles, WriterKick(h)
  PROVE  UsbInv'
<1>1. /\ UNCHANGED <<plugged, handles, mark, scan>>
      /\ UNCHANGED <<name, closed, reader, left, past, heard, transport, tLock>>
      /\ writer[h] = "kick" /\ writer' = [writer EXCEPT ![h] = "unref"]
  BY DEF WriterKick, data, handles
<1>2. ThreadInvOf(h) /\ UrbInvOf(h) /\ UrbTypes
  BY Threads
<1>3. KickedOnly(h)
  BY KickUrbs DEF WriterKick
<1>4. UrbTypes'
  <2>1. writer' \in [Handles -> WriterAt]
    BY <1>1, <1>2 DEF UrbTypes, WriterAt
  <2> QED BY <1>1, <1>2, <1>3, <2>1 DEF UrbTypes, KickedOnly
<1>5. \A g \in Handles : g # h => Same(g)
  BY <1>1, <1>2, <1>3 DEF UrbTypes, Same, KickedOnly
<1>6. ThreadInvOf(h)'
  BY <1>1, <1>2, <1>3 DEF UrbTypes, ThreadInvOf, Writeable, KickedOnly
<1>7. UrbInvOf(h)'
  BY <1>1, <1>2, <1>3 DEF UrbInvOf, UrbTypes, KickedOnly
<1>8. /\ dead' \subseteq Handles /\ tLock' \in Handles \cup {"none"}
      /\ transport' \in [Handles -> {"none", "pending", "listed", "gone"}]
      /\ \A g \in Handles : transport[g] = "none" => transport'[g] = "none"
  BY <1>1, <1>3 DEF UsbInv, TypeOK, KickedOnly
<1> QED BY <1>1, <1>4, <1>5, <1>6, <1>7, <1>8, ThreadStep

LEMMA ReaderUnrefStep ==
  ASSUME UsbInv, NEW h \in Handles, ReaderUnref(h)
  PROVE  UsbInv'
<1>1. /\ UNCHANGED <<plugged, handles, mark, scan>>
      /\ UNCHANGED <<name, closed, dead, urb_in, urb_out, out_busy, out_ok>>
      /\ UNCHANGED <<writer, left, past, heard, transport>>
      /\ reader[h] = "unref" /\ reader' = [reader EXCEPT ![h] = "done"]
      /\ tLock = "none" /\ tLock' \in {h, "none"}
      /\ tLock' = h => writer[h] = "done"
  <2>1. tLock = "none" /\ tLock' = IF writer[h] = "done" THEN h ELSE tLock
    BY DEF ReaderUnref
  <2>2. h # "none"
    BY DevicesAssumption
  <2> QED BY <2>1, <2>2 DEF ReaderUnref, data, handles, urbs
<1>2. ThreadInvOf(h) /\ UrbInvOf(h) /\ UrbTypes
  BY Threads
<1>3. UrbTypes'
  BY <1>1, <1>2 DEF UrbTypes, ReaderAt
<1>4. \A g \in Handles : g # h => Same(g)
  <2>1. \A g \in Handles : g # h => tLock' # g
    BY <1>1, DevicesAssumption
  <2> QED BY <1>1, <1>2, <2>1 DEF UrbTypes, Same
<1>5. ThreadInvOf(h)'
  BY <1>1, <1>2 DEF UrbTypes, ThreadInvOf, Writeable
<1>6. UrbInvOf(h)'
  BY <1>1, <1>2 DEF UrbInvOf, UrbTypes
<1>7. /\ dead' \subseteq Handles /\ tLock' \in Handles \cup {"none"}
      /\ transport' \in [Handles -> {"none", "pending", "listed", "gone"}]
      /\ \A g \in Handles : transport[g] = "none" => transport'[g] = "none"
  BY <1>1 DEF UsbInv, TypeOK
<1> QED BY <1>1, <1>3, <1>4, <1>5, <1>6, <1>7, ThreadStep

LEMMA WriterUnrefStep ==
  ASSUME UsbInv, NEW h \in Handles, WriterUnref(h)
  PROVE  UsbInv'
<1>1. /\ UNCHANGED <<plugged, handles, mark, scan>>
      /\ UNCHANGED <<name, closed, dead, urb_in, urb_out, out_busy, out_ok>>
      /\ UNCHANGED <<reader, left, past, heard, transport>>
      /\ writer[h] = "unref" /\ writer' = [writer EXCEPT ![h] = "done"]
      /\ tLock = "none" /\ tLock' \in {h, "none"}
      /\ tLock' = h => reader[h] = "done"
  <2>1. tLock = "none" /\ tLock' = IF reader[h] = "done" THEN h ELSE tLock
    BY DEF WriterUnref
  <2>2. h # "none"
    BY DevicesAssumption
  <2> QED BY <2>1, <2>2 DEF WriterUnref, data, handles, urbs
<1>2. ThreadInvOf(h) /\ UrbInvOf(h) /\ UrbTypes
  BY Threads
<1>3. UrbTypes'
  BY <1>1, <1>2 DEF UrbTypes, WriterAt
<1>4. \A g \in Handles : g # h => Same(g)
  <2>1. \A g \in Handles : g # h => tLock' # g
    BY <1>1, DevicesAssumption
  <2> QED BY <1>1, <1>2, <2>1 DEF UrbTypes, Same
<1>5. ThreadInvOf(h)'
  BY <1>1, <1>2 DEF UrbTypes, ThreadInvOf, Writeable
<1>6. UrbInvOf(h)'
  BY <1>1, <1>2 DEF UrbInvOf, UrbTypes
<1>7. /\ dead' \subseteq Handles /\ tLock' \in Handles \cup {"none"}
      /\ transport' \in [Handles -> {"none", "pending", "listed", "gone"}]
      /\ \A g \in Handles : transport[g] = "none" => transport'[g] = "none"
  BY <1>1 DEF UsbInv, TypeOK
<1> QED BY <1>1, <1>3, <1>4, <1>5, <1>6, <1>7, ThreadStep

LEMMA StartTransportStep ==
  ASSUME UsbInv, NEW h \in Handles, StartTransport(h)
  PROVE  UsbInv'
<1>1. /\ UNCHANGED <<plugged, handles, mark, scan>>
      /\ UNCHANGED <<name, closed, dead, urb_in, urb_out, out_busy, out_ok>>
      /\ UNCHANGED <<left, past, heard, tLock>>
      /\ transport[h] = "pending"
      /\ transport' = [transport EXCEPT ![h] = "listed"]
      /\ \/ reader' = reader /\ writer' = writer
         \/ /\ Writeable(h) /\ reader' = [reader EXCEPT ![h] = "submit"]
            /\ writer' = [writer EXCEPT ![h] = "idle"]
  BY DEF StartTransport, data, handles, urbs
<1>2. ThreadInvOf(h) /\ UrbInvOf(h) /\ UrbTypes
  BY Threads
<1>3. /\ dead' \subseteq Handles /\ tLock' \in Handles \cup {"none"}
      /\ transport' \in [Handles -> {"none", "pending", "listed", "gone"}]
      /\ \A g \in Handles : g # h => transport'[g] = transport[g]
      /\ transport'[h] = "listed"
  BY <1>1 DEF UsbInv, TypeOK
<1>4. UrbTypes'
  BY <1>1, <1>2 DEF UrbTypes, ReaderAt, WriterAt
<1>5. \A g \in Handles : g # h => Same(g)
  BY <1>1, <1>2, <1>3 DEF UrbTypes, Same
<1>6. ThreadInvOf(h)'
  <2>1. tLock # h /\ h \notin closed /\ reader[h] = "none" /\ writer[h] = "none"
    BY <1>1, <1>2 DEF ThreadInvOf
  <2> QED BY <1>1, <1>2, <1>3, <2>1 DEF UrbTypes, ThreadInvOf, Writeable
<1>7. UrbInvOf(h)'
  <2>1. writer[h] = "none"
    BY <1>1, <1>2 DEF ThreadInvOf
  <2> QED BY <1>1, <1>2, <2>1 DEF UrbInvOf, UrbTypes
<1>8. \A g \in Handles : transport[g] = "none" => transport'[g] = "none"
  BY <1>1, <1>3
<1> QED BY <1>1, <1>3, <1>4, <1>5, <1>6, <1>7, <1>8, ThreadStep

-----------------------------------------------------------------------------
(* usb_close(). *)

LEMMA CloseStep ==
  ASSUME UsbInv, NEW h \in Handles, usb_close(h)
  PROVE  UsbInv'
<1>1. /\ UNCHANGED <<plugged, name, dead, out_busy, out_ok, reader, writer>>
      /\ UNCHANGED <<poll, toScan, missed, walk>>
      /\ tLock = h /\ poll # "kick" /\ tLock' = "none"
      /\ transport' = [transport EXCEPT ![h] = "gone"]
      /\ list' = Without(list, h) /\ closed' = closed \cup {h} /\ mark' = mark \ {h}
      /\ urb_in' = [urb_in EXCEPT ![h] = "idle"]
      /\ urb_out' = [urb_out EXCEPT ![h] = "idle"]
      /\ left' = [left EXCEPT ![h] = <<>>]
      /\ past' = [past EXCEPT ![h] = <<>>]
      /\ heard' = [heard EXCEPT ![h] = <<>>]
  BY DEF usb_close, FreeHandle, scan, Without
<1>2. ThreadInvOf(h) /\ UrbInvOf(h) /\ UrbTypes /\ ListTypes
  BY Threads, TypeParts DEF UsbInv
<1>3. /\ reader[h] = "done" /\ writer[h] = "done" /\ h \notin closed
      /\ transport[h] # "none" /\ name[h] # "none"
  BY <1>1, <1>2 DEF ThreadInvOf
<1>4. h \in Open /\ Open' = Open \ {h}
  BY <1>1, <1>3 DEF Open
<1>5. Links(list, Open) /\ list \in Seq(Handles)
  BY <1>2 DEF UsbInv, ListInv, ListTypes
<1>6. list' \in Seq(Handles) /\ Links(list', Open')
  BY <1>1, <1>4, <1>5, WithoutLinks
<1>7. ListTypes' /\ UrbTypes'
  <2>1. transport' \in [Handles -> {"none", "pending", "listed", "gone"}]
    BY <1>1, <1>2 DEF ListTypes
  <2>2. ListTypes'
    BY <1>1, <1>2, <1>6, <2>1 DEF ListTypes
  <2>3. urb_in' \in [Handles -> Urb] /\ urb_out' \in [Handles -> Urb]
    BY <1>1, <1>2 DEF UrbTypes, Urb
  <2>4. left' \in [Handles -> Seq(Nat)] /\ past' \in [Handles -> Seq(Nat)]
        /\ heard' \in [Handles -> Seq(Nat)]
    BY <1>1, <1>2 DEF UrbTypes
  <2> QED BY <1>1, <1>2, <2>2, <2>3, <2>4 DEF UrbTypes
<1>8. TypeOK'
  BY <1>7 DEF TypeOK, UrbTypes, ListTypes, ReaderAt, WriterAt
<1>9. ListInv'
  BY <1>1, <1>4, <1>6 DEF UsbInv, ListInv
<1>10. WalkInv'
  <2>1. walk = <<>>
    BY <1>1 DEF UsbInv, WalkInv
  <2>2. IsInjective(<<>>) /\ ToSet(<<>>) = {}
    BY DEF IsInjective, ToSet
  <2> QED BY <1>1, <2>1, <2>2 DEF WalkInv
<1>11. RegisterInv'
  <2> SUFFICES ASSUME poll = "register"
               PROVE  list' # <<>> /\ transport'[Last(list')] = "none"
    BY <1>1 DEF RegisterInv
  <2>1. list # <<>> /\ transport[Last(list)] = "none"
    BY DEF UsbInv, RegisterInv
  <2>2. Last(list) # h
    BY <1>3, <2>1
  <2>3. list' # <<>> /\ Last(list') = Last(list)
    BY <1>1, <1>4, <1>5, <2>2, WithoutLast
  <2>4. Last(list) \in Handles
    BY <1>5, <2>1 DEF Last
  <2> QED BY <1>1, <1>2, <2>1, <2>2, <2>3, <2>4 DEF ListTypes
<1>12. ThreadInv'
  <2> SUFFICES ASSUME NEW g \in Handles PROVE ThreadInvOf(g)' /\ UrbInvOf(g)'
    BY DEF ThreadInv
  <2>1. h # "none" /\ g # "none"
    BY DevicesAssumption
  <2>2. CASE g # h
    <3>1. Same(g)
      BY <1>1, <1>2, <2>1, <2>2 DEF UrbTypes, ListTypes, Same
    <3> QED BY <3>1, SameKept DEF UsbInv
  <2>3. CASE g = h
    <3>1. ThreadInvOf(h)'
      BY <1>1, <1>2, <1>3, <2>1 DEF UrbTypes, ListTypes, ThreadInvOf, Writeable
    <3>2. UrbInvOf(h)'
      BY <1>1, <1>2, <1>3 DEF UrbTypes, UrbInvOf
    <3> QED BY <2>3, <3>1, <3>2
  <2> QED BY <2>2, <2>3
<1>13. MarkInv'
  <2> SUFFICES ASSUME NEW g \in Open, g # h, OnBus(g), name[g] \notin missed
               PROVE  name[g] \in toScan \/ g \in mark'
    BY <1>1, <1>4 DEF MarkInv, OnBus
  <2>1. name[g] \in toScan \/ g \in mark
    BY <1>1 DEF UsbInv, MarkInv
  <2> QED BY <1>1, <2>1
<1> QED BY <1>8, <1>9, <1>10, <1>11, <1>12, <1>13 DEF UsbInv

-----------------------------------------------------------------------------
(* The bus and the poll thread. *)

\* What a step that concerns no thread of a transport leaves as it was.
LEMMA ThreadsKept ==
  ASSUME UsbInv,
         UNCHANGED <<name, closed, dead, urbs, reader, writer, data, transport, tLock>>
  PROVE  ThreadInv' /\ UrbTypes'
<1>1. UNCHANGED <<name, closed, dead, urb_in, urb_out, out_busy, out_ok, reader,
                  writer, left, past, heard, transport, tLock>>
  BY DEF urbs, data
<1>2. UrbTypes'
  BY <1>1, TypeParts DEF UsbInv, UrbTypes
<1>3. ASSUME NEW g \in Handles PROVE Same(g)
  BY <1>1 DEF Same
<1>4. ThreadInv'
  <2> SUFFICES ASSUME NEW g \in Handles PROVE ThreadInvOf(g)' /\ UrbInvOf(g)'
    BY DEF ThreadInv
  <2> QED BY <1>3, SameKept DEF UsbInv
<1> QED BY <1>2, <1>4

LEMMA TypesJoin ==
  ASSUME UrbTypes', ListTypes' PROVE TypeOK'
BY DEF TypeOK, UrbTypes, ListTypes, ReaderAt, WriterAt

\* The open handles are the listed ones.
LEMMA OpenListed ==
  ASSUME UsbInv
  PROVE  /\ \A h \in Handles : h \in Open <=> \E i \in DOMAIN list : list[i] = h
         /\ \A d : \A h \in Open : name[h] = d => h \in Listed(d)
         /\ list # <<>> => Last(list) \in Open /\ Last(list) \in Handles
<1>1. ToSet(list) = Open /\ list \in Seq(Handles) /\ Open \subseteq Handles
  BY DEF UsbInv, ListInv, Links, TypeOK, Open
<1>2. \A h \in Handles : h \in Open <=> \E i \in DOMAIN list : list[i] = h
  BY <1>1 DEF ToSet
<1>3. \A d : \A h \in Open : name[h] = d => h \in Listed(d)
  BY <1>1, <1>2 DEF Listed
<1>4. ASSUME list # <<>> PROVE Last(list) \in Open
  <2>1. Len(list) \in DOMAIN list
    BY <1>1, <1>4
  <2>2. list[Len(list)] \in ToSet(list)
    BY <2>1 DEF ToSet
  <2> QED BY <1>1, <2>2 DEF Last
<1> QED BY <1>1, <1>2, <1>3, <1>4

LEMMA PlugStep ==
  ASSUME UsbInv, NEW d \in Devs, Plug(d)
  PROVE  UsbInv'
<1>1. /\ UNCHANGED <<name, list, closed, mark, dead, transport, tLock>>
      /\ UNCHANGED <<urbs, reader, writer, data>>
      /\ UNCHANGED <<poll, toScan, missed, walk>>
      /\ \A h \in Handles : name[h] = d => h \in closed
      /\ plugged' = plugged \cup {d}
  BY DEF Plug, handles, scan
<1>2. ThreadInv' /\ UrbTypes'
  BY <1>1, ThreadsKept
<1>3. ListTypes'
  BY <1>1, TypeParts DEF UsbInv, ListTypes
<1>4. ListInv' /\ WalkInv' /\ RegisterInv' /\ Open' = Open
  BY <1>1 DEF UsbInv, ListInv, WalkInv, RegisterInv, Open
<1>5. MarkInv'
  <2>1. \A h \in Open : OnBus(h)' => OnBus(h)
    BY <1>1 DEF OnBus, Open
  <2> QED BY <1>1, <1>4, <2>1 DEF UsbInv, MarkInv
<1> QED BY <1>2, <1>3, <1>4, <1>5, TypesJoin DEF UsbInv

LEMMA UnplugStep ==
  ASSUME UsbInv, NEW d \in Devs, Unplug(d)
  PROVE  UsbInv'
<1>1. /\ UNCHANGED <<name, list, closed, mark, dead, transport, tLock>>
      /\ UNCHANGED <<urbs, reader, writer, data>>
      /\ UNCHANGED <<poll, toScan, missed, walk>> /\ UNCHANGED <<handles, mark, scan>>
      /\ plugged' = plugged \ {d}
  BY DEF Unplug, handles, scan
<1>2. ThreadInv' /\ UrbTypes'
  BY <1>1, ThreadsKept
<1>3. ListTypes'
  BY <1>1, TypeParts DEF UsbInv, ListTypes
<1>4. ListInv' /\ WalkInv' /\ MarkInv'
  BY <1>1, ListsKept
<1>5. RegisterInv'
  BY <1>1 DEF UsbInv, RegisterInv
<1> QED BY <1>2, <1>3, <1>4, <1>5, TypesJoin DEF UsbInv

\* The scan has gone past d.
LEMMA ScanStep ==
  ASSUME UsbInv, NEW d \in Devs, known_device(d) \/ Skip(d) \/ OpendirFails(d)
  PROVE  UsbInv'
<1>1. /\ UNCHANGED <<plugged, name, list, closed, dead, transport, tLock>>
      /\ UNCHANGED <<urbs, reader, writer, data>> /\ UNCHANGED <<poll, walk>>
      /\ poll = "scan" /\ toScan' = toScan \ {d}
      /\ missed' = missed \/ (missed' = missed \cup {d} /\ OpendirFails(d))
  BY DEF known_device, Skip, OpendirFails, handles
<1>2. mark \subseteq mark' /\ mark' \subseteq Handles
  <2>1. mark \subseteq Handles /\ Listed(d) \subseteq Handles
    BY DEF UsbInv, TypeOK, Listed
  <2> QED BY <2>1 DEF known_device, Skip, OpendirFails
<1>3. ThreadInv' /\ UrbTypes'
  BY <1>1, ThreadsKept
<1>4. ListTypes'
  BY <1>1, <1>2, TypeParts DEF UsbInv, ListTypes
<1>5. ListInv' /\ WalkInv' /\ RegisterInv' /\ Open' = Open
  BY <1>1 DEF UsbInv, ListInv, WalkInv, RegisterInv, Open
<1>6. MarkInv'
  <2> SUFFICES ASSUME NEW h \in Open, OnBus(h), name[h] \notin missed'
               PROVE  name[h] \in toScan' \/ h \in mark'
    BY <1>1, <1>5 DEF MarkInv, OnBus
  <2>1. name[h] \in toScan \/ h \in mark
    BY <1>1 DEF UsbInv, MarkInv
  <2>2. CASE name[h] = d
    <3>1. h \in Listed(d) /\ d \in plugged
      BY <2>2, OpenListed DEF OnBus
    <3>2. known_device(d) \/ Skip(d)
      BY <1>1, <2>2 DEF OpendirFails
    <3> QED BY <3>1, <3>2 DEF known_device, Skip
  <2> QED BY <1>1, <1>2, <2>1, <2>2
<1> QED BY <1>3, <1>4, <1>5, <1>6, TypesJoin DEF UsbInv

LEMMA RegisterStep ==
  ASSUME UsbInv, NEW d \in Devs, NEW h \in Handles, register_device(d, h)
  PROVE  UsbInv'
<1>1. /\ UNCHANGED <<plugged, dead, closed, urb_in, urb_out, out_busy, out_ok>>
      /\ UNCHANGED <<reader, writer, left, past, heard, transport, tLock, walk>>
      /\ poll = "scan" /\ poll' = "register" /\ Listed(d) = {} /\ name[h] = "none"
      /\ toScan' = toScan \ {d} /\ missed' = missed
      /\ name' = [name EXCEPT ![h] = d] /\ list' = Append(list, h)
      /\ mark' = mark \cup {h}
  BY DEF register_device, AddHandle, IsNew, urbs, data
<1>2. ThreadInvOf(h) /\ UrbInvOf(h) /\ UrbTypes /\ ListTypes
  BY Threads, TypeParts DEF UsbInv
<1>3. /\ transport[h] = "none" /\ h \notin closed /\ d # "none"
      /\ reader[h] = "none" /\ writer[h] = "none" /\ tLock # h
  BY <1>1, <1>2, DevicesAssumption DEF ThreadInvOf
<1>4. name'[h] = d /\ \A g \in Handles : g # h => name'[g] = name[g]
  BY <1>1, <1>2 DEF ListTypes
<1>5. h \notin Open /\ Open' = Open \cup {h}
  BY <1>1, <1>3, <1>4 DEF Open
<1>6. Links(list, Open) /\ list \in Seq(Handles)
  BY <1>2 DEF UsbInv, ListInv, ListTypes
<1>7. /\ list' \in Seq(Handles) /\ Links(list', Open')
      /\ list' # <<>> /\ Last(list') = h
  BY <1>1, <1>5, <1>6, AppendLinks
<1>8. UrbTypes' /\ ListTypes'
  <2>1. UrbTypes'
    BY <1>1, <1>2 DEF UrbTypes
  <2>2. name' \in [Handles -> Devs \cup {"none"}]
    BY <1>1, <1>2 DEF ListTypes
  <2> QED BY <1>1, <1>2, <1>7, <2>1, <2>2 DEF ListTypes
<1>9. ListInv'
  <2> SUFFICES ASSUME NEW a \in Open', NEW b \in Open', name'[a] = name'[b]
               PROVE  a = b
    BY <1>7 DEF ListInv
  <2>1. \A g \in Open : name[g] # d /\ g \in Handles
    BY <1>1, OpenListed DEF Open
  <2>2. \A g, k \in Open : name[g] = name[k] => g = k
    BY DEF UsbInv, ListInv
  <2> QED BY <1>4, <1>5, <2>1, <2>2
<1>10. WalkInv'
  <2>1. walk = <<>>
    BY <1>1 DEF UsbInv, WalkInv
  <2>2. IsInjective(<<>>) /\ ToSet(<<>>) = {}
    BY DEF IsInjective, ToSet
  <2> QED BY <1>1, <2>1, <2>2 DEF WalkInv
<1>11. RegisterInv'
  BY <1>1, <1>3, <1>7 DEF RegisterInv
<1>12. ThreadInv'
  <2> SUFFICES ASSUME NEW g \in Handles PROVE ThreadInvOf(g)' /\ UrbInvOf(g)'
    BY DEF ThreadInv
  <2>1. CASE g # h
    <3>1. Same(g)
      BY <1>1, <1>4, <2>1 DEF Same
    <3> QED BY <3>1, SameKept DEF UsbInv
  <2>2. CASE g = h
    BY <1>1, <1>2, <1>3, <2>2 DEF ThreadInvOf, UrbInvOf
  <2> QED BY <2>1, <2>2
<1>13. MarkInv'
  <2> SUFFICES ASSUME NEW g \in Open', OnBus(g)', name'[g] \notin missed
               PROVE  name'[g] \in toScan' \/ g \in mark'
    BY <1>1 DEF MarkInv
  <2>1. CASE g = h
    BY <1>1, <2>1
  <2>2. CASE g # h
    <3>1. g \in Open /\ name'[g] = name[g] /\ name[g] # d /\ OnBus(g)
      BY <1>1, <1>4, <1>5, <2>2, OpenListed DEF OnBus, Open
    <3>2. name[g] \in toScan \/ g \in mark
      BY <1>1, <3>1 DEF UsbInv, MarkInv
    <3> QED BY <1>1, <3>1, <3>2
  <2> QED BY <2>1, <2>2
<1> QED BY <1>8, <1>9, <1>10, <1>11, <1>12, <1>13, TypesJoin DEF UsbInv

LEMMA RegisterTransportStep ==
  ASSUME UsbInv, NEW h \in Handles, register_usb_transport(h)
  PROVE  UsbInv'
<1>1. /\ UNCHANGED <<plugged, name, list, closed, mark, dead, toScan, missed, walk, tLock>>
      /\ UNCHANGED <<urb_in, urb_out, out_busy, out_ok>>
      /\ UNCHANGED <<reader, writer, left, past, heard>>
      /\ poll = "register" /\ poll' = "scan" /\ h = Last(list)
      /\ transport' = [transport EXCEPT ![h] = "pending"]
  BY DEF register_usb_transport, handles, urbs, data
<1>2. ThreadInvOf(h) /\ UrbInvOf(h) /\ UrbTypes /\ ListTypes
  BY Threads, TypeParts DEF UsbInv
<1>3. list # <<>> /\ transport[h] = "none"
  BY <1>1 DEF UsbInv, RegisterInv
<1>4. /\ h \in Open /\ name[h] # "none" /\ h \notin closed
      /\ reader[h] = "none" /\ writer[h] = "none" /\ tLock # h
  BY <1>1, <1>2, <1>3, OpenListed DEF Open, ThreadInvOf
<1>5. /\ transport' \in [Handles -> {"none", "pending", "listed", "gone"}]
      /\ transport'[h] = "pending"
      /\ \A g \in Handles : g # h => transport'[g] = transport[g]
  BY <1>1, <1>2 DEF ListTypes
<1>6. UrbTypes' /\ ListTypes'
  BY <1>1, <1>2, <1>5 DEF UrbTypes, ListTypes
<1>7. ListInv' /\ WalkInv' /\ RegisterInv' /\ MarkInv'
  BY <1>1 DEF UsbInv, ListInv, WalkInv, RegisterInv, MarkInv, Open, OnBus
<1>8. ThreadInv'
  <2> SUFFICES ASSUME NEW g \in Handles PROVE ThreadInvOf(g)' /\ UrbInvOf(g)'
    BY DEF ThreadInv
  <2>1. CASE g # h
    <3>1. Same(g)
      BY <1>1, <1>5, <2>1 DEF Same
    <3> QED BY <3>1, SameKept DEF UsbInv
  <2>2. CASE g = h
    BY <1>1, <1>2, <1>4, <1>5, <2>2 DEF ThreadInvOf, UrbInvOf
  <2> QED BY <2>1, <2>2
<1> QED BY <1>6, <1>7, <1>8, TypesJoin DEF UsbInv

LEMMA KickBeginStep ==
  ASSUME UsbInv, KickBegin
  PROVE  UsbInv'
<1>1. /\ UNCHANGED <<plugged, name, list, closed, mark, dead, transport, tLock, toScan>>
      /\ missed' = missed
      /\ UNCHANGED <<urbs, reader, writer, data>>
      /\ poll = "scan" /\ toScan = {} /\ poll' = "kick" /\ walk' = list
  BY DEF KickBegin, handles
<1>2. ThreadInv' /\ UrbTypes'
  BY <1>1, ThreadsKept
<1>3. ListTypes'
  BY <1>1, TypeParts DEF UsbInv, ListTypes
<1>4. ListInv' /\ RegisterInv' /\ Open' = Open
  BY <1>1 DEF UsbInv, ListInv, RegisterInv, Open
<1>5. WalkInv'
  BY <1>1, <1>4 DEF UsbInv, ListInv, Links, WalkInv
<1>6. MarkInv'
  BY <1>1, <1>4 DEF UsbInv, MarkInv, OnBus
<1> QED BY <1>2, <1>3, <1>4, <1>5, <1>6, TypesJoin DEF UsbInv

\* kick_disconnected_devices() looks at h, which is open.
LEMMA WalkOn ==
  ASSUME UsbInv, NEW h \in Handles, KickNext(h)
  PROVE  /\ h \in Open /\ (OnBus(h) => h \in mark \/ name[h] \in missed)
         /\ IsInjective(walk') /\ walk' \in Seq(Handles)
         /\ ToSet(walk') = ToSet(walk) \ {h}
<1>1. /\ poll = "kick" /\ walk # <<>> /\ h = Head(walk) /\ walk' = Tail(walk)
      /\ walk \in Seq(Handles) /\ Links(walk, ToSet(walk))
  BY DEF KickNext, UsbInv, WalkInv, TypeOK, Links
<1>2. /\ Tail(walk) \in Seq(Handles) /\ Links(Tail(walk), ToSet(walk) \ {Head(walk)})
      /\ Head(walk) \in ToSet(walk)
  BY <1>1, TailLinks
<1>3. h \in ToSet(walk) /\ h \in Open
  BY <1>1, <1>2 DEF UsbInv, WalkInv
<1>4. OnBus(h) => h \in mark \/ name[h] \in missed
  BY <1>1, <1>3 DEF UsbInv, MarkInv
<1> QED BY <1>1, <1>2, <1>3, <1>4 DEF Links

LEMMA KickNextStep ==
  ASSUME UsbInv, NEW h \in Handles, KickNext(h)
  PROVE  UsbInv'
<1>1. /\ UNCHANGED <<plugged, name, list, closed, tLock, poll, toScan, missed>>
      /\ UNCHANGED <<reader, writer, left, past, heard>>
      /\ poll = "kick"
  BY DEF KickNext, handles, data
<1>2. ThreadInvOf(h) /\ UrbInvOf(h) /\ UrbTypes /\ ListTypes
  BY Threads, TypeParts DEF UsbInv
<1>3. /\ h \in Open /\ IsInjective(walk') /\ walk' \in Seq(Handles)
      /\ ToSet(walk') = ToSet(walk) \ {h}
  BY WalkOn
<1>4. mark' \subseteq mark /\ mark \ {h} \subseteq mark'
  BY DEF KickNext
<1>5. Open' = Open
  BY <1>1 DEF Open
<1>6. ListInv' /\ WalkInv' /\ RegisterInv'
  BY <1>1, <1>3, <1>5 DEF UsbInv, ListInv, WalkInv, RegisterInv
<1>7. MarkInv'
  <2> SUFFICES ASSUME NEW g \in Open, OnBus(g), name[g] \notin missed,
                      g \in ToSet(walk')
               PROVE  g \in mark'
    BY <1>1, <1>5 DEF MarkInv, OnBus
  <2>1. g \in ToSet(walk) /\ g # h
    BY <1>3
  <2>2. g \in mark
    BY <1>1, <2>1 DEF UsbInv, MarkInv
  <2> QED BY <1>4, <2>1, <2>2
<1>8. CASE UNCHANGED <<dead, urbs, transport>>
  <2>1. UNCHANGED <<name, closed, dead, urbs, reader, writer, data, transport, tLock>>
    BY <1>1, <1>8 DEF data
  <2>2. ThreadInv' /\ UrbTypes'
    BY <2>1, ThreadsKept
  <2>3. ListTypes'
    BY <1>1, <1>2, <1>3, <1>4, <1>8 DEF ListTypes
  <2> QED BY <1>6, <1>7, <2>2, <2>3, TypesJoin DEF UsbInv
<1>9. CASE KickWriteable(h) /\ UNCHANGED transport
  <2>1. KickedOnly(h)
    BY <1>9, KickUrbs
  <2>2. UrbTypes'
    BY <1>1, <1>2, <2>1 DEF UrbTypes, KickedOnly
  <2>3. ListTypes'
    BY <1>1, <1>2, <1>3, <1>4, <1>9, <2>1 DEF ListTypes, KickedOnly
  <2>4. ThreadInv'
    <3> SUFFICES ASSUME NEW g \in Handles PROVE ThreadInvOf(g)' /\ UrbInvOf(g)'
      BY DEF ThreadInv
    <3>1. CASE g # h
      <4>1. Same(g)
        BY <1>1, <1>9, <2>1, <3>1 DEF Same, KickedOnly
      <4> QED BY <4>1, SameKept DEF UsbInv
    <3>2. CASE g = h
      <4>1. ThreadInvOf(h)'
        BY <1>1, <1>2, <1>9, <2>1 DEF ThreadInvOf, KickedOnly, Writeable
      <4>2. UrbInvOf(h)'
        BY <1>1, <1>2, <2>1 DEF UrbInvOf, KickedOnly
      <4> QED BY <3>2, <4>1, <4>2
    <3> QED BY <3>1, <3>2
  <2> QED BY <1>6, <1>7, <2>2, <2>3, <2>4, TypesJoin DEF UsbInv
<1>10. CASE ~Writeable(h) /\ KickReadOnly(h) /\ UNCHANGED urbs
  <2>1. /\ UNCHANGED <<urb_in, urb_out, out_busy, out_ok>>
        /\ writer[h] = "none" /\ urb_out[h] # "flying" /\ h \notin closed
        /\ tLock # h
    BY <1>2, <1>3, <1>10 DEF urbs, ThreadInvOf, UrbInvOf, Open
  <2>2. /\ dead' \in {dead, dead \cup {h}}
        /\ transport' = transport
              \/ (transport[h] = "listed" /\ transport' = [transport EXCEPT ![h] = "gone"])
    BY <1>10 DEF KickReadOnly
  <2>3. /\ transport' \in [Handles -> {"none", "pending", "listed", "gone"}]
        /\ \A g \in Handles : g # h => transport'[g] = transport[g]
        /\ transport'[h] = transport[h]
              \/ (transport[h] = "listed" /\ transport'[h] = "gone")
    BY <1>2, <2>2 DEF ListTypes
  <2>4. ListTypes'
    <3>1. dead' \subseteq Handles
      BY <1>2, <2>2 DEF ListTypes
    <3> QED BY <1>1, <1>2, <1>3, <1>4, <2>3, <3>1 DEF ListTypes
  <2>5. UrbTypes'
    BY <1>1, <1>2, <2>1 DEF UrbTypes
  <2>6. ThreadInv'
    <3> SUFFICES ASSUME NEW g \in Handles PROVE ThreadInvOf(g)' /\ UrbInvOf(g)'
      BY DEF ThreadInv
    <3>1. CASE g # h
      <4>1. Same(g)
        BY <1>1, <2>1, <2>2, <2>3, <3>1 DEF Same
      <4> QED BY <4>1, SameKept DEF UsbInv
    <3>2. CASE g = h
      <4>1. ThreadInvOf(h)'
        BY <1>1, <1>2, <2>1, <2>3 DEF ThreadInvOf, Writeable
      <4>2. UrbInvOf(h)'
        BY <1>1, <1>2, <2>1 DEF UrbInvOf
      <4> QED BY <3>2, <4>1, <4>2
    <3> QED BY <3>1, <3>2
  <2> QED BY <1>6, <1>7, <2>4, <2>5, <2>6, TypesJoin DEF UsbInv
<1> QED BY <1>8, <1>9, <1>10 DEF KickNext

LEMMA KickEndStep ==
  ASSUME UsbInv, KickEnd
  PROVE  UsbInv'
<1>1. /\ UNCHANGED <<plugged, name, list, closed, mark, dead, transport, tLock, walk>>
      /\ UNCHANGED <<urbs, reader, writer, data>>
      /\ poll = "kick" /\ walk = <<>> /\ poll' = "scan" /\ toScan' = Devs
      /\ missed' = {}
  BY DEF KickEnd, handles
<1>2. ThreadInv' /\ UrbTypes'
  BY <1>1, ThreadsKept
<1>3. ListTypes'
  BY <1>1, TypeParts DEF UsbInv, ListTypes
<1>4. ListInv' /\ WalkInv' /\ RegisterInv' /\ Open' = Open
  BY <1>1 DEF UsbInv, ListInv, WalkInv, RegisterInv, Open
<1>5. MarkInv'
  <2>1. plugged \subseteq Devs
    BY DEF UsbInv, TypeOK
  <2> QED BY <1>1, <2>1 DEF MarkInv, OnBus
<1> QED BY <1>2, <1>3, <1>4, <1>5, TypesJoin DEF UsbInv

-----------------------------------------------------------------------------
(* The invariant. *)

LEMMA InitHolds ==
  ASSUME Init PROVE UsbInv
<1>1. UrbTypes
  BY DEF Init, UrbTypes, Urb, ReaderAt, WriterAt
<1>2. ListTypes
  BY DEF Init, ListTypes
<1>3. Open = {} /\ list = <<>> /\ walk = <<>>
  BY DEF Init, Open
<1>4. IsInjective(<<>>) /\ ToSet(<<>>) = {}
  BY DEF IsInjective, ToSet
<1>5. ListInv /\ WalkInv /\ MarkInv
  BY <1>3, <1>4 DEF ListInv, Links, WalkInv, MarkInv
<1>6. RegisterInv
  BY DEF Init, RegisterInv
<1>7. ASSUME NEW h \in Handles PROVE ThreadInvOf(h) /\ UrbInvOf(h)
  BY DevicesAssumption DEF Init, ThreadInvOf, UrbInvOf
<1> QED BY <1>1, <1>2, <1>5, <1>6, <1>7, TypeParts DEF UsbInv, ThreadInv

LEMMA StutterKept ==
  ASSUME UsbInv, UNCHANGED vars PROVE UsbInv'
<1>1. /\ UNCHANGED <<plugged, name, list, closed, mark, dead, transport, tLock>>
      /\ UNCHANGED <<urbs, reader, writer, data>> /\ UNCHANGED <<poll, toScan, missed, walk>>
  BY DEF vars, urbs, data
<1>2. ThreadInv' /\ UrbTypes'
  BY <1>1, ThreadsKept
<1>3. ListTypes'
  BY <1>1, TypeParts DEF UsbInv, ListTypes
<1>4. ListInv' /\ WalkInv' /\ RegisterInv' /\ MarkInv'
  BY <1>1 DEF UsbInv, ListInv, WalkInv, RegisterInv, MarkInv, Open, OnBus
<1> QED BY <1>2, <1>3, <1>4, TypesJoin DEF UsbInv

LEMMA NextHolds ==
  ASSUME UsbInv, Next PROVE UsbInv'
<1>1. ASSUME NEW d \in Devs, Plug(d) \/ Unplug(d) PROVE UsbInv'
  BY <1>1, PlugStep, UnplugStep
<1>2. ASSUME Poll PROVE UsbInv'
  BY <1>2, ScanStep, RegisterStep, RegisterTransportStep, KickNextStep,
     KickBeginStep, KickEndStep DEF Poll
<1>3. ASSUME NEW h \in Handles,
             \/ CompleteIn(h) \/ CompleteOut(h) \/ FailOut(h) \/ ReapError(h)
             \/ StartTransport(h) \/ usb_close(h)
      PROVE  UsbInv'
  BY <1>3, CompleteInStep, CompleteOutStep, FailOutStep, ReapErrorStep,
     StartTransportStep, CloseStep
<1>4. ASSUME NEW h \in Handles, Reader(h) PROVE UsbInv'
  BY <1>4, ReadSubmitStep, ReapInStep, ReapOutStep, ReaderKickStep,
     ReaderUnrefStep DEF Reader
<1>5. ASSUME NEW h \in Handles, Writer(h) PROVE UsbInv'
  BY <1>5, WriteSubmitStep, WriteWaitStep, WriteEndStep, WriterKickStep,
     WriterUnrefStep DEF Writer
<1>6. ASSUME NEW h \in Handles, NEW len \in Lens, WriteBegin(h, len) PROVE UsbInv'
  BY <1>6, WriteBeginStep
<1> QED BY <1>1, <1>2, <1>3, <1>4, <1>5, <1>6 DEF Next

LEMMA UsbInvHolds == Spec => []UsbInv
<1>1. Init => UsbInv
  BY InitHolds
<1>2. UsbInv /\ [Next]_vars => UsbInv'
  BY NextHolds, StutterKept
<1> QED BY <1>1, <1>2, PTL DEF Spec

\* The state of usb_linux.c keeps its types.
THEOREM TypeCorrect == Spec => []TypeOK
<1>1. UsbInv => TypeOK
  BY DEF UsbInv
<1> QED BY <1>1, UsbInvHolds, PTL

\* handle_list holds exactly the open handles, one at most for a device, and
\* usb_close() frees a handle that nobody uses any more, whichever way the
\* poll thread, the threads of the transports and the devices interleave.
THEOREM HandlesHold == Spec => []HandlesRight
<1>1. ASSUME UsbInv PROVE HandlesRight
  <2>1. /\ \A g, h \in Open : name[g] = name[h] => g = h
        /\ ToSet(list) = Open /\ IsInjective(list)
    BY <1>1 DEF UsbInv, ListInv, Links
  <2>2. ASSUME NEW h \in closed
        PROVE  /\ h \notin ToSet(walk)
               /\ reader[h] = "done" /\ writer[h] = "done"
               /\ urb_in[h] # "flying" /\ urb_out[h] # "flying"
    <3>1. h \in Handles /\ h \notin Open /\ ToSet(walk) \subseteq Open
      BY <1>1 DEF UsbInv, TypeOK, WalkInv, Open
    <3> QED BY <1>1, <3>1, Threads DEF ThreadInvOf
  <2> QED BY <2>1, <2>2 DEF HandlesRight, Open
<1> QED BY <1>1, UsbInvHolds, PTL

\* kick_disconnected_devices() kicks no handle whose device is still there
\* unless opendir() has failed for its directory: the scan before it, or
\* register_device(), has marked it.
THEOREM KickedHolds == Spec => KickedWhenGone
<1>1. ASSUME UsbInv, [Next]_vars
      PROVE  [walk' # walk =>
                 \A h \in dead' \ dead : ~OnBus(h) \/ name[h] \in missed]_vars
  <2> SUFFICES ASSUME Next, walk' # walk, NEW h \in dead' \ dead
               PROVE  ~OnBus(h) \/ name[h] \in missed
    BY <1>1
  <2>1. CASE KickBegin
    BY <2>1 DEF KickBegin
  <2>2. CASE \E g \in Handles : KickNext(g)
    <3>1. PICK g \in Handles : KickNext(g)
      BY <2>2
    <3>2. h = g /\ g \notin mark
      BY <3>1 DEF KickNext, KickWriteable, KickReadOnly
    <3>3. OnBus(g) => g \in mark \/ name[g] \in missed
      BY <1>1, <3>1, WalkOn
    <3> QED BY <3>2, <3>3
  <2>3. KickBegin \/ \E g \in Handles : KickNext(g)
    BY DEF Next, Poll, Reader, Writer, Plug, Unplug, known_device, Skip, OpendirFails,
           register_device, register_usb_transport, KickEnd, CompleteIn,
           CompleteOut, FailOut, ReapError, StartTransport, ReadSubmit, ReapIn,
           ReapOut, ReaderKick, ReaderUnref, WriteSubmit, WriteWait, WriteEnd,
           WriterKick, WriterUnref, usb_close, WriteBegin, scan
  <2> QED BY <2>1, <2>2, <2>3
<1> QED BY <1>1, UsbInvHolds, PTL DEF Spec, KickedWhenGone

-----------------------------------------------------------------------------
(* What the device has accepted. *)

\* f[i] is what Certain() keeps of the first i transfers of s.
Keeps(f, s) ==
    /\ f \in [0..Len(s) -> Seq(Nat)] /\ f[0] = <<>>
    /\ \A i \in 1..Len(s) :
          f[i] = IF s[i] \in WaitResults THEN f[i - 1] ELSE Append(f[i - 1], s[i])

LEMMA CertainKeeps ==
  ASSUME NEW s \in Seq(Nat)
  PROVE  \E f : Keeps(f, s) /\ Certain(s) = f[Len(s)]
<1> DEFINE n == Len(s)
           V == Seq(Nat)
           e == <<>>
           step == [i \in 1..n |-> [v \in V |-> IF s[i] \in WaitResults THEN v
                                                ELSE Append(v, s[i])]]
           Rec(f) == f = [i \in 0..n |-> IF i = 0 THEN <<>>
                                         ELSE IF s[i] \in WaitResults THEN f[i - 1]
                                         ELSE Append(f[i - 1], s[i])]
           c == CHOOSE f : Rec(f)
<1>1. n \in Nat /\ \A i \in 1..n : s[i] \in Nat
  OBVIOUS
<1>2. Certain(s) = c[n]
  BY DEF Certain
<1> HIDE DEF n
<1>3. e \in V
  OBVIOUS
<1>4. step \in [1..n -> [V -> V]]
  <2>1. ASSUME NEW i \in 1..n, NEW v \in V
        PROVE  (IF s[i] \in WaitResults THEN v ELSE Append(v, s[i])) \in V
    BY <1>1
  <2> QED BY <2>1
<1>5. \A i \in 1..n : \A v \in V :
         step[i][v] = IF s[i] \in WaitResults THEN v ELSE Append(v, s[i])
  OBVIOUS
<1> HIDE DEF step, V, e
<1>6. PICK f : Recurs(f, n, V, e, step)
  BY <1>1, <1>3, <1>4, Recursion
<1>7. f \in [0..n -> V] /\ f[0] = e /\ \A i \in 1..n : f[i] = step[i][f[i - 1]]
  BY <1>6 DEF Recurs
<1>8. ASSUME NEW i \in 1..n
      PROVE  f[i] = IF s[i] \in WaitResults THEN f[i - 1] ELSE Append(f[i - 1], s[i])
  <2>1. i - 1 \in 0..n
    BY <1>1
  <2>2. f[i - 1] \in V
    BY <1>7, <2>1
  <2> QED BY <1>5, <1>7, <2>2
<1>9. Rec(f)
  <2>1. ASSUME NEW i \in 0..n
        PROVE  f[i] = IF i = 0 THEN <<>>
                      ELSE IF s[i] \in WaitResults THEN f[i - 1]
                      ELSE Append(f[i - 1], s[i])
    <3>1. CASE i = 0
      BY <1>7, <3>1 DEF e
    <3>2. CASE i # 0
      <4>1. i \in 1..n
        BY <1>1, <3>2
      <4> QED BY <1>8, <3>2, <4>1
    <3> QED BY <3>1, <3>2
  <2> QED BY <1>7, <2>1
<1>10. Rec(c)
  BY <1>9
<1> HIDE DEF c
<1>11. /\ c[0] = <<>>
       /\ \A i \in 1..n :
             c[i] = IF s[i] \in WaitResults THEN c[i - 1] ELSE Append(c[i - 1], s[i])
  <2>1. \A i \in 0..n : c[i] = IF i = 0 THEN <<>>
                               ELSE IF s[i] \in WaitResults THEN c[i - 1]
                               ELSE Append(c[i - 1], s[i])
    BY <1>10
  <2>2. 0 \in 0..n /\ \A i \in 1..n : i \in 0..n /\ i # 0
    BY <1>1
  <2> QED BY <2>1, <2>2
<1> HIDE DEF Rec
<1> DEFINE T == {i \in 0..n : c[i] = f[i]}
<1>12. 0 \in T
  BY <1>1, <1>7, <1>11 DEF e
<1>13. ASSUME NEW i \in 1..n, i - 1 \in T PROVE i \in T
  <2>1. c[i - 1] = f[i - 1] /\ i \in 0..n
    BY <1>1, <1>13
  <2>2. c[i] = f[i]
    BY <1>8, <1>11, <2>1
  <2> QED BY <2>1, <2>2
<1> HIDE DEF T
<1>14. 0..n \subseteq T
  BY <1>1, <1>12, <1>13, BoundedInduction
<1>15. c[n] = f[n]
  BY <1>1, <1>14 DEF T
<1>16. Keeps(f, s)
  BY <1>7, <1>8 DEF Keeps, e, V, n
<1> QED BY <1>2, <1>15, <1>16 DEF n

LEMMA KeepsOne ==
  ASSUME NEW s \in Seq(Nat), NEW x \in Nat, NEW f, Keeps(f, s),
         NEW g, Keeps(g, Append(s, x))
  PROVE  g[Len(s) + 1] = IF x \in WaitResults THEN f[Len(s)] ELSE Append(f[Len(s)], x)
<1> DEFINE n == Len(s)
           t == Append(s, x)
<1>1. n \in Nat /\ Len(t) = n + 1 /\ t[n + 1] = x /\ \A i \in 1..n : t[i] = s[i]
  OBVIOUS
<1>2. /\ f[0] = <<>>
      /\ \A i \in 1..n :
            f[i] = IF s[i] \in WaitResults THEN f[i - 1] ELSE Append(f[i - 1], s[i])
  BY DEF Keeps
<1>3. /\ g[0] = <<>>
      /\ \A i \in 1..(n + 1) :
            g[i] = IF t[i] \in WaitResults THEN g[i - 1] ELSE Append(g[i - 1], t[i])
  BY <1>1 DEF Keeps
<1> HIDE DEF n, t
<1> DEFINE T == {i \in 0..n : g[i] = f[i]}
<1>4. 0 \in T
  BY <1>1, <1>2, <1>3
<1>5. ASSUME NEW i \in 1..n, i - 1 \in T PROVE i \in T
  <2>1. g[i - 1] = f[i - 1] /\ i \in 0..n /\ i \in 1..(n + 1) /\ t[i] = s[i]
    BY <1>1, <1>5
  <2>2. g[i] = f[i]
    BY <1>2, <1>3, <2>1
  <2> QED BY <2>1, <2>2
<1> HIDE DEF T
<1>6. 0..n \subseteq T
  BY <1>1, <1>4, <1>5, BoundedInduction
<1>7. g[n] = f[n]
  BY <1>1, <1>6 DEF T
<1>8. n + 1 \in 1..(n + 1) /\ (n + 1) - 1 = n
  BY <1>1
<1>9. g[n + 1] = IF x \in WaitResults THEN g[n] ELSE Append(g[n], x)
  BY <1>1, <1>3, <1>8
<1> QED BY <1>7, <1>9 DEF n

\* One transfer more.
LEMMA CertainOne ==
  ASSUME NEW s \in Seq(Nat), NEW x \in Nat
  PROVE  /\ Certain(s) \in Seq(Nat)
         /\ x \in WaitResults => Certain(Append(s, x)) = Certain(s)
         /\ x \notin WaitResults => Certain(Append(s, x)) = Append(Certain(s), x)
<1>1. PICK f : Keeps(f, s) /\ Certain(s) = f[Len(s)]
  BY CertainKeeps
<1>2. Append(s, x) \in Seq(Nat) /\ Len(Append(s, x)) = Len(s) + 1 /\ Len(s) \in 0..Len(s)
  OBVIOUS
<1>3. PICK g : Keeps(g, Append(s, x)) /\ Certain(Append(s, x)) = g[Len(Append(s, x))]
  BY <1>2, CertainKeeps
<1>4. g[Len(s) + 1] = IF x \in WaitResults THEN f[Len(s)] ELSE Append(f[Len(s)], x)
  BY <1>1, <1>3, KeepsOne
<1>5. f[Len(s)] \in Seq(Nat)
  BY <1>1, <1>2 DEF Keeps
<1> QED BY <1>1, <1>2, <1>3, <1>4, <1>5

\* Two sequences of transfers that agree on the certain ones go on agreeing.
LEMMA CertainSame ==
  ASSUME NEW s \in Seq(Nat), NEW t \in Seq(Nat), NEW x \in Nat, Certain(s) = Certain(t)
  PROVE  Certain(Append(s, x)) = Certain(Append(t, x))
<1>1. CASE x \in WaitResults
  <2>1. Certain(Append(s, x)) = Certain(s)
    BY <1>1, CertainOne
  <2>2. Certain(Append(t, x)) = Certain(t)
    BY <1>1, CertainOne
  <2> QED BY <2>1, <2>2
<1>2. CASE x \notin WaitResults
  <2>1. Certain(Append(s, x)) = Append(Certain(s), x)
    BY <1>2, CertainOne
  <2>2. Certain(Append(t, x)) = Append(Certain(t), x)
    BY <1>2, CertainOne
  <2> QED BY <2>1, <2>2
<1> QED BY <1>1, <1>2

LEMMA CertainPrefix ==
  ASSUME NEW s \in Seq(Nat), NEW t \in Seq(Nat), NEW x \in Nat,
         Certain(t) \in {Certain(s), Certain(Append(s, x))}
  PROVE  IsPrefix(Certain(s), Certain(t))
<1> DEFINE c == Certain(s)
<1>1. c \in Seq(Nat)
  BY CertainOne
<1>2. Certain(t) \in {c, Append(c, x)}
  BY CertainOne
<1> HIDE DEF c
<1>3. IsPrefix(c, c)
  BY <1>1 DEF IsPrefix
<1>4. IsPrefix(c, Append(c, x))
  <2>1. Len(c) \in Nat /\ Len(Append(c, x)) = Len(c) + 1 /\ Append(c, x) \in Seq(Nat)
    BY <1>1
  <2>2. SubSeq(Append(c, x), 1, Len(c)) = SubSeq(c, 1, Len(c))
    BY <1>1, <2>1
  <2> QED BY <2>1, <2>2 DEF IsPrefix
<1> QED BY <1>2, <1>3, <1>4 DEF c

\* The transfer that the writer of h waits for was accepted as well.
Ahead(h) == Certain(heard[h]) = Certain(Append(past[h], Head(left[h])))

Even(h) == Certain(heard[h]) = Certain(past[h])

\* The device is never more than the current transfer ahead of the writer, and
\* a URB that is complete, or was reaped so, is one that it has accepted.
SentOf(h) ==
    /\ writer[h] = "submit" \/ urb_out[h] = "flying" => Even(h)
    /\ writer[h] = "wait" => Even(h) \/ Ahead(h)
    /\ writer[h] = "wait" /\ h \notin dead /\ (urb_out[h] = "complete" \/ out_ok[h])
          => Ahead(h)
    /\ IsPrefix(Certain(past[h]), Certain(heard[h]))

SentInv == \A h \in Handles : SentOf(h)

\* A step that does not touch the packet of g: its writer may end, its handle
\* be kicked, its transfer fail or be reaped.
Untouched(g) ==
    /\ left'[g] = left[g] /\ past'[g] = past[g] /\ heard'[g] = heard[g]
    /\ writer'[g] = writer[g] \/ writer'[g] \notin {"submit", "wait"}
    /\ g \in dead => g \in dead'
    /\ urb_out'[g] = "flying" => urb_out[g] = "flying"
    /\ g \notin dead' /\ (urb_out'[g] = "complete" \/ out_ok'[g])
          => urb_out[g] = "complete" \/ out_ok[g]

LEMMA UntouchedKept ==
  ASSUME NEW g, SentOf(g), Untouched(g)
  PROVE  SentOf(g)'
<1>1. /\ left'[g] = left[g] /\ past'[g] = past[g] /\ heard'[g] = heard[g]
      /\ writer'[g] = writer[g] \/ writer'[g] \notin {"submit", "wait"}
      /\ g \in dead => g \in dead'
      /\ urb_out'[g] = "flying" => urb_out[g] = "flying"
      /\ g \notin dead' /\ (urb_out'[g] = "complete" \/ out_ok'[g])
            => urb_out[g] = "complete" \/ out_ok[g]
  BY DEF Untouched
<1>2. (Even(g)' <=> Even(g)) /\ (Ahead(g)' <=> Ahead(g))
  BY <1>1 DEF Even, Ahead
<1>3. IsPrefix(Certain(past[g]), Certain(heard[g]))'
  BY <1>1 DEF SentOf
<1>4. writer'[g] = "submit" => writer[g] = "submit"
  BY <1>1
<1>5. writer'[g] = "wait" => writer[g] = "wait"
  BY <1>1
<1> HIDE DEF Even, Ahead
<1> QED BY <1>1, <1>2, <1>3, <1>4, <1>5 DEF SentOf

-----------------------------------------------------------------------------
(* Steps that touch no packet. *)

\* A kick takes a transfer back, and ends no other.
LEMMA KickUntouched ==
  ASSUME UsbInv, NEW h \in Handles, KickWriteable(h),
         NEW g \in Handles
  PROVE  /\ g \in dead => g \in dead'
         /\ urb_out'[g] = "flying" => urb_out[g] = "flying"
         /\ g \notin dead' /\ (urb_out'[g] = "complete" \/ out_ok'[g])
              => urb_out[g] = "complete" \/ out_ok[g]
<1>1. UrbTypes
  BY Threads
<1>2. CASE UNCHANGED <<dead, urb_out, out_ok>>
  BY <1>2
<1>3. CASE /\ dead' = dead \cup {h}
           /\ urb_out' = [urb_out EXCEPT ![h] = Discard(urb_out[h])]
           /\ out_ok' = [out_ok EXCEPT ![h] = FALSE]
  <2>1. CASE g = h
    BY <1>1, <1>3, <2>1 DEF UrbTypes, Discard
  <2>2. CASE g # h
    BY <1>1, <1>3, <2>2 DEF UrbTypes
  <2> QED BY <2>1, <2>2
<1> QED BY <1>2, <1>3 DEF KickWriteable, urbs

LEMMA PollUntouched ==
  ASSUME UsbInv, Poll, NEW g \in Handles
  PROVE  Untouched(g)
<1>1. UNCHANGED <<data, writer>>
  BY DEF Poll, known_device, Skip, OpendirFails, register_device, register_usb_transport, KickNext,
         KickBegin, KickEnd
<1>2. UNCHANGED <<left, past, heard, writer>>
  BY <1>1 DEF data
<1>3. CASE UNCHANGED <<dead, urbs>>
  BY <1>2, <1>3 DEF Untouched, urbs
<1>4. CASE \E h \in Handles : KickNext(h)
  <2>1. PICK h \in Handles : KickNext(h)
    BY <1>4
  <2>2. CASE KickWriteable(h)
    BY <1>2, <2>2, KickUntouched DEF Untouched
  <2>3. CASE UNCHANGED urbs /\ dead \subseteq dead'
    BY <1>2, <2>3 DEF Untouched, urbs
  <2> QED BY <1>3, <2>1, <2>2, <2>3 DEF KickNext, KickReadOnly
<1> QED BY <1>3, <1>4 DEF Poll, known_device, Skip, OpendirFails, register_device,
           register_usb_transport, KickBegin, KickEnd

LEMMA BusUntouched ==
  ASSUME UsbInv, NEW h \in Handles, NEW g \in Handles,
         \/ \E d \in Devs : Plug(d) \/ Unplug(d)
         \/ CompleteIn(h) \/ FailOut(h) \/ ReapError(h) \/ StartTransport(h)
  PROVE  Untouched(g)
<1>1. UrbTypes
  BY Threads
<1>2. CASE UNCHANGED <<data, writer, dead, urbs>>
  BY <1>2 DEF Untouched, data, urbs
<1>3. CASE CompleteIn(h)
  BY <1>3 DEF CompleteIn, Untouched, data
<1>4. CASE FailOut(h)
  <2>1. /\ urb_out' = [urb_out EXCEPT ![h] = "failed"]
        /\ UNCHANGED <<left, past, heard, writer, dead, out_ok>>
    BY <1>4 DEF FailOut, data
  <2> QED BY <1>1, <2>1 DEF Untouched, UrbTypes
<1>5. CASE StartTransport(h)
  <2>1. /\ writer' = writer \/ writer' = [writer EXCEPT ![h] = "idle"]
        /\ UNCHANGED <<left, past, heard, dead, urb_out, out_ok>>
    BY <1>5 DEF StartTransport, data, urbs
  <2>2. writer'[g] = writer[g] \/ writer'[g] = "idle"
    BY <1>1, <2>1 DEF UrbTypes
  <2> QED BY <2>1, <2>2 DEF Untouched
<1> QED BY <1>2, <1>3, <1>4, <1>5 DEF Plug, Unplug, ReapError

LEMMA ReaderUntouched ==
  ASSUME UsbInv, NEW h \in Handles, Reader(h), NEW g \in Handles
  PROVE  Untouched(g)
<1>1. UrbTypes
  BY Threads
<1>2. UNCHANGED <<left, past, heard, writer>>
  BY DEF Reader, ReadSubmit, ReapIn, ReapOut, ReaderKick, ReaderUnref, data
<1>3. CASE UNCHANGED <<dead, urb_out, out_ok>>
  BY <1>2, <1>3 DEF Untouched
<1>4. CASE ReapOut(h)
  <2>1. urb_out' = [urb_out EXCEPT ![h] = "idle"] /\ UNCHANGED dead
    BY <1>4 DEF ReapOut
  <2>2. UNCHANGED out_ok \/ out_ok' = [out_ok EXCEPT ![h] = urb_out[h] = "complete"]
    BY <1>4 DEF ReapOut
  <2>3. CASE g = h
    BY <1>1, <1>2, <2>1, <2>2, <2>3 DEF Untouched, UrbTypes
  <2>4. CASE g # h
    BY <1>1, <1>2, <2>1, <2>2, <2>4 DEF Untouched, UrbTypes
  <2> QED BY <2>3, <2>4
<1>5. CASE ReaderKick(h)
  <2>1. KickWriteable(h)
    BY <1>5 DEF ReaderKick
  <2> QED BY <1>2, <2>1, KickUntouched DEF Untouched
<1> QED BY <1>3, <1>4, <1>5 DEF Reader, ReadSubmit, ReapIn, ReaderUnref, urbs

LEMMA WriterUntouched ==
  ASSUME UsbInv, NEW h \in Handles, WriteEnd(h) \/ WriterKick(h) \/ WriterUnref(h),
         NEW g \in Handles
  PROVE  Untouched(g)
<1>1. UrbTypes
  BY Threads
<1>2. UNCHANGED <<left, past, heard>>
  BY DEF WriteEnd, WriterKick, WriterUnref, data
<1>3. \E p \in {"kick", "unref", "done"} : writer' = [writer EXCEPT ![h] = p]
  BY DEF WriteEnd, WriterKick, WriterUnref
<1>4. writer'[g] = writer[g] \/ writer'[g] \notin {"submit", "wait"}
  BY <1>1, <1>3 DEF UrbTypes
<1>5. CASE UNCHANGED <<dead, urb_out, out_ok>>
  BY <1>2, <1>4, <1>5 DEF Untouched
<1>6. CASE WriterKick(h)
  <2>1. KickWriteable(h)
    BY <1>6 DEF WriterKick
  <2> QED BY <1>2, <1>4, <2>1, KickUntouched DEF Untouched
<1> QED BY <1>5, <1>6 DEF WriteEnd, WriterUnref, urbs

-----------------------------------------------------------------------------
(* The steps of a packet. *)

\* The rest of SentInv when only the packet of h moves.
LEMMA OneSent ==
  ASSUME SentInv, NEW h \in Handles, \A g \in Handles : g # h => Untouched(g), SentOf(h)'
  PROVE  SentInv'
<1>1. \A g \in Handles : g # h => SentOf(g)'
  BY UntouchedKept DEF SentInv
<1> QED BY <1>1 DEF SentInv

LEMMA CompleteOutSent ==
  ASSUME UsbInv, SentInv, NEW h \in Handles, CompleteOut(h)
  PROVE  SentInv'
<1> DEFINE x == Head(left[h])
           p == past[h]
           q == heard[h]
<1>1. UrbTypes /\ UrbInvOf(h) /\ SentOf(h)
  BY Threads DEF SentInv
<1>2. /\ urb_out[h] = "flying" /\ urb_out' = [urb_out EXCEPT ![h] = "complete"]
      /\ heard' = [heard EXCEPT ![h] = Append(q, x)]
      /\ UNCHANGED <<dead, out_ok, writer, left, past>>
  BY DEF CompleteOut
<1>3. \A g \in Handles : g # h => Untouched(g)
  BY <1>1, <1>2 DEF Untouched, UrbTypes
<1>4. /\ writer[h] = "wait" /\ left[h] # <<>> /\ left[h] \in Seq(Nat)
      /\ p \in Seq(Nat) /\ q \in Seq(Nat) /\ Certain(q) = Certain(p)
  BY <1>1, <1>2 DEF UrbInvOf, UrbTypes, SentOf, Even
<1>5. x \in Nat
  BY <1>4
<1>6. /\ heard'[h] = Append(q, x) /\ past'[h] = p /\ left'[h] = left[h]
      /\ urb_out'[h] = "complete" /\ writer'[h] = "wait"
  BY <1>1, <1>2, <1>4 DEF UrbTypes
<1> HIDE DEF x, p, q
<1>7. Certain(Append(q, x)) = Certain(Append(p, x))
  BY <1>4, <1>5, CertainSame
<1>8. IsPrefix(Certain(p), Certain(Append(q, x)))
  <2>1. Append(q, x) \in Seq(Nat)
    BY <1>4, <1>5
  <2> QED BY <1>4, <1>5, <1>7, <2>1, CertainPrefix
<1>9. Ahead(h)'
  BY <1>6, <1>7 DEF Ahead, x
<1>10. IsPrefix(Certain(past[h]), Certain(heard[h]))'
  BY <1>6, <1>8
<1> HIDE DEF Ahead
<1>11. SentOf(h)'
  BY <1>6, <1>9, <1>10 DEF SentOf
<1> QED BY <1>3, <1>11, OneSent

LEMMA WriteBeginSent ==
  ASSUME UsbInv, SentInv, NEW h \in Handles, NEW len \in Lens, WriteBegin(h, len)
  PROVE  SentInv'
<1>1. UrbTypes /\ UrbInvOf(h)
  BY Threads
<1>2. /\ writer[h] = "idle" /\ writer' = [writer EXCEPT ![h] = "submit"]
      /\ left' = [left EXCEPT ![h] = remote_write(len)]
      /\ past' = [past EXCEPT ![h] = <<>>] /\ heard' = [heard EXCEPT ![h] = <<>>]
      /\ UNCHANGED <<dead, urb_out, out_ok>>
  BY DEF WriteBegin, urbs
<1>3. \A g \in Handles : g # h => Untouched(g)
  BY <1>1, <1>2 DEF Untouched, UrbTypes
<1>4. writer'[h] = "submit" /\ past'[h] = <<>> /\ heard'[h] = <<>>
  BY <1>1, <1>2 DEF UrbTypes
<1> DEFINE e == <<>>
<1>5. e \in Seq(Nat) /\ 0 \in Nat
  OBVIOUS
<1>6. IsPrefix(Certain(past[h]), Certain(heard[h]))'
  <2> HIDE DEF e
  <2>1. IsPrefix(Certain(e), Certain(e))
    BY <1>5, CertainPrefix
  <2> QED BY <1>4, <2>1 DEF e
<1>7. Even(h)'
  BY <1>4 DEF Even
<1> HIDE DEF Even
<1>8. SentOf(h)'
  BY <1>4, <1>6, <1>7 DEF SentOf
<1> QED BY <1>3, <1>8, OneSent

\* The packet ends without the rest.
LEMMA GiveUpSent ==
  ASSUME UsbInv, SentInv, NEW h \in Handles, GiveUp(h), urb_out[h] # "flying",
         UNCHANGED <<dead, urb_out, out_ok, heard>>
  PROVE  SentInv'
<1>1. UrbTypes /\ SentOf(h)
  BY Threads DEF SentInv
<1>2. /\ writer' = [writer EXCEPT ![h] = "idle"] /\ left' = [left EXCEPT ![h] = <<>>]
      /\ UNCHANGED past
  BY DEF GiveUp
<1>3. \A g \in Handles : g # h => Untouched(g)
  BY <1>1, <1>2 DEF Untouched, UrbTypes
<1>4. writer'[h] = "idle"
  BY <1>1, <1>2 DEF UrbTypes
<1>5. IsPrefix(Certain(past[h]), Certain(heard[h]))'
  BY <1>1, <1>2 DEF SentOf
<1>6. SentOf(h)'
  BY <1>4, <1>5 DEF SentOf
<1> QED BY <1>3, <1>6, OneSent

\* A transfer counts as done that was accepted, or whose length is one of the
\* results of the wait.
LEMMA GoOnSent ==
  ASSUME UsbInv, SentInv, NEW h \in Handles, GoOn(h), urb_out[h] # "flying",
         writer[h] = "wait", Ahead(h) \/ Head(left[h]) \in WaitResults,
         UNCHANGED <<dead, urb_out, out_ok, heard>>
  PROVE  SentInv'
<1> DEFINE x == Head(left[h])
           p == past[h]
           q == heard[h]
           w == IF Len(left[h]) = 1 THEN "idle" ELSE "submit"
<1>1. UrbTypes /\ UrbInvOf(h) /\ SentOf(h)
  BY Threads DEF SentInv
<1>2. /\ writer' = [writer EXCEPT ![h] = w]
      /\ left' = [left EXCEPT ![h] = Tail(left[h])]
      /\ past' = [past EXCEPT ![h] = Append(p, x)]
  BY DEF GoOn
<1>3. w # "wait"
  OBVIOUS
<1>4. Even(h) \/ Ahead(h)
  BY <1>1 DEF SentOf
<1>5. /\ left[h] # <<>> /\ left[h] \in Seq(Nat) /\ p \in Seq(Nat) /\ q \in Seq(Nat)
      /\ Certain(q) = Certain(p) \/ Certain(q) = Certain(Append(p, x))
      /\ x \notin WaitResults => Certain(q) = Certain(Append(p, x))
  BY <1>1, <1>4 DEF UrbInvOf, UrbTypes, Even, Ahead
<1>6. x \in Nat
  BY <1>5
<1>7. past'[h] = Append(p, x) /\ heard'[h] = q /\ writer'[h] = w
  BY <1>1, <1>2 DEF UrbTypes
<1> HIDE DEF w
<1>8. \A g \in Handles : g # h => Untouched(g)
  BY <1>1, <1>2 DEF Untouched, UrbTypes
<1> HIDE DEF x, p, q
<1>9. Certain(q) = Certain(Append(p, x))
  BY <1>5, <1>6, CertainOne
<1>10. Even(h)'
  BY <1>7, <1>9 DEF Even
<1>11. IsPrefix(Certain(past[h]), Certain(heard[h]))'
  <2>1. Append(p, x) \in Seq(Nat)
    BY <1>5, <1>6
  <2>2. IsPrefix(Certain(Append(p, x)), Certain(q))
    BY <1>5, <1>6, <1>9, <2>1, CertainPrefix
  <2> QED BY <1>7, <2>2
<1> HIDE DEF Even
<1>12. SentOf(h)'
  BY <1>3, <1>7, <1>10, <1>11 DEF SentOf
<1> QED BY <1>8, <1>12, OneSent

LEMMA WriteSubmitSent ==
  ASSUME UsbInv, SentInv, NEW h \in Handles, WriteSubmit(h)
  PROVE  SentInv'
<1>1. UrbTypes /\ UrbInvOf(h) /\ SentOf(h)
  BY Threads DEF SentInv
<1>2. writer[h] = "submit" /\ UNCHANGED <<dead, heard>>
  BY DEF WriteSubmit
<1>3. urb_out[h] # "flying"
  BY <1>1, <1>2 DEF UrbInvOf
<1>4. CASE GiveUp(h) /\ UNCHANGED <<urb_out, out_busy, out_ok>>
  BY <1>2, <1>3, <1>4, GiveUpSent
<1>5. CASE /\ urb_out' = [urb_out EXCEPT ![h] = "flying"]
           /\ out_ok' = [out_ok EXCEPT ![h] = FALSE]
           /\ writer' = [writer EXCEPT ![h] = "wait"]
           /\ UNCHANGED <<left, past>>
  <2>1. \A g \in Handles : g # h => Untouched(g)
    BY <1>1, <1>2, <1>5 DEF Untouched, UrbTypes
  <2>2. urb_out'[h] = "flying" /\ ~out_ok'[h] /\ writer'[h] = "wait"
    BY <1>1, <1>5 DEF UrbTypes
  <2>3. Even(h)' /\ IsPrefix(Certain(past[h]), Certain(heard[h]))'
    BY <1>1, <1>2, <1>5 DEF SentOf, Even
  <2> HIDE DEF Even
  <2>4. SentOf(h)'
    BY <2>2, <2>3 DEF SentOf
  <2> QED BY <2>1, <2>4, OneSent
<1> QED BY <1>4, <1>5 DEF WriteSubmit

LEMMA WriteWaitSent ==
  ASSUME UsbInv, SentInv, NEW h \in Handles, WriteWait(h)
  PROVE  SentInv'
<1>1. UrbTypes /\ UrbInvOf(h) /\ SentOf(h)
  BY Threads DEF SentInv
<1>2. writer[h] = "wait" /\ UNCHANGED <<dead, urb_out, out_ok, heard>>
  BY DEF WriteWait, urbs
<1>3. h \in dead \/ ~out_busy[h]
  BY DEF WriteWait
<1>4. urb_out[h] # "flying"
  BY <1>1, <1>3 DEF UrbInvOf
<1>5. CASE GiveUp(h)
  BY <1>2, <1>4, <1>5, GiveUpSent
<1>6. CASE GoOn(h) /\ h \notin dead /\ out_ok[h]
  <2>1. Ahead(h)
    BY <1>1, <1>2, <1>6 DEF SentOf
  <2> QED BY <1>2, <1>4, <1>6, <2>1, GoOnSent
<1>7. CASE GoOn(h) /\ Head(left[h]) \in WaitResults
  BY <1>2, <1>4, <1>7, GoOnSent
<1> QED BY <1>5, <1>6, <1>7 DEF WriteWait

LEMMA CloseSent ==
  ASSUME UsbInv, SentInv, NEW h \in Handles, usb_close(h)
  PROVE  SentInv'
<1>1. UrbTypes /\ ThreadInvOf(h)
  BY Threads
<1>2. /\ tLock = h /\ urb_out' = [urb_out EXCEPT ![h] = "idle"]
      /\ left' = [left EXCEPT ![h] = <<>>] /\ past' = [past EXCEPT ![h] = <<>>]
      /\ heard' = [heard EXCEPT ![h] = <<>>] /\ UNCHANGED <<dead, out_ok, writer>>
  BY DEF usb_close, FreeHandle
<1>3. \A g \in Handles : g # h => Untouched(g)
  BY <1>1, <1>2 DEF Untouched, UrbTypes
<1>4. /\ writer'[h] = "done" /\ urb_out'[h] = "idle"
      /\ past'[h] = <<>> /\ heard'[h] = <<>>
  BY <1>1, <1>2 DEF UrbTypes, ThreadInvOf
<1> DEFINE e == <<>>
<1>5. e \in Seq(Nat) /\ 0 \in Nat
  OBVIOUS
<1>6. IsPrefix(Certain(past[h]), Certain(heard[h]))'
  <2> HIDE DEF e
  <2>1. IsPrefix(Certain(e), Certain(e))
    BY <1>5, CertainPrefix
  <2> QED BY <1>4, <2>1 DEF e
<1>7. SentOf(h)'
  BY <1>4, <1>6 DEF SentOf
<1> QED BY <1>3, <1>7, OneSent

LEMMA InitSent ==
  ASSUME Init PROVE SentInv
<1> SUFFICES ASSUME NEW h \in Handles PROVE SentOf(h)
  BY DEF SentInv
<1>1. writer[h] = "none" /\ urb_out[h] = "idle" /\ past[h] = <<>> /\ heard[h] = <<>>
  BY DEF Init
<1> DEFINE e == <<>>
<1>2. e \in Seq(Nat) /\ 0 \in Nat
  OBVIOUS
<1>3. IsPrefix(Certain(past[h]), Certain(heard[h]))
  <2> HIDE DEF e
  <2>1. IsPrefix(Certain(e), Certain(e))
    BY <1>2, CertainPrefix
  <2> QED BY <1>1, <2>1 DEF e
<1> QED BY <1>1, <1>3 DEF SentOf

LEMMA AllUntouched ==
  ASSUME SentInv, \A g \in Handles : Untouched(g) PROVE SentInv'
  BY UntouchedKept DEF SentInv

LEMMA NextSent ==
  ASSUME UsbInv, SentInv, Next PROVE SentInv'
<1>1. CASE \E d \in Devs : Plug(d) \/ Unplug(d)
  <2> SUFFICES ASSUME NEW g \in Handles PROVE Untouched(g)
    BY AllUntouched
  <2> QED BY <1>1, BusUntouched
<1>2. CASE Poll
  BY <1>2, PollUntouched, AllUntouched
<1>3. ASSUME NEW h \in Handles,
             CompleteIn(h) \/ FailOut(h) \/ ReapError(h) \/ StartTransport(h)
      PROVE  SentInv'
  BY <1>3, BusUntouched, AllUntouched
<1>4. ASSUME NEW h \in Handles, Reader(h) PROVE SentInv'
  BY <1>4, ReaderUntouched, AllUntouched
<1>5. ASSUME NEW h \in Handles, WriteEnd(h) \/ WriterKick(h) \/ WriterUnref(h)
      PROVE  SentInv'
  BY <1>5, WriterUntouched, AllUntouched
<1>6. ASSUME NEW h \in Handles, CompleteOut(h) \/ WriteSubmit(h) \/ WriteWait(h) \/ usb_close(h)
      PROVE  SentInv'
  BY <1>6, CompleteOutSent, WriteSubmitSent, WriteWaitSent, CloseSent
<1>7. ASSUME NEW h \in Handles, NEW len \in Lens, WriteBegin(h, len) PROVE SentInv'
  BY <1>7, WriteBeginSent
<1> QED BY <1>1, <1>2, <1>3, <1>4, <1>5, <1>6, <1>7 DEF Next, Writer

\* What usb_write() took for done, the device has accepted, whichever way the
\* reader reaps, the poll thread kicks and the device fails in between; only a
\* transfer of 0 or of ETIMEDOUT bytes may count as done without.
THEOREM DeliveredHolds == Spec => []Delivered
<1>1. Init => SentInv
  BY InitSent
<1>2. ASSUME UNCHANGED vars, SentInv PROVE SentInv'
  <2>1. UNCHANGED <<left, past, heard, writer, dead, urb_out, out_ok>>
    BY <1>2 DEF vars
  <2>2. \A g \in Handles : Untouched(g)
    BY <2>1 DEF Untouched
  <2> QED BY <1>2, <2>2, AllUntouched
<1>3. UsbInv /\ SentInv /\ [Next]_vars => SentInv'
  BY <1>2, NextSent
<1>4. SentInv => Delivered
  BY DEF SentInv, SentOf, Delivered
<1> QED BY <1>1, <1>3, <1>4, UsbInvHolds, PTL DEF Spec
=============================================================================
