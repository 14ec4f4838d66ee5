------------------------------- MODULE AdbUsb -------------------------------
(***************************************************************************)
(* USB devices in the adb server on Linux: usb_linux.c, and transport_usb.c*)
(* above it.                                                               *)
(*                                                                         *)
(* The poll thread looks through /dev/bus/usb and registers, marks and     *)
(* kicks handles.  Of the two threads of a handle's transport, the output  *)
(* thread is its reader and the only one that reaps URBs; the input thread *)
(* is its writer and sleeps until the reader has reaped what it wrote.     *)
(* Three locks meet here: usb_lock, a handle's lock, transport_lock.  A    *)
(* step is what a thread does between two places where it may have to      *)
(* wait; a lock that is taken and released within a step appears only in   *)
(* the guard.  A usb_handle is an element of Handles, allocated once.      *)
(***************************************************************************)
EXTENDS Naturals, Sequences, SequencesExt, FiniteSets

CONSTANTS
    Devs,        \* names under /dev/bus/usb with an adb interface
    ReadOnly,    \* those that can be opened only for reading
    Handles,     \* every usb_handle that is ever allocated
    ZeroMask,    \* zero_mask + 1: the packet size, or 0 if there is no mask
    Lens         \* bound: lengths of the data that is sent, 0 for none

ASSUME DevicesAssumption ==
    /\ ReadOnly \subseteq Devs
    /\ "none" \notin Devs \cup Handles
    /\ ZeroMask \in Nat
    /\ Lens \subseteq Nat

VARIABLES
    plugged,     \* the names that exist in /dev/bus/usb
    name,        \* name[h]: fname, "none" before h is allocated
    list,        \* handle_list, without its head
    mark,        \* mark
    dead,        \* dead
    closed,      \* handles that usb_close() has freed
    urb_in,      \* the kernel's view of urb_in
    urb_out,     \* the kernel's view of urb_out
    out_busy,    \* urb_out_busy
    out_ok,      \* urb_out.status = 0
    reader,      \* where the output thread is
    writer,      \* where the input thread is
    left,        \* transfers of the packet that are still to be made
    past,        \* transfers of the packet that usb_write() took for done
    heard,       \* transfers of the packet that the device has accepted
    transport,   \* the atransport's list: "none", "pending", "listed", "gone"
    tLock,       \* whose last reference is dropped under transport_lock
    poll,        \* where the poll thread is: "scan", "register", "kick"
    toScan,      \* directory entries it has still to look at
    missed,      \* entries whose directory could not be read in this scan
    walk         \* handles it has still to look at

vars == <<plugged, name, list, mark, dead, closed, urb_in, urb_out, out_busy,
          out_ok, reader, writer, left, past, heard, transport, tLock,
          poll, toScan, missed, walk>>

handles == <<name, list, closed>>
urbs    == <<urb_in, urb_out, out_busy, out_ok>>
data    == <<left, past, heard>>
scan    == <<poll, toScan, missed, walk>>

Urb == {"idle", "flying", "complete", "failed"}

Writeable(h) == name[h] \notin ReadOnly

OnBus(h) == name[h] \in plugged

-----------------------------------------------------------------------------
(* The transfers of a packet. *)

\* usb_write(): at most 4096 bytes at a time, and a zero marker after a
\* multiple of the packet size.
Transfers(len) ==
    LET count == (len + 4095) \div 4096
        need_zero == ZeroMask # 0 /\ len % ZeroMask = 0
    IN  [i \in 1..count |-> IF i < count THEN 4096 ELSE len - 4096 * (count - 1)]
            \o (IF need_zero THEN <<0>> ELSE <<>>)

\* remote_write(): an amessage of 24 bytes, then the data if there is any.
remote_write(len) ==
    Transfers(24) \o (IF len = 0 THEN <<>> ELSE Transfers(len))

\* What pthread_cond_timedwait() may return, and usb_bulk_write() with it
\* when the transfer failed or the handle is dead: 0 or ETIMEDOUT.
WaitResults == {0, 110}

-----------------------------------------------------------------------------
(* The bus and the kernel's usbfs. *)

\* "Linux will not reassign the device ID as long as the device is open."
Plug(d) ==
    /\ d \notin plugged
    /\ \A h \in Handles : name[h] = d => h \in closed
    /\ plugged' = plugged \cup {d}
    /\ UNCHANGED <<handles, mark, dead, urbs, reader, writer, data, transport,
                   tLock, scan>>

\* What is in flight may stay so: "Sometimes we get stuck in
\* ioctl(USBDEVFS_REAPURB)."
Unplug(d) ==
    /\ d \in plugged
    /\ plugged' = plugged \ {d}
    /\ UNCHANGED <<handles, mark, dead, urbs, reader, writer, data, transport,
                   tLock, scan>>

\* The device sends something, or an error occurs.
CompleteIn(h) ==
    /\ urb_in[h] = "flying"
    /\ \/ OnBus(h) /\ urb_in' = [urb_in EXCEPT ![h] = "complete"]
       \/ urb_in' = [urb_in EXCEPT ![h] = "failed"]
    /\ UNCHANGED <<plugged, handles, mark, dead, urb_out, out_busy, out_ok,
                   reader, writer, data, transport, tLock, scan>>

\* The device accepts the transfer.
CompleteOut(h) ==
    /\ urb_out[h] = "flying" /\ OnBus(h)
    /\ urb_out' = [urb_out EXCEPT ![h] = "complete"]
    /\ heard' = [heard EXCEPT ![h] = Append(@, Head(left[h]))]
    /\ UNCHANGED <<plugged, handles, mark, dead, urb_in, out_busy, out_ok,
                   reader, writer, left, past, transport, tLock, scan>>

\* The endpoint stalls, or the device is gone.
FailOut(h) ==
    /\ urb_out[h] = "flying"
    /\ urb_out' = [urb_out EXCEPT ![h] = "failed"]
    /\ UNCHANGED <<plugged, handles, mark, dead, urb_in, out_busy, out_ok,
                   reader, writer, data, transport, tLock, scan>>

\* USBDEVFS_DISCARDURB "will quietly fail if the txns are not active".
Discard(state) == IF state = "flying" THEN "failed" ELSE state

-----------------------------------------------------------------------------
(* usb_kick(), by the poll thread or by a thread of the transport. *)

\* The pending read is left to the signal.
KickAlarmOnly(h) ==
    \/ h \in dead /\ UNCHANGED <<dead, urbs>>
    \/ /\ h \notin dead
       /\ dead' = dead \cup {h}
       /\ out_busy' = [out_busy EXCEPT ![h] = FALSE]
       /\ out_ok' = [out_ok EXCEPT ![h] = FALSE]
       /\ urb_out' = [urb_out EXCEPT ![h] = Discard(@)]
       /\ UNCHANGED urb_in

\* A writeable handle.  SIGALRM does not help a reader that has not yet
\* entered REAPURB, "this ensures that a reader blocked on REAPURB will get
\* unblocked".
KickWriteable(h) ==
    \/ h \in dead /\ UNCHANGED <<dead, urbs>>
    \/ /\ h \notin dead
       /\ dead' = dead \cup {h}
       /\ urb_in' = [urb_in EXCEPT ![h] = Discard(@)]
       /\ urb_out' = [urb_out EXCEPT ![h] = Discard(@)]
       /\ out_busy' = [out_busy EXCEPT ![h] = FALSE]
       /\ out_ok' = [out_ok EXCEPT ![h] = FALSE]

\* A handle without permission: unregister_usb_transport() needs
\* transport_lock and finds only a transport that is already listed.
KickReadOnly(h) ==
    \/ h \in dead /\ UNCHANGED <<dead, transport>>
    \/ /\ h \notin dead /\ tLock = "none"
       /\ dead' = dead \cup {h}
       /\ transport' = IF transport[h] = "listed"
                       THEN [transport EXCEPT ![h] = "gone"]
                       ELSE transport

-----------------------------------------------------------------------------
(* device_poll_thread(). *)

Listed(d) == {h \in Handles : name[h] = d /\ \E i \in DOMAIN list : list[i] = h}

\* readdir() returns the entries in an order of its own.
NextEntry(d) == d \in toScan /\ d = CHOOSE e \in toScan : TRUE

\* known_device() finds the name and marks the handle.
known_device(d) ==
    /\ poll = "scan" /\ NextEntry(d) /\ d \in plugged /\ Listed(d) # {}
    /\ mark' = mark \cup Listed(d)
    /\ toScan' = toScan \ {d}
    /\ UNCHANGED <<plugged, handles, dead, urbs, reader, writer, data,
                   transport, tLock, poll, missed, walk>>

\* The name is not in the directory, or the device cannot be opened or its
\* interface not claimed: another process may have it.
Skip(d) ==
    /\ poll = "scan" /\ NextEntry(d)
    /\ d \in plugged => Listed(d) = {}
    /\ toScan' = toScan \ {d}
    /\ UNCHANGED <<plugged, handles, mark, dead, urbs, reader, writer, data,
                   transport, tLock, poll, missed, walk>>

\* opendir() fails, for /dev/bus/usb or for the bus the device is on: the
\* scan goes on, or ends, without a look at it.
OpendirFails(d) ==
    /\ poll = "scan" /\ NextEntry(d)
    /\ toScan' = toScan \ {d}
    /\ missed' = missed \cup {d}
    /\ UNCHANGED <<plugged, handles, mark, dead, urbs, reader, writer, data,
                   transport, tLock, poll, walk>>

\* Every name that can be opened is new.
NewUnlessOpen(d) == TRUE

IsNew(d) == Listed(d) = {}

\* "add to the end of the active handles", marked so that it is not "garbage
\* collected after the device scan".
AddUnmarked(h, d) ==
    /\ name' = [name EXCEPT ![h] = d]
    /\ list' = Append(list, h)
    /\ UNCHANGED mark

AddHandle(h, d) ==
    /\ name' = [name EXCEPT ![h] = d]
    /\ list' = Append(list, h)
    /\ mark' = mark \cup {h}

register_device(d, h) ==
    /\ poll = "scan" /\ NextEntry(d) /\ d \in plugged /\ IsNew(d)
    /\ name[h] = "none" /\ h = CHOOSE g \in Handles : name[g] = "none"
    /\ AddHandle(h, d)
    /\ toScan' = toScan \ {d}
    /\ poll' = "register"
    /\ UNCHANGED <<plugged, dead, closed, urbs, reader, writer, data, transport,
                   tLock, missed, walk>>

\* The end of register_device(): the atransport goes onto the pending list.
register_usb_transport(h) ==
    /\ poll = "register" /\ h = Last(list) /\ tLock = "none"
    /\ transport' = [transport EXCEPT ![h] = "pending"]
    /\ poll' = "scan"
    /\ UNCHANGED <<plugged, handles, mark, dead, urbs, reader, writer, data,
                   tLock, toScan, missed, walk>>

\* kick_disconnected_devices() takes usb_lock ...
KickBegin ==
    /\ poll = "scan" /\ toScan = {}
    /\ poll' = "kick"
    /\ walk' = list
    /\ UNCHANGED <<plugged, handles, mark, dead, urbs, reader, writer, data,
                   transport, tLock, toScan, missed>>

\* ... clears a mark or kicks the handle ...
KickNext(h) ==
    /\ poll = "kick" /\ walk # <<>> /\ h = Head(walk)
    /\ walk' = Tail(walk)
    /\ \/ /\ h \in mark
          /\ mark' = mark \ {h}
          /\ UNCHANGED <<dead, urbs, transport>>
       \/ /\ h \notin mark /\ Writeable(h)
          /\ KickWriteable(h)
          /\ UNCHANGED <<mark, transport>>
       \/ /\ h \notin mark /\ ~Writeable(h)
          /\ KickReadOnly(h)
          /\ UNCHANGED <<mark, urbs>>
    /\ UNCHANGED <<plugged, handles, reader, writer, data, tLock, poll, toScan,
                   missed>>

\* ... and releases usb_lock; a second later the scan begins again.
KickEnd ==
    /\ poll = "kick" /\ walk = <<>>
    /\ poll' = "scan"
    /\ toScan' = Devs
    /\ missed' = {}
    /\ UNCHANGED <<plugged, handles, mark, dead, urbs, reader, writer, data,
                   transport, tLock, walk>>

-----------------------------------------------------------------------------
(* The main thread: what AdbTransport calls MainRegister. *)

\* The transport is listed; a usable one gets its two threads.
StartTransport(h) ==
    /\ transport[h] = "pending" /\ tLock = "none"
    /\ transport' = [transport EXCEPT ![h] = "listed"]
    /\ reader' = IF Writeable(h) THEN [reader EXCEPT ![h] = "submit"] ELSE reader
    /\ writer' = IF Writeable(h) THEN [writer EXCEPT ![h] = "idle"] ELSE writer
    /\ UNCHANGED <<plugged, handles, mark, dead, urbs, data, tLock, scan>>

-----------------------------------------------------------------------------
(* The reader: usb_bulk_read(), over and over. *)

\* The URB is submitted, unless the handle is dead or the device gone.
ReadSubmit(h) ==
    /\ reader[h] = "submit"
    /\ \/ /\ h \notin dead /\ OnBus(h)
          /\ urb_in' = [urb_in EXCEPT ![h] = "flying"]
          /\ reader' = [reader EXCEPT ![h] = "reap"]
       \/ /\ h \in dead \/ ~OnBus(h)
          /\ reader' = [reader EXCEPT ![h] = "kick"]
          /\ UNCHANGED urb_in
    /\ UNCHANGED <<plugged, handles, mark, dead, urb_out, out_busy, out_ok,
                   writer, data, transport, tLock, scan>>

\* REAPURB returns urb_in: the next read follows, or the packet is malformed.
ReapIn(h) ==
    /\ reader[h] = "reap" /\ urb_in[h] \in {"complete", "failed"}
    /\ urb_in' = [urb_in EXCEPT ![h] = "idle"]
    /\ \E next \in (IF h \in dead \/ urb_in[h] = "failed" THEN {"kick"}
                    ELSE {"submit", "kick"}) :
          reader' = [reader EXCEPT ![h] = next]
    /\ UNCHANGED <<plugged, handles, mark, dead, urb_out, out_busy, out_ok,
                   writer, data, transport, tLock, scan>>

\* The URB is reaped and nobody is told.
ReapOutQuietly(h) ==
    /\ reader[h] = "reap" /\ urb_out[h] \in {"complete", "failed"}
    /\ urb_out' = [urb_out EXCEPT ![h] = "idle"]
    /\ reader' = IF h \in dead THEN [reader EXCEPT ![h] = "kick"] ELSE reader
    /\ UNCHANGED <<plugged, handles, mark, dead, urb_in, out_busy, out_ok, writer,
                   data, transport, tLock, scan>>

\* REAPURB returns urb_out: the writer is woken, whatever was read so far.
ReapOut(h) ==
    /\ reader[h] = "reap" /\ urb_out[h] \in {"complete", "failed"}
    /\ urb_out' = [urb_out EXCEPT ![h] = "idle"]
    /\ \/ /\ h \in dead
          /\ reader' = [reader EXCEPT ![h] = "kick"]
          /\ UNCHANGED <<out_busy, out_ok>>
       \/ /\ h \notin dead
          /\ out_busy' = [out_busy EXCEPT ![h] = FALSE]
          /\ out_ok' = [out_ok EXCEPT ![h] = urb_out[h] = "complete"]
          /\ UNCHANGED reader
    /\ UNCHANGED <<plugged, handles, mark, dead, urb_in, writer, data,
                   transport, tLock, scan>>

\* REAPURB fails, with ENODEV or, after SIGALRM, with EINTR.
ReapError(h) ==
    /\ reader[h] = "reap"
    /\ ~OnBus(h) \/ h \in dead
    /\ reader' = [reader EXCEPT ![h] = "kick"]
    /\ UNCHANGED <<plugged, handles, mark, dead, urbs, writer, data, transport,
                   tLock, scan>>

-----------------------------------------------------------------------------
(* The writer: a packet from the main thread, one transfer after the other. *)

\* input_thread() gets a packet to send.
WriteBegin(h, len) ==
    /\ writer[h] = "idle"
    /\ writer' = [writer EXCEPT ![h] = "submit"]
    /\ left' = [left EXCEPT ![h] = remote_write(len)]
    /\ past' = [past EXCEPT ![h] = <<>>]
    /\ heard' = [heard EXCEPT ![h] = <<>>]
    /\ UNCHANGED <<plugged, handles, mark, dead, urbs, reader, transport, tLock,
                   scan>>

\* usb_write() returns -1: the rest of the packet is not sent, and
\* input_thread() goes on to the next one.
GiveUp(h) ==
    /\ writer' = [writer EXCEPT ![h] = "idle"]
    /\ left' = [left EXCEPT ![h] = <<>>]
    /\ UNCHANGED past

\* The transfer counts as done.
GoOn(h) ==
    /\ writer' = [writer EXCEPT ![h] = IF Len(left[h]) = 1 THEN "idle" ELSE "submit"]
    /\ left' = [left EXCEPT ![h] = Tail(@)]
    /\ past' = [past EXCEPT ![h] = Append(@, Head(left[h]))]

\* The first half of usb_bulk_write().
WriteSubmit(h) ==
    /\ writer[h] = "submit"
    /\ \/ /\ h \notin dead /\ OnBus(h)
          /\ urb_out' = [urb_out EXCEPT ![h] = "flying"]
          /\ out_busy' = [out_busy EXCEPT ![h] = TRUE]
          /\ out_ok' = [out_ok EXCEPT ![h] = FALSE]
          /\ writer' = [writer EXCEPT ![h] = "wait"]
          /\ UNCHANGED <<left, past>>
       \/ /\ h \in dead \/ ~OnBus(h)
          /\ GiveUp(h)
          /\ UNCHANGED <<urb_out, out_busy, out_ok>>
    /\ UNCHANGED <<plugged, handles, mark, dead, urb_in, reader, heard,
                   transport, tLock, scan>>

\* The wait is over after five seconds, and with it the transfer.
WriteTimesOut(h) ==
    /\ writer[h] = "wait"
    /\ h \in dead \/ GoOn(h)
    /\ h \in dead => GiveUp(h)
    /\ UNCHANGED <<plugged, handles, mark, dead, urbs, reader, heard, transport,
                   tLock, scan>>

\* The second half.  A wait that times out is only begun again; one that ends
\* without a transfer leaves its own result to be compared with the length.
WriteWait(h) ==
    /\ writer[h] = "wait"
    /\ \/ /\ h \notin dead /\ ~out_busy[h] /\ out_ok[h]
          /\ GoOn(h)
       \/ /\ h \in dead \/ (~out_busy[h] /\ ~out_ok[h])
          /\ \E res \in WaitResults :
                IF res = Head(left[h]) THEN GoOn(h) ELSE GiveUp(h)
    /\ UNCHANGED <<plugged, handles, mark, dead, urbs, reader, heard, transport,
                   tLock, scan>>

\* The main thread passes on that the output thread has ended.
WriteEnd(h) ==
    /\ writer[h] = "idle" /\ reader[h] \notin {"submit", "reap"}
    /\ writer' = [writer EXCEPT ![h] = "kick"]
    /\ UNCHANGED <<plugged, handles, mark, dead, urbs, reader, data, transport,
                   tLock, scan>>

-----------------------------------------------------------------------------
(* The end of either thread: kick_transport() and transport_unref(). *)

ReaderKick(h) ==
    /\ reader[h] = "kick"
    /\ KickWriteable(h)
    /\ reader' = [reader EXCEPT ![h] = "unref"]
    /\ UNCHANGED <<plugged, handles, mark, writer, data, transport, tLock, scan>>

WriterKick(h) ==
    /\ writer[h] = "kick"
    /\ KickWriteable(h)
    /\ writer' = [writer EXCEPT ![h] = "unref"]
    /\ UNCHANGED <<plugged, handles, mark, reader, data, transport, tLock, scan>>

\* The reader drops its reference; the last one keeps transport_lock.
ReaderUnref(h) ==
    /\ reader[h] = "unref" /\ tLock = "none"
    /\ reader' = [reader EXCEPT ![h] = "done"]
    /\ tLock' = IF writer[h] = "done" THEN h ELSE tLock
    /\ UNCHANGED <<plugged, handles, mark, dead, urbs, writer, data, transport, scan>>

WriterUnref(h) ==
    /\ writer[h] = "unref" /\ tLock = "none"
    /\ writer' = [writer EXCEPT ![h] = "done"]
    /\ tLock' = IF reader[h] = "done" THEN h ELSE tLock
    /\ UNCHANGED <<plugged, handles, mark, dead, urbs, reader, data, transport, scan>>

\* The handle leaves the list and is freed; its descriptor takes what was in
\* flight with it.
FreeHandle(h) ==
    /\ list' = RemoveAt(list, CHOOSE i \in DOMAIN list : list[i] = h)
    /\ closed' = closed \cup {h}
    /\ mark' = mark \ {h}
    /\ urb_in' = [urb_in EXCEPT ![h] = "idle"]
    /\ urb_out' = [urb_out EXCEPT ![h] = "idle"]
    /\ left' = [left EXCEPT ![h] = <<>>]
    /\ past' = [past EXCEPT ![h] = <<>>]
    /\ heard' = [heard EXCEPT ![h] = <<>>]

\* usb_close() does not wait for usb_lock.
CloseUnlocked(h) ==
    /\ tLock = h
    /\ tLock' = "none"
    /\ FreeHandle(h)
    /\ transport' = [transport EXCEPT ![h] = "gone"]
    /\ UNCHANGED <<plugged, name, dead, out_busy, out_ok, reader, writer, scan>>

\* usb_close(), with transport_lock held and usb_lock needed; the transport
\* is removed by the main thread.
usb_close(h) ==
    /\ tLock = h /\ poll # "kick"
    /\ tLock' = "none"
    /\ FreeHandle(h)
    /\ transport' = [transport EXCEPT ![h] = "gone"]
    /\ UNCHANGED <<plugged, name, dead, out_busy, out_ok, reader, writer, scan>>

-----------------------------------------------------------------------------
Init ==
    /\ plugged = {}
    /\ name = [h \in Handles |-> "none"]
    /\ list = <<>>
    /\ mark = {}
    /\ dead = {}
    /\ closed = {}
    /\ urb_in = [h \in Handles |-> "idle"]
    /\ urb_out = [h \in Handles |-> "idle"]
    /\ out_busy = [h \in Handles |-> FALSE]
    /\ out_ok = [h \in Handles |-> FALSE]
    /\ reader = [h \in Handles |-> "none"]
    /\ writer = [h \in Handles |-> "none"]
    /\ left = [h \in Handles |-> <<>>]
    /\ past = [h \in Handles |-> <<>>]
    /\ heard = [h \in Handles |-> <<>>]
    /\ transport = [h \in Handles |-> "none"]
    /\ tLock = "none"
    /\ poll = "scan"
    /\ toScan = Devs
    /\ missed = {}
    /\ walk = <<>>

Poll ==
    \/ \E d \in Devs : known_device(d) \/ Skip(d) \/ OpendirFails(d)
    \/ \E d \in Devs, h \in Handles : register_device(d, h)
    \/ \E h \in Handles : register_usb_transport(h) \/ KickNext(h)
    \/ KickBegin
    \/ KickEnd

Reader(h) ==
    \/ ReadSubmit(h) \/ ReapIn(h) \/ ReapOut(h)
    \/ ReaderKick(h) \/ ReaderUnref(h)

Writer(h) ==
    \/ WriteSubmit(h) \/ WriteWait(h) \/ WriteEnd(h) \/ WriterKick(h)
    \/ WriterUnref(h)

Next ==
    \/ \E d \in Devs : Plug(d) \/ Unplug(d)
    \/ Poll
    \/ \E h \in Handles :
          \/ CompleteIn(h) \/ CompleteOut(h) \/ FailOut(h) \/ ReapError(h)
          \/ StartTransport(h)
          \/ Reader(h)
          \/ Writer(h)
          \/ usb_close(h)
    \/ \E h \in Handles, len \in Lens : WriteBegin(h, len)

Spec == Init /\ [][Next]_vars

\* Every thread is scheduled.  The poll thread sleeps for a second without
\* usb_lock, so that usb_close() gets it; the SYNC that ends a writer has only
\* the packets before it in the queue; URBs are reaped in the order in which
\* they complete.  Nothing makes devices come, go, answer or accept data, or
\* REAPURB return by itself.
Fairness ==
    /\ WF_vars(Poll)
    /\ \A h \in Handles : /\ WF_vars(StartTransport(h))
                          /\ WF_vars(Reader(h))
                          /\ SF_vars(ReapOut(h))
                          /\ WF_vars(Writer(h))
                          /\ SF_vars(WriteEnd(h))
                          /\ SF_vars(usb_close(h))

FairSpec == Spec /\ Fairness

-----------------------------------------------------------------------------
(* Properties. *)

\* The state has the types of struct usb_handle and of the threads.
TypeOK ==
    /\ plugged \subseteq Devs
    /\ name \in [Handles -> Devs \cup {"none"}]
    /\ list \in Seq(Handles)
    /\ mark \subseteq Handles
    /\ dead \subseteq Handles
    /\ closed \subseteq Handles
    /\ urb_in \in [Handles -> Urb]
    /\ urb_out \in [Handles -> Urb]
    /\ out_busy \in [Handles -> BOOLEAN]
    /\ out_ok \in [Handles -> BOOLEAN]
    /\ reader \in [Handles -> {"none", "submit", "reap", "kick", "unref", "done"}]
    /\ writer \in [Handles -> {"none", "idle", "submit", "wait", "kick", "unref",
                               "done"}]
    /\ left \in [Handles -> Seq(Nat)]
    /\ past \in [Handles -> Seq(Nat)]
    /\ heard \in [Handles -> Seq(Nat)]
    /\ transport \in [Handles -> {"none", "pending", "listed", "gone"}]
    /\ tLock \in Handles \cup {"none"}
    /\ poll \in {"scan", "register", "kick"}
    /\ toScan \subseteq Devs
    /\ missed \subseteq Devs
    /\ walk \in Seq(Handles)

\* However often a device is unplugged, fails and is found again, it has one
\* open handle at most, and handle_list holds exactly the open handles: a
\* second handle could not claim the interface, and a lost one would hide the
\* device from known_device() for good.  usb_close() frees a handle only when
\* nobody is left with it: not the poll thread in the middle of the list, not
\* a thread of the transport.
HandlesRight ==
    LET open == {h \in Handles : name[h] # "none"} \ closed IN
    /\ \A g, h \in open : name[g] = name[h] => g = h
    /\ ToSet(list) = open
    /\ IsInjective(list)
    /\ \A h \in closed :
        /\ h \notin ToSet(walk)
        /\ reader[h] = "done" /\ writer[h] = "done"
        /\ urb_in[h] # "flying" /\ urb_out[h] # "flying"

\* A sequence of transfers without those of 0 and of ETIMEDOUT bytes.
Certain(s) ==
    LET upTo[i \in 0..Len(s)] ==
            IF i = 0 THEN <<>>
            ELSE IF s[i] \in WaitResults THEN upTo[i - 1]
            ELSE Append(upTo[i - 1], s[i])
    IN  upTo[Len(s)]

\* What usb_write() took for done, the device has accepted, in that order,
\* though another thread reaps the transfer and a third one may kick the
\* handle.  Transfers of 0 and of ETIMEDOUT bytes are excepted: what the wait
\* returns looks like their length.
Delivered ==
    \A h \in Handles : IsPrefix(Certain(past[h]), Certain(heard[h]))

\* The poll thread only kicks a handle whose device is gone, or whose directory
\* it could not read in the scan that has just ended: a device it has just
\* registered is not "garbage collected after the device scan", and a scan
\* that failed is forgotten with the next one.  A device that is still there is
\* kicked, with whatever its transport carries, when opendir() fails: nothing
\* in find_usb_device() tells an unreadable directory from an empty one.
KickedWhenGone ==
    [][walk' # walk =>
          \A h \in dead' \ dead : ~OnBus(h) \/ name[h] \in missed]_vars

\* "... remove from the list when we're finally closed and everything will
\* work out fine": the handle of a writeable device that is gone is closed,
\* also if REAPURB does not return by itself.
Closed ==
    \A h \in Handles :
        name[h] # "none" /\ ~OnBus(h) /\ Writeable(h) ~> h \in closed

\* A writer whose transfer has ended does not go on waiting: the reader reaps
\* it, or ends and kicks the handle.
WriterWoken ==
    \A h \in Handles :
        writer[h] = "wait" /\ urb_out[h] \in {"complete", "failed"}
            ~> writer[h] # "wait"
=============================================================================
