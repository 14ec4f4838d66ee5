# Verification of the Android Debug Bridge in android-platform-knife

The repository collects the host tools that talk to an Android device: adb,
fastboot, the image builders they use, and vendor flashing tools, next to much
third-party code. Its largest piece of concurrent logic of its own is adb
(`src/system/core/adb`): two programs that multiplex many byte streams over one
unreliable link. The project models adb from the descriptors to the USB
transfers, and fastboot with libsparse, which share no code with it.

## Inventory

| Part | State it keeps | Operations | What is hard about it |
|---|---|---|---|
| streams: `sockets.c`, `handle_packet()` in `adb.c` | lists of open and closing `asocket`s, their peers, packet queues, wanted events | open, ready, write, close from either end; read and write events; sweep | two event loops and a thread interleave; a close meets data, an answer or another close under way |
| transport: `transport.c` | transport list, `ref_count`, `kicked`, `online`, `sync_token`, two threads for each transport | register, start, pump in and out, kick, unregister, disconnect callbacks | three threads; packets of an earlier session; freeing while others still hold the transport |
| event loop: `fdevent.c` | wanted events, pending list, subprocess fds | install, add, del, set, remove, process | an event found earlier is delivered after interest in it ended; input threads remove fdevents without a lock |
| handshake: `adb.c`, `adb_auth_*.c` | `connection_state`, key list, token | CNXN, AUTH, offline | reconnection, repeated AUTH, prompts answered late |
| local and USB transports: `transport_local.c`, `transport_usb.c`, `usb_linux.c` | emulator slots, device list | connect, disconnect, hot plug, read, write, kick | duplicate registration, a device that vanishes in a transfer |
| file sync: `file_sync_client.c`, `file_sync_service.c` | one transfer | SEND, DATA, DONE, RECV, STAT, LIST | failure in the middle of a transfer |
| jdwp: `jdwp_service.c` | list of processes and trackers | connect, track, hand over a descriptor | trackers that close while being updated |
| fastboot: `engine.c`, `protocol.c` | action queue | command, download, OKAY, FAIL, INFO, DATA | an unexpected answer in a download |
| libsparse: `backed_block.c`, `sparse.c`, `output_file.c` | list of backed blocks | add, merge, split, write, resparse | boundaries of blocks and chunks |
| ext4_utils: `allocate.c`, `extent.c` | block group bitmaps, allocations | allocate, free, extend | last partial group, reserved blocks |
| QSaharaServer: `sahara_protocol.c` | state of the handshake | hello, read, end of image, done | repeated and unexpected packets |

Parts without a module, and the reasons, are in `PROJECT.json` under
`components`.

How the parts of adb interact: the main thread runs `fdevent_loop()`, which
calls one callback at a time. A callback for a descriptor moves data between it
and an `asocket`; a callback for a transport's socket pair hands one packet to
`handle_packet()`. Each transport has an output thread (link to main thread)
and an input thread (main thread to link). When the link fails the output
thread posts SYNC(0, 0); the main thread then runs `handle_offline()` and tells
the input thread, which runs `close_all_sockets()` and exits.

What makes the streams correct: data arrives once, in order, on the right
stream; a sender has one packet under way; no wakeup gets lost; a close reaches
the other end; nothing outlives the transport.

## Modules

| Module | Models | Instance for TLC |
|---|---|---|
| `AdbStreams` | the stream layer at both ends of one transport | `MCAdbStreams` |
| `AdbTransport` | the transports of the server, their threads and lists | `MCAdbTransport` |
| `AdbLifecycle` | abstract: the phases of a link, from start to free | refined by the two above |
| `AdbUsb` | the USB handles below `AdbTransport`: poll thread, transfers, locks | `MCAdbUsb` |
| `AdbFdevent` | the main thread's event loop below `AdbStreams` | `MCAdbFdevent` |
| `AdbAuth` | the handshake that brings a transport online | itself |
| `AdbSync` | file transfer, which runs over one stream | `MCAdbSync` |
| `Sparse` | libsparse's algorithms on lists of blocks (no state) | used by `Fastboot` |
| `Fastboot` | flash, format and flashall, from the image to the device | `MCFastboot` |

`AdbStreamsProofs`, `AdbTransportProofs`, `AdbUsbProofs`, `AdbFdeventProofs`,
`AdbAuthProofs`, `AdbSyncProofs` and `FastbootProofs` hold the proofs about the module of
that name, the last one also those about `Sparse`. `LinkedLists` has the facts about
lists, and the inductions over numbers and sequences, that they share.

`AdbLifecycle` is the contract between the two upper layers: `AdbTransport`
implements it with threads and queues, and each end of `AdbStreams` goes through
it too, so that what the streams assume of their transport is what the
transport provides. The other layers meet at named steps: `StaleReadable` of
`AdbStreams` is what `fdevent_set()` of `AdbFdevent` lets happen; `LinkDown` of
`AdbTransport` is what the reader of `AdbUsb` reports; a stream that delivers
what was written, in order, or breaks with a prefix, is what `StreamIntact` says
and what `AdbSync` starts from.

### AdbStreams and the code

The two ends, "host" and "device", run the same code. `sock[e][i]` is the local
`asocket` that end `e` numbered `i`: `st` tells the list it is on ("none" before
it exists, "freed" after), `peer` is the id in the remote `asocket` that is its
peer (0 for a NULL peer), `rd` and `wr` are the events its fdevent waits for,
`pkts` the unwritten data, `notify` says that `ready` and `close` are the
`*_notify` variants of a smart socket's client. A remote `asocket` holds only an
id and the transport, so it has no state of its own here. `ch[e]` holds the
packets between the other end's `send_packet()` and end `e`'s
`handle_packet()`: socket pairs, pump threads and link in one queue. `sent`,
`out`, `status` and `broken` record what happened at the descriptors.

| Action | Code |
|---|---|
| `ListenerConnect`, `SmartConnect` | a client asks: `listener_event_func()`, end of `smart_socket_enqueue()`, both through `connect_to_remote()` |
| `HandleOpen`, `HandleOkay`, `HandleClse`, `HandleWrte` | the cases of `handle_packet()`, with the `ready`, `close` or `enqueue` they call |
| `HandleSync` | SYNC(0, 0): `handle_offline()`, the disconnect callbacks of the remote sockets, the word to the input thread |
| `SocketReadable`, `SocketDrained`, `SocketBlocked` | `local_socket_event_func()` for FDE_READ and FDE_WRITE, with partial writes, errors and end of file |
| `StaleReadable` | FDE_READ delivered to a closing socket |
| `LinkDown` | the link fails; a prefix of what was under way still arrives |
| `CloseAllSockets` | `close_all_sockets()` on the input thread |

Each callback is one step, as the main thread runs it to its end. Data is a
sequence of units `<<i, n>>`, "the n-th unit that socket i read", which is enough
to tell loss, repetition, reordering and mixing apart.

Abstracted: the service that an OPEN names (it exists or not), the two hosts'
handshake (both ends start online), the checksum, and memory. A socket id is
never reused (the code wraps after 2^32).

### AdbTransport and the code

Each element of `Transports` is one `atransport`, from `calloc()` to `free()`:
`life` says whether it is being initialised, refused, pending, running or freed.
`links` holds the `next` and `prev` pointers of every transport and of the two
list heads, so that an unlink with stale pointers does what it does in the code.
`reg` is the registration socket, `toMain` and `toIn` are the two directions of a
transport's socket pair, `owner` says whose pair a descriptor number belongs to.
`pc[t]` says where the output thread, the input thread and the main thread are
with `t`; `kicks` and `closes` count what has happened to it.

| Action | Code |
|---|---|
| `init_socket_transport`, `register_socket_transport`, `register_usb_transport` | a device is found; slot, serial check, pending list, message to the main thread |
| `MainRegister`, `MainRemove` | `transport_registration_func()` for its two actions |
| `OutputStart`, `OutputPump`, `OutputFail` | `output_thread()` |
| `InputRead`, `InputFail`, `InputSweep` | `input_thread()` |
| `HandleSync`, `HandleCnxn` | the cases of `handle_packet()` that start and end a session |
| `KickTest`, `KickLock`, `KickRun`, `Unref` | `kick_transport()`, split where the lock is taken, and `transport_unref()` |
| `Unregister` | "disconnect:" with a serial, up to the kick |
| `unregister_usb_transport` | the poll thread no longer finds a device without permission |
| `LinkDown` | the device or the connection fails |

A step is what a thread does under `transport_lock`, or between two uses of
shared state.

Abstracted: memory that was freed is not handed out again, and the threads of a
freed transport take no further step (in the code they use freed memory). A read
or write on a descriptor number that another transport owns is treated as a
failure, as the socket it meant is closed. If the main thread has to answer a
SYNC on a pair whose other half is closed, `send_packet()` ends the program; the
model then takes no such step. Packets of streams pass through the pump without
changing what is modelled here. "disconnect:" without a serial does the same to
each network device in turn as `Unregister` does to one.

### AdbUsb and the code

A `usb_handle` is an element of `Handles`, allocated once. `list` is
`handle_list`, `name`, `mark` and `dead` are its fields, `closed` the handles
that `usb_close()` has freed. `urb_in` and `urb_out` are what the kernel knows of
the two transfers ("idle", "flying", "complete" and so on). `reader` and `writer`
say where the output and the input thread of the handle's transport are, `poll`,
`toScan` and `walk` where the poll thread is. `left`, `past` and `heard` are the
transfers of a packet that are still to be made, that `usb_write()` took for
done, and that the device has accepted. `tLock` tells whose last reference is
being dropped, that is, for whom `transport_lock` is held until `usb_close()` is
through.

| Action | Code |
|---|---|
| `known_device`, `Skip`, `register_device`, `register_usb_transport` | one entry of `find_usb_device()` |
| `OpendirFails` | its directory, or all of them, cannot be opened: the device is not looked for in this scan (`missed`) |
| `KickBegin`, `KickNext`, `KickEnd` | `kick_disconnected_devices()`, with usb_lock held from the first to the last; `usb_kick()` |
| `StartTransport` | `transport_registration_func()` for it |
| `ReadSubmit`, `ReapIn`, `ReapOut`, `ReapError` | `usb_bulk_read()`, which also reaps what the writer sent |
| `WriteBegin`, `WriteSubmit`, `WriteWait`, `WriteEnd` | `remote_write()`, `usb_write()` with its zero marker, `usb_bulk_write()`, and the end by SYNC |
| `ReaderKick`, `ReaderUnref`, `WriterKick`, `WriterUnref`, `usb_close` | the ends of the two threads |
| `Plug`, `Unplug`, `CompleteIn`, `CompleteOut`, `FailOut` | the bus and usbfs (external) |

The result of a wait that ends without the transfer is a choice between 0 and
ETIMEDOUT, 110, as `pthread_cond_timedwait()` returns either. Abstracted: the
descriptors that `find_usb_device()` parses (an entry has an adb interface or
not), serial numbers, and what is in the data.

### AdbFdevent and the code

`want`, `events`, `active`, `pending`, `fd` and `force_eof` are the fields of
`fdevent`; `fd_table`, `select_n`, `fds` and `list` the variables of `fdevent.c`, and
`copy` the fd_sets that `select()` is given and returns. `loop` says where the main
thread is, `current` whose callback runs. A callback is several steps, so that it may
do whatever those of `sockets.c` do to any fdevent, its own included, before it
returns. `Sockets` are the fdevents of local sockets, which an input thread may sweep;
the others belong to listeners and transports.

| Action | Code |
|---|---|
| `fdevent_install`, `fdevent_add`, `fdevent_del`, `fdevent_remove` | the same, with `fdevent_set()`, `fdevent_update()` and the table inside |
| `Select`, `SelectReturns`, `fdevent_process` | `fdevent_process()` up to `select()`, with the fake read after EBADF (`fdevent_fd_check()`); its return; the pending list |
| `Dispatch`, `Exhaust`, `Return`, `DispatchEnd` | `fdevent_call_fdfunc()`, a callback that reads or writes all there is, and the end of the round |
| `Subproc` | `fdevent_subproc_event_func()` |
| `subproc_waiter_service` | a shell exits, its descriptor is written to the shell-exit socket |
| `close_all_sockets` | an input thread closes a socket of its transport, at any moment: `fdevent_remove()`, or `fdevent_del()` of FDE_READ |
| `Ready`, `Steal` | the kernel; another thread that closes a descriptor (external) |

`swept` says whether a sweep has happened while the main thread was asleep in
`select()`, or while it was awake ("raced"). In the second case the two threads may
write the same pointers at once; the model still takes each call as one step, and the
properties claim nothing from there on. A descriptor that is closed while `select()`
waits for it may be reported or not, both are modelled.

Abstracted: the allocated size of `fd_table`. FATAL() is `loop = "abort"`.

### AdbAuth and the code

One host with `NumKeys` keys, one device, two queues of packets. `host` and
`device` are the two `connection_state`s. Of a token only one thing matters,
whether it is still the one in `t->token`; each packet about a token carries that.
The framework may connect `MaxConnects` times, each time with a new descriptor:
`framework_fd` is the last one accepted, `auth_fde` the one whose answers are read,
`polled` those that `select()` watches, as one that is replaced in `auth_fde` stays
registered; `ended` are those at end of file and `answer` what the dialog of each says.
`usb_transport` and `needs_retry` are the variables of `adb_auth_client.c`. `proof`
records what put the device online, and `fresh` the descriptors on which the present
connection was the one to put up the dialog. `mute` says that a token or a signature
could not be made and nothing was sent for it.

| Action | Code |
|---|---|
| `HostStart`, `HostConnected`, `HostToken` | `send_connect()`; the host's cases of `handle_packet()` with `adb_auth_nextkey()`; the host may be unable to sign |
| `DeviceConnect`, `DeviceSignature`, `DevicePublicKey` | the device's cases, with `send_auth_request()`, `adb_auth_verify()` and `adb_auth_confirm_key()` |
| `adb_auth_listener`, `EventGone`, `EventOk` | a framework connects, is found gone, or reports what the user said |
| `HostStop`, `Replug`, `FrameworkEnds`, `UserAccepts` | external |

After a replug the `auth_fde` of the freed transport is still in `fd_table`; the model
keeps one `auth_fde` and takes that memory to be as it was.

The cryptography is a library: a signature is right if its key is known and its
token current.

### AdbSync and the code

A client (`pc`, `cmd`, `at`, `pos`, `flag`, ...) gives one command after the other,
each over a session of its own; a service runs for each session (`svc[s]`), also
after its client has gone. A remote path names an inode, so that a service that
still holds a descriptor writes to a file that may have lost its name; `inode`
records how many packets of the new file it has, its size, and whether it bears the
client's time, which is what "adb sync" compares later. A stream holds `Cap` messages
each way. On the paths in `Faulty` `unlink()` and `utime()` may fail, which the service
ignores: `stuck` are the paths where a part stayed or a time is missing because of that,
and a path whose old file could not be removed counts as `contested`.

| Action | Code |
|---|---|
| `Begin`, `Exit` (in others), `Quit` | `do_sync_ls()`, `do_sync_push()`, `do_sync_pull()`, `do_sync_sync()` |
| `Ask`, `StatAnswered`, `Entry`, `Listed`, `Skip` | STAT and LIST of the client, and the lists it builds of them |
| `SendRequest`, `SendData`, `SendDone`, `SendStatus` | `sync_send()`, `write_data_file()` |
| `RecvRequest`, `RecvData` | `sync_recv()`, with `set_time_and_mode()` after it; creating, writing and stamping the local file may fail (`LocalFails`) |
| `do_stat`, `ListBegin`, `ListEntry`, `do_send`, `Open`, `SendPacket`, `SendEnd`, `RecvBegin`, `RecvPacket`, `ServiceEnds` | the service; each step may fail as its system calls may |
| `ClientFails`, `ClientKilled`, `LinkDown` | a broken stream; SIGINT and the transport (external) |

### Sparse, Fastboot and the code

`Sparse` has no variables: a list of backed blocks is a sequence of records with
first block, length in bytes, type and source, and `queue_bb`, `merge_bb`,
`backed_block_split`, `move_chunks_up_to_len`, `write_all_blocks`,
`sparse_file_len` and `sparse_count_chunks` are operators on it. Lengths are the
code's, with blocks of 4096 bytes. `Contents` gives what a list puts where, and
is what the properties compare.

In `Fastboot`, `phase` says where `main()` is: the image is built ("build", for
format) or loaded and imported, split twice ("count", "split") and queued; then the
queue is executed. `todo` is the action queue, `host` where `fb_execute_queue()`
is with its head, `wire` the message under way, `buffer` and `part` what the
device has in memory and in the partition. `lost` are the blocks that were linked behind
a freed `last_used` and are in no list; the program goes on without them. `listed` says
whether `android-info.txt` has the requirement in a form that `setup_requirements()`
reads.

| Action | Code |
|---|---|
| `Add` (with `AddBlock`), `sparse_file_write`, `FormatFails`, `FormatNotLoaded` | `fb_perform_format()` and libsparse's builder |
| `load_buf_fd` (with `get_sparse_limit`), `LoadFails`, `ReadChunk` (with `AddBlock`), `ReadEnd` | loading of the image, normal or sparse |
| `sparse_file_resparse` | one sparse file of either of the two calls |
| `Fill` with `fb_queue_command`, `fb_queue_download`, `Info`, `Checks` | the commands of `main()`, `flash_buf()`, `do_flashall()` |
| `_command_start`, `check_response`, `_command_data`, `Finish` (with `Complete`), `Notice` | one action against the device |
| `DeviceAnswers`, `DeviceReceives`, `DeviceRefuses`, `Unplug` | the bootloader and the cable (external) |

`_command_data` may send less than was announced ("short"): `write_all_blocks()` ignores
a failed transfer or `mmap()`. A download that is answered by OKAY instead of DATA gets
its data all the same (`DownloadOkay`), though the modelled device does not answer so.

Abstracted: the text of commands and answers, blocks in memory or from named files,
crc, gz and normal output. Writing a generated image to its temporary file is taken to
succeed; `write_all_blocks()` would ignore a failure there too.

## Runs

### Streams

Bounds: `MaxId` ids at each end, packets of at most `MaxPayload` units,
`MaxUnits` units from each descriptor. Clients ask at the host only; streams are
symmetric once open. Deadlock is not checked: clients need not ask or speak, so
the system may rest.

| Run | Bounds (ids, payload, units) | Shows |
|---|---|---|
| `streams_two` | 2, 1, 1 | with two streams at once: `WindowOfOne`, `Paired`, `CloseIsLast`, `NoneOutlivesTransport` |
| `streams_data` | 1, 2, 3 | with several packets, partial writes and backlogs: `TypeOK`, `BacklogBounded`, `StreamIntact`, `Lifecycle`; under fairness: `OpenAnswered`, `WriterResumes`, `CloseSpreads` |

Why the bounds are enough: two ids at each end let one stream be confused with
another or with its successor; two units in a packet are the least that a
partial write can split; three units are more than one packet, so that a second
WRTE can meet the backlog of the first. The theorems below remove the bounds for
flow control, pairing, closing and the data.

Fairness: the main loop serves every packet that arrives (`HandlePacket`), the
input thread that was told to stop runs (`CloseAllSockets`), and a descriptor
with unwritten data takes it in the end (`SocketDrained`). The first two are
`select()` and the thread scheduler; the third is an assumption about the
readers of descriptors, without which a stream rightly stalls. Nothing is
assumed of clients and services, nor of the link.

`WriterResumes` and `CloseSpreads` leave out one kind of socket, the orphans
(see "Known disagreements"); for all others they hold.

### Transports

Two transports, each through one life, of the kinds that the table names:

| Run | Transports | Shows |
|---|---|---|
| `transport_phases` | emulator, usb without permission | `ClosedAfterThreads`, `Listed`, `Lifecycle`; under fairness: `Connects`, `Retires` |
| `transport_twice` | two to one network device, both may be disconnected | `KickedOnce`, `RemovedOnce` |

Two transports are enough for the lists, slots and descriptors: every damage
that the code can do is one transport's to another. `MaxFd` is two, one pair for
each, and small enough that a number is reused. Each transport connects once,
so a run covers one session and the start of the next under the same serial.
`transport_twice` uses the symmetry of its two transports; it checks invariants
only. Deadlock is not checked: a server without devices rests.

Fairness here is that each of the three threads is scheduled. The output thread
has to leave its pump only when the device is gone. No device has to appear, to
answer or to fail, and no client has to disconnect.

`Lifecycle` is checked with one socket transport: two of them may take each
other's descriptors (below). `Listed` makes no claim about a device without
permission that was unplugged, nor about a transport that was disconnected;
`ClosedAfterThreads` leaves out the transports that a client may disconnect.

### USB

| Run | Bounds | Shows |
|---|---|---|
| `usb_live` | one device, two handles, lengths 110 and 512, packet size 512 | `Delivered`; under fairness: `Closed`, `WriterWoken`; no deadlock |
| `usb_locks` | two devices, one without permission, two handles, headers only, any scan may miss a device | `HandlesRight`, `KickedWhenGone` |
| `usb_deadlock` | as `usb_locks` | violation: `Closed` fails, as usb_lock and transport_lock are taken in both orders |

Two handles let a device be found again once while its first handle still exists. A
length of 512 is a multiple of the packet size and needs the zero marker, so that a
packet is three transfers; 110 is the length that the result of a wait can be taken for.

Fairness: every thread is scheduled (weak). Strong fairness is used for three
steps that others disable again and again: `ReapOut`, as URBs are reaped in the
order in which they complete; `WriteEnd`, as the SYNC that ends the writer has
only the packets before it in its queue; `usb_close`, as the poll thread sleeps
for a second without usb_lock. Nothing makes a device come, go, answer or take
data, nor REAPURB return by itself; in particular the five seconds of the wait
are not relied on, since they do not end it.

### Event loop

`fdevent`: a listener, a socket with a shell and the shell-exit socket, three
descriptors, 340,000 states. `InSync` and `PendingListed` are invariants, `Served` holds under fairness: the
main thread runs, callbacks return, and the callback of a socket whose descriptor is bad
closes it in the end, as `local_socket_event_func()` does when `read()` fails. Of
listeners and transports that is not assumed: theirs only return. Two fdevents
suffice for one callback to remove, replace or outlive the other, and with three numbers a
number is used again.

`InSync` says nothing once another thread has closed a registered descriptor (`stolen`),
`Served` does. All three claim nothing once a sweep has met the main thread awake; with
the main thread in `select()` a sweep may do all it does. `Served` further excepts the
time while a listener or a transport has a bad descriptor (`ListenersGood`).

A sweep may remove the fdevent of a descriptor that `select()` is about to report, and
`fdevent_process()` then ends the server with FATAL(): `InSync` names that case
(`swept = "asleep"`), and fails on this instance without it.

### Authentication

`auth`: two keys, three restarts of the server, three connections of the framework, every
set of keys that the device may know: 1.4 million states. `OnlineProven`, `Prompted` and
`Agreed` are invariants, `KnownConnects`
holds when both programs run (weak fairness of `Host` and of `Device`); nobody
has to accept a dialog. With two keys there is a first, a last and one that follows; each
restart adds a CNXN to what is still under way, and three let old tokens,
signatures and a dialog meet. Three connections let a second one replace the first, the
first end, and another come after both. `Prompted`, `Agreed` and `KnownConnects` except
handshakes that cross each other (`crossed`), `OnlineProven` does not; `KnownConnects`
also excepts a token or a signature that could not be made (`mute`). `OnlineProven` tells
an OK to a dialog of this connection from one to an earlier dialog (`proof`), and admits
both, as the code does. Deadlock is not checked: a handshake that fell silent rests.

### File sync

`sync`: two files of one packet each, two sessions one after the other, room for two
messages, every command, and one path on which `unlink()` and `utime()` may fail: 3.3
million states. Two files are the least for which an
answer can be taken for the next file's; two sessions are the least in
which a service survives its client. One packet is enough because what can go
wrong goes wrong before, in or after it. `InStep`, `Honest`, `NoPartLeft` and
`NeverBothWait` are invariants; no fairness is assumed. `SyncAssumption` asks
that the two directions hold an answer for each file. Deadlock is not checked: a user need not
give a command; `NeverBothWait` says more.

### fastboot and libsparse

| Run | Bounds | Shows |
|---|---|---|
| `fastboot` | images made of up to 4 of 8 extents in every order, and 16 normal images; at most 2 blocks lost (`MaxLost`); limit 41040 bytes | `ListRight`, `NothingLost`, `Announced`, `WithinLimit`, `Flashed`, `Suited` |
| `sparse_limit` | 6 blocks with gaps, none lost; limit 37004 bytes | violation: `FitsLimit` |

The extents touch and merge, touch and do not, leave gaps, have to be split, or end
in the middle of a block; the limit is one at which the images need one to three
sparse files and a block is split at a place that is not the end of an
extent. Two lost blocks show that the list stays right after a first loss; `Flashed` with
`WholeImage` for `ImageContents` fails on this instance. No fairness is assumed: a device need not answer, and fastboot waits for it for ever.

## Known disagreements

Two are runs that TLC must refute: `usb_deadlock` and `sparse_limit` (`findings` in
`PROJECT.json`). The others were met while modelling; each
is an exception that a property names, or an assumption of a module. Unless the list says
otherwise the model has the code's behaviour.

Streams and transports:

* A smart socket's client that waits for its answer is swept away without OKAY or FAIL
  when the transport ends (`sockets.c:137`, `:616`).
* A service opened by a request that came together with its end of file is left
  open: the orphan (`sockets.c:395`).
* `fdevent_set()` keeps the events that are no longer wanted and drops those that are
  (`fdevent.c:637`); a stale read event then reaches a closing socket and discards
  what it still had to write.
* "disconnect:" drops a reference that nobody took (`transport.c:1071`), so that a
  transport may be closed and freed under a thread that uses it.
* A transport that was unlinked is unlinked again when freed, through stale
  pointers (`transport.c:599`); this can cut another one out of the list.
* A refused second connection to an emulator leaves a slot that points to freed
  memory (`transport.c:1028`).
* The descriptor of a socket transport is closed by `remote_close()`
  (`transport_local.c:359`) and again when the transport is freed, and may have been
  handed out since.
* The recipient of a CLSE answers with a CLSE, which `protocol.txt` says it
  should not; harmless, as `find_local_socket()` drops the answer.

USB:

* What the wait returned, 0 or 110, is compared with the length that was to be sent
  (`usb_linux.c:363`): a transfer of just that many bytes counts as done when it failed.
* "time out after five seconds" does not happen, as the test is `res < 0`.
* The handle of a device without permission is never closed.
* When `opendir()` fails, for want of descriptors say, `find_usb_device()` finds no
  devices below that directory, and `kick_disconnected_devices()` kicks those that are
  in use although they are there (`usb_linux.c:141`, `:148`). `KickedWhenGone` excepts
  them for that scan.

Event loop:

* `close_all_sockets()` on an input thread (`transport.c:358`) removes fdevents and changes
  the fd_sets and the pending list without a lock that the main thread takes. Met between
  `select()` and the loop over its result it leads to FATAL() (`fdevent.c:404`); met while
  the main thread links or dequeues, to anything. The model has each call as one step;
  the properties end there.
* A listener or a transport's socket whose descriptor is bad stays registered:
  `transport_socket_events()` and the accept callbacks only return (`transport.c:203`,
  `adb.c:682`, `:708`), `select()` fails with EBADF for ever and no other descriptor is
  served. `Served` excepts it.
* "Already reallocated?" in `fdevent_subproc_event_func()` (`fdevent.c:536`) compares
  an fdevent's descriptor with the number under which it was just found, and is never
  true while the table is right.
* `fdevent_register()` clears `sizeof(int)` for each new entry of a table of pointers
  (`fdevent.c:441`). The model's table is large enough from the start.

Authentication:

* When handshakes cross, host and device may be left in different states, and no
  step of either brings them together.
* A framework that ends while no usb transport is known leaves its descriptor at end of
  file (`adb_auth_client.c:179`).
* A prompt written to a framework that has just ended is lost (`:219`), until
  another framework connects.
* A host that cannot sign (`adb.c:379`) and a device that cannot make a token
  (`adb.c:359`) send nothing, and the handshake stays where it is, also for a known key.
* An OK is an answer to whatever dialog was up: one that the user gave for an earlier
  connection, before a replug or a new CNXN, puts the present host online as soon as it
  has offered its own key (`adb_auth_client.c:184`).
* A second framework's connection leaves the first one registered; when the first ends,
  `framework_fd` becomes -1 and the second is not asked (`:178`, `:243`).

File sync:

* The service of a client that was killed goes on, and may unlink or stamp the file
  that the next client has just sent (`file_sync_service.c:286`).
* With more files than both directions have room for, "adb sync" and its service wait for
  each other for ever (`file_sync_client.c:712`).
* A pull that fails half way prints a message and exits with 0; a local file that
  cannot be read to its end is sent short and stamped as complete (`:366`).
* The results of `adb_unlink()` and `utime()` are ignored (`file_sync_service.c:261`,
  `:274`, `:286`, `:378`): a part may stay under its name, a complete file may miss its
  time, and an old file that could not be removed is written over without being
  truncated. `NoPartLeft` and `Honest` except the paths on which that has happened.

fastboot and libsparse:

* `last_used` may point to a block that `merge_bb()` has freed (`backed_block.c:266`); what
  the next `queue_bb()` finds there depends on the allocator. Linked behind it, a block is
  in no list, and the rest is flashed with status 0. `ListRight`,
  `NothingLost` and `Flashed` speak of the blocks that the list has, before and after such
  a loss. If the freed block still has a successor and the new block takes that in, a
  block of the list is freed; phase "corrupt" stands for this and is not followed.
* An image that has lost its last, partial block passes the assertion below, and then has
  a wrong header: `Announced` excepts it (`TailLost`).
* A failed transfer or `mmap()` of a sparse file is not noticed by `write_all_blocks()`
  (`sparse.c:116`, `:136`, `output_file.c:721`); the device gets less than was announced,
  and that it refuses is an assumption about it.
* A requirement without "=", or in a last line without a newline, is not read
  (`fastboot.c:486`, `:530`); `Suited` speaks of those that were.
* An image whose length is not a multiple of the block size runs into
  `assert(pad >= 0)` if its end is in use (`sparse.c:144`).
* With a limit of a few blocks the first part that is split off has no block
  (`LimitAssumption` excludes it).
* A format that fails after the erase was queued leaves status 0
  (`fastboot.c:979`); `Flashed` speaks of images that were loaded.

## Hazards without a property

* `sockets.c:102`: ids wrap at 2^32 and may then repeat one in use. Ids are
  never reused in the model.
* `sockets.c:168`: `local_socket_enqueue()` frees a socket and returns 1; it matters
  to two local sockets peered with each other, which are not modelled.
* `sockets.c:134`, `transport.c:1057`: an object found under a lock and used after
  it. The main thread is the only one that frees these, except for the sweep by
  the input thread, which in `AdbStreams` is one step for all sockets and in `AdbFdevent`
  one for each.
* `transport.c:242`: a full socket pair makes `send_packet()` end the program; the
  queues of the model are unbounded.
* `transport.c:88`: a disconnect callback that unlinks the next one; callbacks
  are not modelled.
* `usb_linux.c:552`: `usb_kick()` of a device without permission before its transport is
  listed; `AdbUsb` models it, and it is one way to the handle that is never closed.

## Proofs

### Streams

All for every `MaxId`, `MaxPayload` and `MaxUnits`, from `BoundsAssumption`
(the first two positive, the clients at one of the two ends).

* `TypeCorrect`: `Spec => []TypeOK`. Inductive as it stands; one lemma for each
  helper and each action. What it says beyond bookkeeping is that no packet
  outgrows MAX_PAYLOAD and that ids from packets are safe to look up.
* `WindowHolds`: `Spec => []WindowOfOne`. `BacklogHolds`: `Spec =>
  []BacklogBounded`. `PeerHolds`: `Spec => []WriterHasPeer`.

The last three follow from one inductive invariant, `WindowInv`. `WindowOfOne`
says that the permission to send of a stream is in at most one of four places:
the socket that may read, an OPEN or WRTE under way, the other end's queue, an
OKAY under way. Each action moves it from one place to the next or removes it.
Alone that is not inductive. An id not yet handed out must have no permission
anywhere, or the OPEN that first uses it would be a second one; a socket that
waits to write must have unwritten data, or draining it would invent an OKAY; a
socket with unwritten data must have a peer, or the first OKAY could adopt that
data. The bound on the backlog is then a consequence: a WRTE that is being
handled is the only place of its stream, so the queue it may join is empty.

In the proofs `Keeps(e, i)` says that a step leaves socket `i` of end `e` with at
most the permissions it had. `OwnKeeps` and `PeerKeeps` show it for everything a
step of end `e` does not touch; the lemma of each action then treats only the
one socket whose permission moves.

* `PairsHold`: `Spec => []Paired`. `LastHolds`: `Spec => []CloseIsLast`.
  `NoneOutlives`: `Spec => []NoneOutlivesTransport`. `StreamsLifecycle`: `Spec =>
  Lifecycle`, the refinement of `AdbLifecycle` by both ends.

These four follow from `PairInv`. A socket forgets its peer when it
closes, while packets that name both are still under way, and such a packet may pair the
other socket again with what is gone; so the matching that is inductive is not that of the
`peer` fields but of every place that names two sockets together, packets in both
directions included (`Linked`). No socket is linked to two (`MatchInv`), and one whose
OPEN is still under way is linked to none, or the answer would be its second link.
`ClosedInv` says that a CLSE under way comes from a socket that is no longer open, which
is why nothing can follow it; `PhaseInv` that SYNC(0, 0) is the last packet of a link
that is down, which is why the sweep finds everything.

* `IntactHolds`: `Spec => []StreamIntact`.

`DataInv` extends what `StreamIntact` says of connected sockets to linked ones: between
the OKAY that a service sends and its arrival, the service may already have sent data.
`Order` says that this data stays behind the OKAY, or `handle_packet()` would drop it;
`BlankInv` that a socket before its OPEN arrives has neither sent nor received, so that a
new pair begins with nothing on both sides. No induction over data is needed, since the
window of one leaves at most one packet to speak of, and appending to either side of an
equation of sequences is a fact about `\o` alone.

### Transports

All for every finite set of transports of every kind, from `KindsAssumption`
(which kinds a transport may have) and `LimitsAssumption`.

* `TypeCorrect`: `Spec => []TypeOK`. The pointers of both lists stay among the
  transports and the heads, and a slot only ever holds an emulator.
* `KickHolds`: `Spec => []KickedOnce`. The invariant `KickInv` adds what the
  counter alone does not say: as long as `kicked` is not set nobody has kicked
  or is about to, and as long as somebody is about to kick he is the only one
  and nobody has done so yet. The second look at `kicked` under the lock is what
  preserves it; the first, unlocked look is only an optimisation.
* `ClosedHolds`: `Spec => []ClosedAfterThreads`. `RefInv` says that a transport
  that no client disconnects has as many references as it has threads that have
  not yet dropped theirs, so that the count is 0 exactly when both are done. It
  needs `RegisterInv`: a message to start `t` is in the registration socket at
  most once and only while `t` is pending, or a second start would set the count
  to 2 again.
* `RemovedHolds`: `Spec => []RemovedOnce`, for the transports that a client disconnects
  too. `OnceInv` adds that `t->close()` has not run as long as references are left and
  before the count was set, so that only the step that brings it down to 0 runs it, and
  that the message to free `t` is there at most once and only after that. A count that
  went below 0 never comes back to it.
* `ListedHolds`: `Disconnect = {}` implies `Spec => []Listed`. `Listed` walks both lists,
  pointer by pointer; `ListInv` says instead that the pointers from each head and back to
  it are a ring of some length (`Ring`) through the pending transports and through those
  that run (`Circles`). An insertion makes a ring longer by one, an unlink shorter; that a
  walk meets exactly the entries of a ring, from either side, is a lemma about rings alone. The hypothesis is needed: a transport that a client has
  disconnected is unlinked a second time when it is freed, through pointers that are by
  then stale, and cuts others out (see "Known disagreements"). A transport of a device
  without permission that was unplugged is never freed, and so unlinked only once.
* `TransportLifecycle`: `Disconnect = {}` and `SocketAlone` imply `Spec => Lifecycle`, the
  refinement of `AdbLifecycle`. `TalkInv` follows what the three threads tell each other:
  SYNC(0,0) is the last packet of the output thread, and once the main thread has
  passed it on it has heard everything and the transport is offline for good; so only a
  transport that is offline is swept. `PairInv` keeps the socket pair its own until it
  is closed; otherwise the input thread would fail and sweep before the main thread had
  handled the offline. With it, `InputFail` never happens. `SocketAlone` says that a
  transport with a socket is the only one that opens descriptors: its `t->fd` is closed
  by `remote_close()` and again when it is freed, and may be another's by then (see
  "Known disagreements"). USB transports, however many, meet it as they are;
  `transport_phases` has a socket transport that is alone.

### Authentication

All for every number of keys, restarts and connections of the framework, from
`AuthAssumption` (they are naturals).

* `TypeCorrect`: `Spec => []TypeOK`. `t->key` stays in the list.
* `ProvenHolds`: `Spec => []OnlineProven`. It is inductive as it stands: only four
  actions touch `online`, and each that sets it has a reason: the current token, or
  `usb_transport`, which is set by a public key and reset by every later CNXN and by a replug.
* `TokenHolds`: `Spec => []TokenOnce`, with `TokenOnce` defined beside the proof. The
  right to answer the current token is like a stream's permission to send: it is a
  TOKEN on its way to the host or one packet on its way back, never both, and a new
  token takes it from wherever it was. This is what makes a signature good for one
  use. It needs `TypeOK` for the packets' fields, and two facts about queues: the
  first packet's leaving (`TailCurrent`) and a packet's joining (`AppendCurrent`).
* `PromptedHolds`: `Spec => []Prompted`. `AgreedHolds`: `Spec => []Agreed`. Both from
  `HandshakeInv`: as long as no handshakes crossed, the two queues hold one packet
  together, and the handshake is in one of six situations (`Quiet`, `Begun`, `Asked`,
  `Signed`, `Offered`, `Accepted`), each of which says which keys the device has refused
  so far. `RetryInv` adds that a key that waits for a framework was the last.

### USB

For every set of devices and handles, every packet size and every length of data,
from `DevicesAssumption`.

* `TypeCorrect`: `Spec => []TypeOK`. That what is left of a packet is never empty
  when the next transfer is taken from it rests on `RemoteWriteType`: the transfers
  that `usb_write()` makes of a message have lengths and are at least one.
* `HandlesHold`: `Spec => []HandlesRight`.
* `KickedHolds`: `Spec => KickedWhenGone`, an action property.

One invariant, `UsbInv`, serves all three. `HandlesRight` alone does not say why the
last reference finds an open handle (`ThreadInvOf`: threads exist only after the
transport was listed, which is after the handle was named, and whoever holds
transport_lock for `h` has both threads done), nor that the handle
`register_usb_transport()` speaks of is still the last in the list although
`usb_close()` may shorten it between the two (`RegisterInv`, with `WithoutLast`), nor
that usb_lock keeps the rest of the walk among the open handles (`WalkInv`). For the
kick, `MarkInv` follows the scan: a handle whose device is there is marked, or its
name is still to be looked at or in a directory that could not be read (`missed`); once
the scan is over only the first and the last remain. A
device that is plugged in meanwhile cannot break it, as its number is not given
out again while a handle has it open.

* `DeliveredHolds`: `Spec => []Delivered`.

`Delivered` compares what the writer has passed with what the device has accepted, without
the transfers whose length can be taken for the result of the wait. `SentInv` ties the two
to the state of the transfer: they agree as long as nothing is under way (`Even`); while
the device has accepted a transfer that the writer has not been told of, the device is one
ahead (`Ahead`); and after a transfer of unknown outcome the writer is at its end and adds
no more. That the filter passes over an entry or keeps it (`Certain` of a sequence with one
more entry) is the only fact about it that is needed, and is an unfolding of its recursion.

### Event loop

For every set of fdevents and descriptors, from the assumption of `AdbFdevent`.

* `TypeCorrect`: `Spec => []TypeOK`.
* `SyncHolds`: `Spec => []InSync`. `PendingHolds`: `Spec => []PendingListed`.

Both from `LoopInv`. `InSync` is silent once another thread has closed a registered
descriptor, but the pending list must not go wrong even then; so `LoopInv` keeps the
half of the table's order that survives (`TableInv`: an entry is an active fdevent
with that number). `NotifyInv` says that the shell-exit socket is never called
without something to read, or the number it reads would be stale. `CopyInv` follows the
fd_sets through `select()`: what it was asked for is registered as long as no socket was
swept, so that only a sweep leads to FATAL(). The proofs take each call of `fdevent.c` as
one step, on either thread; where that is not what the code does (`swept = "raced"`) the
theorems claim nothing.

### File sync

For every number of files, packets of a file and sessions and every capacity of the
stream, from `SyncAssumption` (a capacity of at least 2, and room for one command per
file in both directions together).

* `TypeCorrect`: `Spec => []TypeOK`. `InStepHolds`: `Spec => []InStep`.
  `NoWaitHolds`: `Spec => []NeverBothWait`.
* `NoPartHolds`: `Spec => []NoPartLeft`. `HonestHolds`: `Spec => []Honest`.

The first three follow from `Shape` and `Talk`. `InStep` speaks of the first message
that the client reads, and `NeverBothWait` of the lengths of the queues; neither survives
a step without knowing everything that is under way behind it. `Talk` says what that is in
the client's own session, one formula for each phase of a command (`StatTalk`,
`ListTalk`, `SendTalk`, `RecvTalk`, and `RestTalk` between commands): which requests
wait, what the service is doing, and which answers those two will still make, so that
requests, work and answers add up. A link that breaks leaves a prefix of what `Talk`
describes. `Shape` has the types, and that sessions not yet begun have sent and
received nothing.

`NoPartLeft` needs `Shape` and `FileInv`: a file that only one service has worked on since
it was last removed or complete has at most one open descriptor, that descriptor is of the
inode the path names, and that inode has no modification time yet; and when nobody works
on it, it is whole, gone, or among those that could not be removed or stamped (`stuck`). The proof has one
lemma for what a step of a service does to files (`Effects`) and leaves the client's
steps to the fact that they touch none.

`Honest` compares the client's exit status with the remote files, which meet only through
messages; its invariant, `Faith`, follows what the client will believe back to where it was
made true. `DoneInv` has what the command may already count on: the files it has passed are
complete and nobody works on them. A file gets there on an OKAY or a DONE (`SendInv`,
`RecvInv`: one under way still tells the truth) or because it is skipped (`FlagInv`, and
`StatInv` for the answer under way that will set the flag). That OKAY means all packets is
`SeqInv`: while the link holds, what is written and what is under way are the packets of the
file in order and without a gap, so that when DONE is taken all of them are in the inode.
That an equal size and time mean a complete file is `Stock`: an inode that a service made
has no other data than the new file, and never more than that. `QuitInv` keeps it so once
the client has gone: a command that ended well has left nothing in its session but QUIT.

### fastboot and libsparse

For every set of images and extents and every limit, from three assumptions:
`LimitAssumption` (room for a few blocks), `ExtentsAssumption` (the regions that a
generator adds are in the image and do not overlap, which `sparse.h` demands, and their
blocks have addresses of their own) and
`ImagesAssumption` (a normal image is whole blocks and a tail shorter than one).

* `ImageKept`: `Spec => []ImageInv`. From it `ListRightHolds`: `Spec => []ListRight`,
  `NothingLostHolds`: `Spec => []NothingLost` and `WithinLimitHolds`: `Spec =>
  []WithinLimit`.

`ImageInv` has one part for each phase: the list that is built has what was added and not
lost (`Built`), the list that is read has the chunks read so far, again without the lost
ones (`ReadUpTo`), and so on through the two
calls of `sparse_file_resparse()` (`CountOk`, `SplitOk`) to the queue (`Ready`). Its
steps rest on lemmas about the operators of `Sparse`: `merge_bb()` and `queue_bb()` keep a
list ordered and lose nothing, wherever the search began; splitting a block leaves its
cells; what is written and read back is what was in the list, padded. The hard part is
that the second call makes as many sparse files as the first, as it starts from
blocks that the first one has cut, put back and not merged. `Cut` and `Turns` describe a
list that the first call has gone through, and `CutAgain` shows that
`move_chunks_up_to_len()` takes from it what it took before: a block that was cut to fit
fits exactly, and the next one does not.

* `AnnouncedHolds`: `Spec => []Announced`. `FileSize` computes what `sparse_file_len()`
  and `sparse_count_chunks()` return from the gaps and the blocks of a list, and
  `WritesBytes` adds up what `output_file.c` writes; they are equal only if the image ends
  with a block. If it does not, some sparse file holds its last block (`TailInv`, an
  invariant of its own) and stops at the assertion, so that it is never queued, unless that
block was lost (`TailLost`). `WriteGoes`
  is one call of the write callback: bytes in are bytes sent and bytes in the buffer, and
  what it sends is a multiple of USB_BUF_SIZE.
* `ExecKept`: `Spec => []ExecInv`. From it `FlashedHolds`: `Spec => []Flashed` and
  `SuitedHolds`: `Spec => []Suited`. While the queue is executed there is a queue that
  it was, and a number of actions that are done (`Running`): what is left is the rest of
  it, the partition holds the parts flashed so far (`Wrote`), and the device's buffer the
  one downloaded last (`Held`). For `Suited` the checks are in front of everything that
  writes, so that whoever gets past them has saved the product and met the requirement
  (`Fit`).

### What is proved of the lists

`LinkedLists` says when a sequence links a set (`Links(s, S)`: its members, once each),
and what taking an entry out, taking the first, adding to the end and joining two lists
do to that. A leaf about sequences sees only the lemma it needs, which keeps
`UsbInv` and `LoopInv` to one short step for each action.

The library's induction theorems have an operator as parameter and cannot be used.
`BoundedInduction` states induction over `0..n` for a set instead (0 is in it, and with `i
- 1` every `i`), and follows from the least counterexample (`Least`). With it what a recursive
function computes is proved as follows: some function with the right equations exists
(`Recursion`, `SumsExist`, `JoinsExist`), so the one that CHOOSE picks has them too, and two
functions with the same equations agree.

### Proved and not run

`TypeOK` of `AdbTransport`, `AdbAuth`, `AdbUsb`, `AdbFdevent` and `AdbSync`, and
`WriterHasPeer` of `AdbStreams`: no run spends time on them.

### Only model-checked

Liveness under fairness (`OpenAnswered`, `WriterResumes`, `CloseSpreads`, `Connects`,
`Retires`, `Closed`, `WriterWoken`, `Served`, `KnownConnects`) is beyond the prover.

## Not modelled

* Smart sockets before the OPEN, host services, device trackers, disconnect
  callbacks, `acquire_one_transport()`: parsing of requests and replies, and two
  local sockets peered with each other.
* `jdwp_service.c`: only in the program that runs on the device, which is not built
  here. The same holds for `usb_linux_client.c`.
* `commandline.c`, `adb_client.c`, `main()`: argument parsing, printing, and one blocking
  request at a time. `sysdeps_win32.c`, `usb_windows.c`: operating system glue.
* `ext4_utils`, `mkbootimg`, `cpio`, `libzipfile`: sequential writers and readers of
  file formats.
* `QSaharaServer`, `fh_loader`, `emmcdl`: vendor tools, sequential, driven by the device.
* putty, zlib, pcre, lua, libsepol, libselinux, dosfstools, the Windows USB API and the
  support libraries: third-party code.

## Plan

Done: every invariant and every action property that a run checks is proved, for the
streams, the transports, USB handles, the event loop, authentication, file sync, libsparse
and fastboot; so is that the streams, and the transports that no client disconnects,
implement the phases of a link.

1. Smart sockets, host services and device trackers: two local sockets peered
   with each other, disconnect callbacks, and the lifetime of each.
2. An abstract pair of pipes, refined by `AdbStreams`.
3. ext4 block allocation as an algorithm; the Sahara handshake; jdwp.
