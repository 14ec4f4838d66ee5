------------------------------ MODULE Fastboot ------------------------------
(***************************************************************************)
(* "fastboot flash", "format" and "flashall" of one partition: the image   *)
(* is read, or made by libsparse, split into sparse files that the device  *)
(* says it can take, and queued; the queue is then executed, one command   *)
(* and its answer after the other.                                         *)
(*                                                                         *)
(* The sources are fastboot/fastboot.c, engine.c and protocol.c, and       *)
(* libsparse (module Sparse).  The device, its link and the user are       *)
(* external.                                                               *)
(***************************************************************************)
EXTENDS Sparse

CONSTANTS
    Images,   \* normal images: the fill value of each block, 0 for data, and
              \* the bytes of a last block that is not whole
    Extents,  \* what the generator of a file system may add to an image
    MaxAdds,  \* how many of them it adds at most
    MaxLost,  \* how many blocks a list loses at most
    ImageLen, \* the length of the image it makes
    Limit     \* what the device can take in one download, in bytes

\* With less room, move_chunks_up_to_len() splits off parts without a block.
ASSUME LimitAssumption == Limit \in Nat /\ Limit >= overhead + 8 * block_size

\* The regions do not overlap, as sparse.h demands, and are in the image; the
\* id of a block stands for its address.
ASSUME ExtentsAssumption ==
    /\ MaxAdds \in Nat /\ MaxLost \in Nat
    /\ ImageLen \in Nat /\ ImageLen % block_size = 0
    /\ Extents \subseteq [id : Nat \ {0}, type : {"fd", "fill"}, block : Nat,
                          len : Nat \ {0}, src : Nat]
    /\ \A e \in Extents : EndOf(e) * block_size <= ImageLen
    /\ \A d, e \in Extents : d # e => EndOf(d) <= e.block \/ EndOf(e) <= d.block
    /\ \A d, e \in Extents : d # e => d.id # e.id

ASSUME ImagesAssumption == Images \subseteq [blocks : Seq(Nat), tail : 0..(block_size - 1)]

VARIABLES
    command,  \* "flash", "format" or "flashall"
    listed,   \* does android-info.txt have the requirement, in a whole line with "="?
    phase,    \* of main()
    added,    \* what the generator has added
    file,     \* the image file: its chunks, its size, and the length of the image
    in_s,     \* the sparse file that is built, read, or split
    lost,     \* the blocks that were added to it behind memory that was freed
    tmp,      \* tmp of sparse_file_resparse()
    out_s,    \* the sparse files to send
    count,    \* c of sparse_file_resparse()
    files,    \* what the first sparse_file_resparse() returned
    todo,     \* the actions that are left in the queue
    host,     \* where fb_execute_queue() is with the first of them
    status,   \* of the program: 0 or 1
    product,  \* cur_product
    wire,     \* the message between host and device
    buffer,   \* what the device has downloaded
    part,     \* what the partition holds of the image
    device    \* is it there, its product, and does it meet the requirement

image == <<command, listed, added, file>>
split == <<in_s, lost, tmp, out_s, count, files>>
queue == <<todo, host, status, product>>
target == <<wire, buffer, part, device>>
vars == <<phase, image, split, queue, target>>

NoFile == [chunks |-> <<>>, size |-> 0, len |-> 0]
NoList == [list |-> <<>>, last_used |-> 0]
Nothing == [what |-> "nothing", data |-> 0]

\* A normal file; sparse_file_read_normal() looks at it block by block.
NormalFile(im) ==
    LET n == Len(im.blocks) + (IF im.tail > 0 THEN 1 ELSE 0)
        value(i) == IF i > Len(im.blocks) THEN 0 ELSE im.blocks[i]
        bytes(i) == IF i > Len(im.blocks) THEN im.tail ELSE block_size
        len == Len(im.blocks) * block_size + im.tail
    IN  [chunks |-> [i \in 1..n |->
                       [type |-> IF value(i) = 0 THEN "fd" ELSE "fill",
                        len |-> bytes(i), src |-> value(i),
                        off |-> (i - 1) * block_size]],
         size |-> len, len |-> len]

WholeImage == FileContents(file.chunks, Len(file.chunks))

\* What the list does not know of.
Missing == UNION {Cells(b) : b \in lost}

ImageContents == WholeImage \ Missing

Init ==
    /\ \/ command = "format" /\ phase = "build" /\ file = NoFile
       \/ /\ command \in {"flash", "flashall"} /\ phase = "load"
          /\ \E im \in Images : file = NormalFile(im)
    /\ added = {} /\ in_s = NoList /\ lost = {} /\ tmp = <<>> /\ out_s = <<>>
    /\ count = 0 /\ files = 0
    /\ todo = <<>> /\ host = "next" /\ status = 0 /\ product = "none"
    /\ wire = "none" /\ buffer = Nothing /\ part = {}
    /\ device \in [up : {TRUE}, product : {"a", "b"}, meets : BOOLEAN]
    /\ listed \in BOOLEAN
    /\ command # "flashall" => listed /\ device.product = "a" /\ device.meets

-----------------------------------------------------------------------------
(* fb_perform_format(): the image is made, in whatever order, and written. *)

\* backed_block_add_*(), for a build or a read.  Looking at a last_used that
\* was freed may find anything.  If it is the memory of a block of the list,
\* or looks like a later block, the new block gets to its place.  Otherwise it
\* is linked behind the freed one: the list does not have it, and the program
\* goes on, from a last_used that is not in the list either.  If the freed
\* block still has a successor in the list, and the new block takes it in,
\* then a block of the list is freed: what the program does after that is not
\* modelled.
AddBlock(bb, next) ==
    \/ in_s' = queue_bb(in_s, bb) /\ phase' = next /\ UNCHANGED lost
    \/ /\ Dangling(in_s, bb) /\ Cardinality(lost) < MaxLost
       /\ in_s' = [in_s EXCEPT !.last_used = bb.id] /\ phase' = next
       /\ lost' = lost \union {bb}
    \/ /\ Dangling(in_s, bb) /\ Cardinality(lost) < MaxLost
       /\ \E i \in DOMAIN in_s.list : Mergeable(bb, in_s.list[i])
       /\ phase' = "corrupt" /\ UNCHANGED <<in_s, lost>>

Add(e) ==
    /\ phase = "build" /\ Cardinality(added) < MaxAdds
    /\ added' = added \union {e}
    /\ AddBlock(e, "build")
    /\ UNCHANGED <<command, listed, file, tmp, out_s, count, files, queue, target>>

\* sparse_file_write(); the file is then read back by load_buf_fd().
sparse_file_write ==
    /\ phase = "build" /\ added # {}
    /\ LET w == write_all_blocks(in_s.list, ImageLen) IN
       file' = [chunks |-> [i \in DOMAIN w |->
                              [type |-> w[i].type, len |-> w[i].len, src |-> w[i].src,
                               off |-> SizeUpTo(w)[i - 1] + ChunkLen]],
                size |-> sparse_file_len(in_s.list, ImageLen), len |-> ImageLen]
    /\ in_s' = NoList /\ phase' = "load"
    /\ UNCHANGED <<command, listed, added, lost, tmp, out_s, count, files, queue, target>>

\* No file system of that type, no answer from the device, or the generator
\* fails: fb_perform_format() returns and what was queued before it is executed.
FormatFails ==
    /\ phase = "build"
    /\ in_s' = NoList /\ lost' = {} /\ phase' = "queue"
    /\ UNCHANGED <<image, tmp, out_s, count, files, queue, target>>

-----------------------------------------------------------------------------
(* load_buf_fd(), load_sparse_files(). *)

\* get_sparse_limit(): the device may not know "max-download-size".
get_sparse_limit(limit) == IF file.size > limit THEN limit ELSE 0

load_buf_fd ==
    /\ phase = "load"
    /\ \E known \in BOOLEAN :
          /\ known => device.up
          /\ phase' = IF known /\ get_sparse_limit(Limit) > 0 THEN "import" ELSE "queue"
    /\ lost' = {}
    /\ UNCHANGED <<image, in_s, tmp, out_s, count, files, queue, target>>

\* The image cannot be read, and nothing of it is queued: fb_perform_format()
\* returns.
FormatNotLoaded ==
    /\ phase = "load" /\ command = "format"
    /\ phase' = "queue" /\ file' = NoFile /\ lost' = {}
    /\ UNCHANGED <<command, listed, added, in_s, tmp, out_s, count, files, queue, target>>

\* die(), there or in load_sparse_files(): nothing has been executed.
LoadFails ==
    /\ phase \in {"load", "import", "count", "split"}
    /\ phase = "load" => command # "format"
    /\ phase' = "exit" /\ status' = 1
    /\ UNCHANGED <<image, split, todo, host, product, target>>

\* A turn of the loop of sparse_file_read_sparse() or sparse_file_read_normal().
ReadChunk ==
    /\ phase = "import" /\ count < Len(file.chunks)
    /\ count' = count + 1
    /\ IF file.chunks[count + 1].type = "skip" THEN UNCHANGED <<in_s, lost, phase>>
       ELSE AddBlock(BlockRead(file.chunks[count + 1], count + 1,
                               BlockOf(file.chunks)[count + 1]), "import")
    /\ UNCHANGED <<image, tmp, out_s, files, queue, target>>

ReadEnd ==
    /\ phase = "import" /\ count = Len(file.chunks)
    /\ count' = 0 /\ phase' = "count"
    /\ UNCHANGED <<image, in_s, lost, tmp, out_s, files, queue, target>>

\* The terminating null pointer is counted twice.
RoomForNull(c) == c + 1 < files

\* Only what the first call has counted goes into out_s.
Room(c) == c < files

\* A turn of the loop of sparse_file_resparse(): the first call of
\* load_sparse_files() counts the sparse files, the second fills out_s.
\* After its last turn what is in tmp goes back to in_s.
sparse_file_resparse ==
    /\ phase \in {"count", "split"}
    /\ LET m == move_chunks_up_to_len(in_s.list, Limit)
           keep == phase = "split" /\ Room(count)
           back == IF keep THEN tmp ELSE backed_block_list_move(m.moved, tmp)
       IN  /\ out_s' = IF keep THEN Append(out_s, m.moved) ELSE out_s
           /\ tmp' = IF m.more THEN back ELSE <<>>
           /\ in_s' = [list |-> IF m.more THEN m.rest
                                ELSE backed_block_list_move(back, m.rest),
                       last_used |-> 0]
           /\ count' = IF m.more THEN count + 1 ELSE 0
           /\ files' = IF phase = "count" THEN count + 1 ELSE files
           /\ phase' = CASE m.more -> phase
                         [] ~m.more /\ phase = "count" -> "split"
                         [] OTHER -> "queue"
    /\ UNCHANGED <<image, lost, queue, target>>

-----------------------------------------------------------------------------
(* How a sparse file goes over the link: protocol.c. *)

USB_BUF_SIZE == 1024

\* The lengths that output_file.c passes to its callback.
Writes(list, len) ==
    <<HeaderLen>>
    \o FlattenSeq([i \in DOMAIN list |->
          (IF i \in Gaps(list) THEN <<ChunkLen>> ELSE <<>>) \o <<ChunkLen>>
          \o (IF list[i].type = "fill" THEN <<4>>
              ELSE <<list[i].len>>
                   \o (IF ALIGN(list[i].len) > list[i].len
                       THEN <<ALIGN(list[i].len) - list[i].len>> ELSE <<>>))])
    \o (IF write_skip_chunk(Pad(list, len)) # <<>> THEN <<ChunkLen>> ELSE <<>>)

\* What does not fit into the buffer is written as it is.
WriteUnrounded(u, len) ==
    LET n == IF u.buf > 0 /\ USB_BUF_SIZE - u.buf < len THEN USB_BUF_SIZE - u.buf
             ELSE IF u.buf > 0 THEN len ELSE 0
        full == u.buf + n = USB_BUF_SIZE
    IN  [buf |-> IF full THEN 0 ELSE u.buf + n,
         sent |-> u.sent \o (IF full THEN <<USB_BUF_SIZE>> ELSE <<>>)
                         \o (IF len > n THEN <<len - n>> ELSE <<>>)]

\* usb_buf_len and the writes to the device, after another "len" bytes.
fb_download_data_sparse_write(u, len) ==
    LET n == IF u.buf > 0 /\ USB_BUF_SIZE - u.buf < len THEN USB_BUF_SIZE - u.buf
             ELSE IF u.buf > 0 THEN len ELSE 0
        full == u.buf + n = USB_BUF_SIZE
        left == len - n
        direct == IF left > USB_BUF_SIZE THEN left - (left % USB_BUF_SIZE) ELSE 0
    IN  [buf |-> IF left > direct THEN left - direct
                 ELSE IF full THEN 0 ELSE u.buf + n,
         sent |-> u.sent \o (IF full THEN <<USB_BUF_SIZE>> ELSE <<>>)
                         \o (IF direct > 0 THEN <<direct>> ELSE <<>>)]

\* fb_download_data_sparse(): all of it, and the flush.
fb_download_data_sparse(list, len) ==
    LET w == Writes(list, len)
        after[i \in 0..Len(w)] ==
            IF i = 0 THEN [buf |-> 0, sent |-> <<>>]
            ELSE fb_download_data_sparse_write(after[i - 1], w[i])
        u == after[Len(w)]
    IN  u.sent \o (IF u.buf > 0 THEN <<u.buf>> ELSE <<>>)

-----------------------------------------------------------------------------
(* The queue. *)

\* "data" is the number of a sparse file in out_s, or 0 for the whole file.
queue_action(op, func, cmd, size, data) ==
    <<[op |-> op, func |-> func, cmd |-> cmd, size |-> size, data |-> data]>>

fb_queue_command(cmd) == queue_action("command", "default", cmd, 0, 0)

fb_queue_download(cmd, size, data) ==
    queue_action("download", "default", cmd, size, data) \o fb_queue_command(cmd)

\* queue_info_dump(), and the product.
Info ==
    queue_action("notice", "default", "none", 0, 0)
    \o queue_action("query", "display", "version", 0, 0)
    \o queue_action("query", "save", "product", 0, 0)

\* setup_requirements(), with a requirement for product "a".  A line without
\* "=", or a last one without a newline, is passed over.
Checks == Info \o queue_action("query", "require", "version", 0, 0)

\* fb_queue_flash() of the file, or fb_queue_flash_sparse() of each of its parts.
flash_buf ==
    IF out_s = <<>>
    THEN fb_queue_download("flash", file.size, 0)
    ELSE FlattenSeq([i \in DOMAIN out_s |->
             fb_queue_download("flash", sparse_file_len(out_s[i], file.len), i)])

\* The image has been read, however it came out.
Loaded == file # NoFile

\* The erasing comes after the image.
EraseLast(checks, sig, erase, reboot) ==
    checks \o sig \o (IF Loaded THEN flash_buf ELSE <<>>) \o erase \o reboot

\* The checks come after the image.
CheckLast(checks, sig, erase, reboot) ==
    sig \o erase \o (IF Loaded THEN flash_buf ELSE <<>>) \o checks \o reboot

\* The order in which main() and do_flashall() fill the queue.
Queued(checks, sig, erase, reboot) ==
    checks \o sig \o erase \o (IF Loaded THEN flash_buf ELSE <<>>) \o reboot

\* sparse_file_len() of each part, in flash_buf(), stops at an assertion if
\* the image ends in the middle of a block.
Assertion == \E i \in DOMAIN out_s : Aborts(out_s[i], file.len)

Fill ==
    /\ phase = "queue"
    /\ IF Assertion
       THEN phase' = "aborted" /\ UNCHANGED todo
       ELSE /\ phase' = "execute"
            /\ \E sig, erase, reboot \in BOOLEAN :
                  /\ sig => command = "flashall"
                  /\ command = "flashall" => reboot
                  /\ todo' = Queued(
                        IF command # "flashall" THEN <<>>
                        ELSE IF listed THEN Checks ELSE Info,
                        IF sig THEN fb_queue_download("signature", 256, 0) ELSE <<>>,
                        IF erase THEN fb_queue_command("erase") ELSE <<>>,
                        IF reboot THEN queue_action("command", "nothing", "reboot", 0, 0)
                                       \o queue_action("wait", "default", "none", 0, 0)
                        ELSE <<>>)
    /\ UNCHANGED <<image, split, host, status, product, target>>

-----------------------------------------------------------------------------
(* fb_execute_queue(), protocol.c. *)

\* cb_check(): a requirement for another product is none.
cb_check == product # "a" \/ device.meets

\* a->func(): does the queue go on?
Func(a, ok) ==
    CASE a.func = "nothing" -> TRUE
      [] a.func = "require" -> ok /\ cb_check
      [] OTHER -> ok

\* The first action has ended.
Complete(ok) ==
    LET a == Head(todo) IN
    /\ host' = "next"
    /\ product' = IF a.func = "save" /\ ok THEN device.product ELSE product
    /\ IF Func(a, ok) THEN todo' = Tail(todo) /\ UNCHANGED <<phase, status>>
       ELSE phase' = "exit" /\ status' = 1 /\ UNCHANGED todo
    /\ UNCHANGED <<image, split>>

Executing == phase = "execute" /\ todo # <<>>

\* OP_NOTICE; OP_WAIT_FOR_DISCONNECT, which ends when the device is gone or
\* after three seconds.
Notice ==
    /\ Executing /\ host = "next" /\ Head(todo).op \in {"notice", "wait"}
    /\ todo' = Tail(todo)
    /\ UNCHANGED <<phase, image, split, host, status, product, target>>

\* _command_start() up to its answer.
_command_start ==
    /\ Executing /\ host = "next"
    /\ Head(todo).op \in {"command", "query", "download"}
    /\ IF device.up
       THEN /\ wire' = "command" /\ host' = "reply"
            /\ UNCHANGED <<phase, image, split, todo, status, product>>
       ELSE Complete(FALSE) /\ UNCHANGED wire
    /\ UNCHANGED <<buffer, part, device>>

\* OKAY instead of DATA, to which the data is sent all the same.
DownloadOkay == wire = "OKAY" /\ host = "reply" /\ Head(todo).op = "download"

\* check_response() in _command_start() or _command_end().
check_response ==
    /\ Executing /\ host \in {"reply", "end"}
    /\ wire \in {"OKAY", "FAIL", "DATA"} \/ ~device.up
    /\ wire' = "none"
    /\ IF device.up /\ (wire = "DATA" \/ DownloadOkay)
       THEN host' = "data" /\ UNCHANGED <<phase, image, split, todo, status, product>>
       ELSE Complete(wire = "OKAY" /\ device.up)
    /\ UNCHANGED <<buffer, part, device>>

\* _command_data(), or sparse_file_callback().  A write to the device, or the
\* mmap() of what is to be written, may fail.  In _command_data() that ends the
\* action; write_all_blocks() passes over it, and fastboot goes on to read the
\* answer to less data than it has announced.
_command_data ==
    /\ Executing /\ host = "data"
    /\ \/ /\ device.up
          /\ wire' \in {"data"} \union (IF Head(todo).data # 0 THEN {"short"} ELSE {})
          /\ host' = "end"
          /\ UNCHANGED <<phase, image, split, todo, status, product>>
       \/ /\ device.up => Head(todo).data = 0
          /\ Complete(FALSE) /\ UNCHANGED wire
    /\ UNCHANGED <<buffer, part, device>>

Finish ==
    /\ phase = "execute" /\ todo = <<>>
    /\ phase' = "exit"
    /\ UNCHANGED <<image, split, queue, target>>

-----------------------------------------------------------------------------
(* The device. *)

\* The blocks of what was downloaded replace those of the partition.
Flash ==
    LET cells == IF buffer.data = 0 THEN WholeImage ELSE Contents(out_s[buffer.data])
        blocks == {d.block : d \in cells}
    IN  {c \in part : c.block \notin blocks} \union cells

DeviceAnswers ==
    /\ device.up /\ wire = "command"
    /\ LET a == Head(todo) IN
       \/ a.op = "download" /\ a.size <= Limit /\ wire' = "DATA"
          /\ UNCHANGED <<buffer, part>>
       \/ a.op = "query" /\ wire' = "OKAY" /\ UNCHANGED <<buffer, part>>
       \/ a.op = "command" /\ a.cmd = "erase" /\ wire' = "OKAY"
          /\ part' = {} /\ UNCHANGED buffer
       \/ a.op = "command" /\ a.cmd = "flash" /\ buffer.what = "flash" /\ wire' = "OKAY"
          /\ part' = Flash /\ UNCHANGED buffer
       \/ a.op = "command" /\ a.cmd \in {"signature", "reboot"} /\ wire' = "OKAY"
          /\ UNCHANGED <<buffer, part>>
    /\ UNCHANGED <<phase, image, split, queue, device>>

DeviceReceives ==
    /\ device.up /\ wire = "data"
    /\ wire' = "OKAY"
    /\ buffer' = [what |-> Head(todo).cmd, data |-> Head(todo).data]
    /\ UNCHANGED <<phase, image, split, queue, part, device>>

\* It may refuse anything; an erase or a flash may by then be half done.  To
\* less data than was announced there is no other answer.
DeviceRefuses ==
    /\ device.up /\ wire \in {"command", "data", "short"}
    /\ wire' = "FAIL"
    /\ UNCHANGED <<phase, image, split, queue, buffer, part, device>>

\* The program is at its end.
Ended == phase \in {"exit", "aborted", "corrupt"}

Unplug ==
    /\ device.up /\ ~Ended
    /\ device' = [device EXCEPT !.up = FALSE]
    /\ UNCHANGED <<phase, image, split, queue, wire, buffer, part>>

-----------------------------------------------------------------------------
Host ==
    \/ \E e \in Extents \ added : Add(e)
    \/ sparse_file_write \/ FormatFails \/ load_buf_fd
    \/ FormatNotLoaded \/ LoadFails
    \/ ReadChunk \/ ReadEnd \/ sparse_file_resparse \/ Fill
    \/ Notice \/ _command_start \/ check_response \/ _command_data \/ Finish

Device == DeviceAnswers \/ DeviceReceives \/ DeviceRefuses

Next == Host \/ Device \/ Unplug

Spec == Init /\ [][Next]_vars

-----------------------------------------------------------------------------
(* Properties. *)

\* The blocks of a list are in order and apart.
Ordered(list) == \A i \in 1..(Len(list) - 1) : EndOf(list[i]) <= list[i + 1].block

\* The list of backed blocks holds, in order, what was added to it, whatever
\* the order of the calls and however blocks were merged, except for those that
\* a freed last_used has lost: no other block is dropped, doubled or changed,
\* not even after such a loss (queue_bb(), merge_bb()).  The sparse image
\* written from it (write_all_blocks()) says the same of every block, padded.
ListRight ==
    /\ phase \in {"build", "import"} => Ordered(in_s.list)
    /\ phase = "build" => Contents(in_s.list) = UNION {Cells(e) : e \in added \ lost}
    /\ phase = "import" =>
          Contents(in_s.list) = FileContents(file.chunks, count) \ Missing
    /\ phase = "load" /\ command = "format" =>
          FileContents([i \in DOMAIN file.chunks |->
                          [file.chunks[i] EXCEPT !.off = file.chunks[i].src]],
                       Len(file.chunks))
          = UNION {Cells([e EXCEPT !.len = ALIGN(@)]) : e \in added \ lost}

\* Through both calls of sparse_file_resparse() every block of the image that
\* the list had is in exactly one of in_s, tmp and the sparse files made so
\* far, as it was.  The
\* second call makes as many sparse files as the first one counted, though it
\* starts from blocks that the first has split: nothing is left behind for
\* want of room in out_s (load_sparse_files() does not compare the numbers).
NothingLost ==
    LET lists == <<in_s.list, tmp>> \o out_s IN
    /\ phase \in {"count", "split"} =>
        /\ \A i \in DOMAIN lists : Ordered(lists[i])
        /\ UNION {Contents(lists[i]) : i \in DOMAIN lists} = ImageContents
        /\ \A i, j \in DOMAIN lists :
              i # j => Contents(lists[i]) \intersect Contents(lists[j]) = {}
    /\ phase = "queue" /\ files > 0 =>
        /\ Len(out_s) = files /\ in_s.list = <<>>
        /\ UNION {Contents(out_s[i]) : i \in DOMAIN out_s} = ImageContents

\* The sparse files about to be queued.
Parts == IF phase # "queue" \/ Assertion THEN {} ELSE Range(out_s)

\* The image may lack the last block, which is not whole.
TailLost == lost # {} /\ file.len % block_size # 0

\* The bytes of writes of these lengths.
BytesOf(lengths) ==
    LET sum[i \in 0..Len(lengths)] == IF i = 0 THEN 0 ELSE sum[i - 1] + lengths[i]
    IN  sum[Len(lengths)]

\* What is announced of a sparse file is what is sent.  Its header has the
\* number of its chunks (sparse_count_chunks() and write_all_blocks() walk the
\* list separately); the device gets as many bytes as the download command
\* says, and only the last write may be other than a multiple of USB_BUF_SIZE,
\* as long as no write fails.  An image whose last block is not whole gets here
\* only when that block was lost, and then its header is wrong.
Announced ==
    /\ \A l \in Parts : TailLost \/ Len(write_all_blocks(l, file.len))
                                     = sparse_count_chunks(l, file.len)
    /\ phase = "build" => Len(write_all_blocks(in_s.list, ImageLen))
                          = sparse_count_chunks(in_s.list, ImageLen)
    /\ \A l \in Parts : TailLost \/
        LET sent == fb_download_data_sparse(l, file.len) IN
        /\ BytesOf(sent) = sparse_file_len(l, file.len)
        /\ \A i \in 1..(Len(sent) - 1) : sent[i] % USB_BUF_SIZE = 0

\* A sparse file is larger than the device can take by no more than the skip
\* chunks between its blocks, which move_chunks_up_to_len() does not count.
WithinLimit ==
    \A l \in Parts : sparse_file_len(l, file.len)
                     <= Limit + ChunkLen * Cardinality(Gaps(l) \ {1})

\* "Splits chunks of an existing sparse file into smaller sparse files such
\* that each sparse file is less than max_len" (sparse.h, sparse_file_resparse()).
FitsLimit == \A l \in Parts : sparse_file_len(l, file.len) < Limit

\* When fastboot ends with status 0 the partition holds all of the image that
\* the list had: every part was downloaded, flashed before the next one
\* replaced it in the device's buffer, and not erased afterwards
\* (fb_execute_queue()).  Only the blocks that a freed last_used has lost are
\* missing: nothing tells the program of them.
Flashed == phase = "exit" /\ status = 0 /\ Loaded => part = ImageContents

\* "flashall" writes nothing to a device of the product that the requirement
\* is for, and that does not meet it: by then its product has been asked for
\* and saved, and the requirement checked (cb_save(), cb_check()), if
\* setup_requirements() has read it.
Suited ==
    command = "flashall" /\ listed /\ part # {} => (device.product = "a" => device.meets)
=============================================================================
