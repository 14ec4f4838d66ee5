------------------------------- MODULE Sparse -------------------------------
(***************************************************************************)
(* The algorithms of libsparse on a list of backed blocks: adding one to   *)
(* it, writing it as an Android sparse image, and taking from it as much   *)
(* as fits into an image of a given size.                                  *)
(*                                                                         *)
(* A backed block is a record: its first block, its length in bytes, its   *)
(* type ("fd" or "fill"), and the offset in the file or the value to fill  *)
(* with.  Lengths are those of the code, with blocks of 4096 bytes.        *)
(***************************************************************************)
EXTENDS Integers, Sequences, FiniteSets, SequencesExt

block_size == 4096

DIV_ROUND_UP(n) == (n + block_size - 1) \div block_size

ALIGN(n) == block_size * DIV_ROUND_UP(n)

ALIGN_DOWN(n) == block_size * (n \div block_size)

\* sizeof(sparse_header_t) and sizeof(chunk_header_t).
HeaderLen == 28
ChunkLen == 12

\* The first block after bb.
EndOf(bb) == bb.block + DIV_ROUND_UP(bb.len)

\* What bb puts on the disk: block, type, source, and bytes that are not padding.
Cells(bb) ==
    {[block |-> k, type |-> bb.type,
      src |-> IF bb.type = "fill" THEN bb.src
              ELSE bb.src + (k - bb.block) * block_size,
      bytes |-> IF k + 1 = EndOf(bb) THEN bb.len - (k - bb.block) * block_size
                ELSE block_size] : k \in bb.block..(EndOf(bb) - 1)}

Contents(list) == UNION {Cells(list[i]) : i \in DOMAIN list}

-----------------------------------------------------------------------------
(* The list: backed_block.c. *)

\* The values to fill with are not compared.
AnyFill(a, b) ==
    /\ a.type = b.type
    /\ a.block + a.len \div block_size = b.block
    /\ a.type = "fd" => a.src + a.len = b.src

\* merge_bb() merges b into a.
Mergeable(a, b) ==
    /\ a.type = b.type
    /\ a.block + a.len \div block_size = b.block
    /\ \/ a.type = "fill" /\ a.src = b.src
       \/ a.type = "fd" /\ a.src + a.len = b.src

\* merge_bb() of the i-th block and its successor.
merge_bb(list, i) ==
    IF i < Len(list) /\ Mergeable(list[i], list[i + 1])
    THEN SubSeq(list, 1, i - 1)
         \o <<[list[i] EXCEPT !.len = @ + list[i + 1].len]>>
         \o SubSeq(list, i + 2, Len(list))
    ELSE list

\* last_used was merged into another block and freed, and is looked at.
Dangling(q, bb) ==
    /\ q.list # <<>> /\ q.list[1].block <= bb.block
    /\ q.last_used # 0 /\ \A i \in DOMAIN q.list : q.list[i].id # q.last_used

\* queue_bb(): the search starts at the last block that was added, if the new
\* one is beyond it.
queue_bb(q, bb) ==
    LET l == q.list
        last == {i \in DOMAIN l : l[i].id = q.last_used /\ bb.block > l[i].block}
        start == IF last = {} THEN 1 ELSE CHOOSE i \in last : TRUE
        at == CHOOSE i \in start..Len(l) :
                 /\ i = Len(l) \/ l[i + 1].block >= bb.block
                 /\ \A k \in (start + 1)..i : l[k].block < bb.block
        inserted == SubSeq(l, 1, at) \o <<bb>> \o SubSeq(l, at + 1, Len(l))
    IN  IF l = <<>> \/ l[1].block > bb.block
        THEN [q EXCEPT !.list = <<bb>> \o l]
        ELSE [list |-> merge_bb(merge_bb(inserted, at + 1), at), last_used |-> bb.id]

\* backed_block_split(): bb, or its two parts.
backed_block_split(bb, max_len) ==
    LET m == ALIGN_DOWN(max_len) IN
    IF bb.len <= m THEN <<bb>>
    ELSE <<[bb EXCEPT !.len = m],
           [bb EXCEPT !.len = @ - m, !.block = @ + m \div block_size, !.id = 0,
                      !.src = IF bb.type = "fill" THEN @ ELSE @ + m]>>

\* backed_block_list_move() of a whole list: behind the blocks of "to" that
\* are below it, but never in front of the first.
backed_block_list_move(from, to) ==
    IF from = <<>> THEN to
    ELSE LET at == CHOOSE i \in 1..Len(to) :
                      /\ i = Len(to) \/ to[i + 1].block > from[1].block
                      /\ \A k \in 2..i : to[k].block <= from[1].block
         IN  IF to = <<>> THEN from
             ELSE SubSeq(to, 1, at) \o from \o SubSeq(to, at + 1, Len(to))

-----------------------------------------------------------------------------
(* Writing: sparse.c and output_file.c. *)

\* The end of what lies before the i-th block.
EndBefore(list, i) == IF i = 1 THEN 0 ELSE EndOf(list[i - 1])

\* pad in write_all_blocks(), which asserts that it is not negative.
Pad(list, len) == len - EndBefore(list, Len(list) + 1) * block_size

\* The assertion fails.
Aborts(list, len) == Pad(list, len) < 0

\* write_sparse_data_chunk(), write_sparse_fill_chunk(): the last block is
\* padded.  This is what they write when mmap() and the writes succeed.
write_data_chunk(bb) == <<[type |-> bb.type, len |-> ALIGN(bb.len), src |-> bb.src]>>

\* write_sparse_skip_chunk(): nothing but an error for a part of a block.
write_skip_chunk(len) ==
    IF len <= 0 \/ len % block_size # 0 THEN <<>>
    ELSE <<[type |-> "skip", len |-> len, src |-> 0]>>

write_all_blocks(list, len) ==
    FlattenSeq([i \in DOMAIN list |->
        write_skip_chunk((list[i].block - EndBefore(list, i)) * block_size)
        \o write_data_chunk(list[i])])
    \o write_skip_chunk(Pad(list, len))

\* The bytes of a chunk in the file.
ChunkBytes(chunk) ==
    ChunkLen + (CASE chunk.type = "fill" -> 4
                  [] chunk.type = "skip" -> 0
                  [] OTHER -> ALIGN(chunk.len))

\* The size of a file with the first i chunks.
SizeUpTo(chunks) ==
    LET size[i \in 0..Len(chunks)] ==
            IF i = 0 THEN HeaderLen ELSE size[i - 1] + ChunkBytes(chunks[i])
    IN  size

sparse_file_len(list, len) ==
    LET chunks == write_all_blocks(list, len) IN SizeUpTo(chunks)[Len(chunks)]

\* The blocks with a gap before them.
Gaps(list) == {i \in DOMAIN list : list[i].block > EndBefore(list, i)}

\* The rest of the image is not counted.
CountNoEnd(list, len) == Len(list) + Cardinality(Gaps(list))

\* The number of chunks in the header.
sparse_count_chunks(list, len) ==
    Len(list) + Cardinality(Gaps(list))
    + (IF EndBefore(list, Len(list) + 1) < DIV_ROUND_UP(len) THEN 1 ELSE 0)

-----------------------------------------------------------------------------
(* Reading: sparse_read.c. *)

\* The block at which the i-th chunk of a file begins.
BlockOf(chunks) ==
    LET b[i \in 1..(Len(chunks) + 1)] ==
            IF i = 1 THEN 0 ELSE b[i - 1] + DIV_ROUND_UP(chunks[i - 1].len)
    IN  b

\* The backed block that process_chunk() or sparse_file_read_normal() adds.
BlockRead(chunk, i, block) ==
    [id |-> i, block |-> block, len |-> chunk.len, type |-> chunk.type,
     src |-> IF chunk.type = "fill" THEN chunk.src ELSE chunk.off]

\* What a file has to put on the disk, up to its n-th chunk.
FileContents(chunks, n) ==
    LET b == BlockOf(chunks) IN
    UNION {Cells(BlockRead(chunks[i], i, b[i])) :
           i \in {k \in 1..n : chunks[k].type # "skip"}}

-----------------------------------------------------------------------------
(* Splitting: sparse_file_resparse(). *)

\* file_len after each block.
FileLen(list) ==
    LET sum[i \in 0..Len(list)] ==
            IF i = 0 THEN 0 ELSE sum[i - 1] + ChunkBytes(list[i])
    IN  sum

\* The chunks of a file with one block are forgotten.
HeaderOnly == HeaderLen

\* The sparse header, initial skip chunk, split chunk, end skip chunk, crc chunk.
overhead == HeaderLen + 4 * ChunkLen + 4

\* What is left of a block that was split is forgotten.
SplitDrops(bb, rest) == rest

SplitRest(bb, rest) == IF Len(bb) = 2 THEN <<bb[2]>> \o rest ELSE rest

\* move_chunks_up_to_len(): the blocks that move, those that stay, and whether
\* the loop was left before its end.
move_chunks_up_to_len(list, max_len) ==
    LET len == max_len - overhead
        sum == FileLen(list)
        over == {i \in DOMAIN list : sum[i] > len}
        i == CHOOSE k \in over : \A j \in over : k <= j
        left == len - sum[i - 1]
        parts == backed_block_split(list[i], left)
        rest == SubSeq(list, i + 1, Len(list))
    IN  IF over = {}
        THEN [moved |-> list, rest |-> <<>>, more |-> FALSE]
        ELSE IF i = 1 \/ left > len \div 8
        THEN [moved |-> SubSeq(list, 1, i - 1) \o <<parts[1]>>,
              rest |-> SplitRest(parts, rest), more |-> TRUE]
        ELSE [moved |-> SubSeq(list, 1, i - 1),
              rest |-> SubSeq(list, i, Len(list)), more |-> TRUE]
=============================================================================
