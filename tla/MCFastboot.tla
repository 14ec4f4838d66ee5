----------------------------- MODULE MCFastboot -----------------------------
(* Small images and extents for Fastboot. *)
EXTENDS Fastboot

\* Runs of equal blocks: a fill value, or 0 for data, and how many.
Run(value, n) == [i \in 1..n |-> value]

\* Images that need one, two and three sparse files, with fills of two values
\* between data, and with a part of a block at the end.
MCImages ==
    {[blocks |-> Run(0, a) \o Run(1, 2) \o Run(w, 1) \o Run(0, c), tail |-> t] :
        a \in {1, 18}, w \in {1, 2}, c \in {0, 6}, t \in {0, 100}}

Extent(id, type, block, len, src) ==
    [id |-> id, type |-> type, block |-> block, len |-> len, src |-> src]

\* Data and fills that touch and can be merged, touch and cannot, have gaps
\* before them, need to be split, or end in the middle of a block.
MCExtents ==
    {Extent(1, "fd", 0, 8192, 0), Extent(2, "fd", 2, 12288, 8192),
     Extent(3, "fill", 5, 16384, 7), Extent(4, "fill", 9, 8192, 7),
     Extent(5, "fd", 12, 49152, 32768), Extent(6, "fd", 26, 4096, 4096),
     Extent(7, "fd", 28, 100, 0), Extent(8, "fill", 29, 4096, 8)}

\* Small blocks with gaps between them.
GapExtents ==
    {Extent(1, "fd", 1, 4096, 0), Extent(2, "fd", 3, 8192, 8192),
     Extent(3, "fd", 6, 8192, 32768), Extent(4, "fd", 9, 8192, 65536),
     Extent(5, "fd", 12, 8192, 98304), Extent(6, "fd", 15, 8192, 131072)}
=============================================================================
