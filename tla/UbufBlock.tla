------------------------------ MODULE UbufBlock -----------------------------
(***************************************************************************)
(* Block buffers in memory: include/upipe/ubuf_block.h and                 *)
(* ubuf_block_common.h over lib/upipe/ubuf_block_mem.c.                    *)
(*                                                                         *)
(* A handle points to the head of a chain of segments.  Each segment is a  *)
(* window on a shared buffer, which counts the segments that look at it.   *)
(* The head remembers the segment of the last look-up and a segment from   *)
(* which to search the end of the chain.  The chain is a sequence here, and*)
(* a pointer to one of its segments an index in it; the fields total_size  *)
(* and cached_... of segments that are not heads are not kept, since the   *)
(* code sets them again before it reads them.                              *)
(*                                                                         *)
(* Allocations succeed as long as there are fewer than MaxSegments.        *)
(*                                                                         *)
(* The specification has names of its own, BlockInit and so on, because    *)
(* DataProofs extends this module and RtpRetransmission.                   *)
(***************************************************************************)
EXTENDS Integers, Sequences, SequencesExt, FiniteSets, FiniteSetsExt

CONSTANTS
    Handles,        \* pointers the application has
    Buffers,        \* struct ubuf_mem_shared
    Payload,        \* for each of them, what its allocator fills it with
    Headroom,       \* and prepend of its ubuf_block_mem_mgr
    MaxSegments,    \* bound on the segments in use
    MaxSize,        \* bound on the size of what is merged
    NULL

\* A segment, the head of a chain, and what a look-up finds.
Views == [shared : Buffers, offset : Nat, size : Nat]
Heads ==
    [chain : Seq(Views), total_size : Nat,
     cached_ubuf : Nat, cached_offset : Int, cached_end_ubuf : Nat]
Finds == [seg : Nat, offset : Nat]

(* Memory that is allocated has an octet at least, or it could not be told *)
(* from memory that is not.                                                *)
ASSUME BlockAssumption ==
    /\ IsFiniteSet(Handles)
    /\ Headroom \in [Buffers -> Nat] /\ MaxSegments \in Nat /\ MaxSize \in Nat
    /\ \A b \in Buffers : /\ Payload[b] \in Seq(Nat \ {0})
                           /\ Headroom[b] + Len(Payload[b]) > 0
    /\ NULL \notin Heads /\ NULL \notin Finds /\ NULL \notin Seq(Nat)

VARIABLES
    block,          \* the head each handle points to, or NULL
    refs,           \* refcount of the shared buffers
    mem,            \* octets of the shared buffers, <<>> if not allocated
    call            \* the last call: operation, handle, arguments, result

blockVars == <<block, refs, mem, call>>

Garbage == 0    \* an octet nobody has written
Offsets == -1..MaxSize
Sizes == -1..MaxSize

IsHeld(h) == block[h] # NULL
Taken == {h \in Handles : IsHeld(h)}
Called(op, h, args, ret) ==
    call' = [op |-> op, on |-> h, args |-> args, ret |-> ret]

Segments == UNION {{h} \X DOMAIN block[h].chain : h \in Taken}
HasRoom(n) == Cardinality(Segments) + n <= MaxSegments

(* ubuf_block_common_init: a head of its own.                              *)
NewHead(chain, total) ==
    [chain |-> chain, total_size |-> total,
     cached_ubuf |-> 1, cached_offset |-> 0, cached_end_ubuf |-> 1]

(* The octets that the first k segments of a chain have together, and those*)
(* of segments i to j.                                                     *)
Sums(chain) ==
    LET sum[k \in 0..Len(chain)] ==
          IF k = 0 THEN 0 ELSE sum[k - 1] + chain[k].size
    IN  sum
Sized(chain, i, j) == Sums(chain)[j] - Sums(chain)[i - 1]

(* References that segments of a chain have on a buffer.                   *)
Looking(chain, b) == Cardinality({k \in DOMAIN chain : chain[k].shared = b})
Used(chain) == [b \in Buffers |-> refs[b] + Looking(chain, b)]
Released(chain) == [b \in Buffers |-> refs[b] - Looking(chain, b)]

\* The memory of a buffer that lost its last reference goes back to umem.
Kept == mem' = [b \in Buffers |-> IF refs'[b] = 0 THEN <<>> ELSE mem[b]]

-----------------------------------------------------------------------------
(* Look-ups.                                                               *)

Absolute(b, o) == IF o < 0 THEN o + b.total_size ELSE o

(* The comparison is of size_t: negative numbers are above all others.     *)
Below(x, y) == IF (x < 0) = (y < 0) THEN x <= y ELSE y < 0

(* The loop of ubuf_block_get, from segment i of the chain on: the first   *)
(* segment that has the octet at offset o, counted from the beginning of i.*)
Search(chain, i, o) ==
    LET left(k) == o - Sized(chain, i, k - 1)
        hits == {k \in i..Len(chain) : left(k) \in 0..chain[k].size - 1}
    IN  IF hits = {} THEN NULL
        ELSE [seg |-> Min(hits), offset |-> left(Min(hits))]

(* ubuf_block_get: the segment of an offset and the offset within it.      *)
Get(b, o) ==
    LET a == Absolute(b, o) IN
    IF Below(b.cached_offset, a)
    THEN Search(b.chain, b.cached_ubuf, a - b.cached_offset)
    ELSE Search(b.chain, 1, a)

LookedAtOffset(b, o) ==
    LET g == Get(b, o) IN
    IF g = NULL THEN b ELSE [b EXCEPT !.cached_ubuf = g.seg, !.cached_offset = o]

(* The head is in the cache with an offset above 0 after a prepend: until a*)
(* look-up puts it right, an offset that is not below goes astray.         *)
Astray(b, o) ==
    /\ b.cached_ubuf = 1 /\ b.cached_offset > 0
    /\ Below(b.cached_offset, Absolute(b, o))

(* What it leaves in the cache: the offset as it was given, which may be   *)
(* less than zero.                                                         *)
Looked(b, o) ==
    LET g == Get(b, o) IN
    IF g = NULL THEN b
    ELSE [b EXCEPT !.cached_ubuf = g.seg, !.cached_offset = o - g.offset]

\* What can be read at once from there.
Window(s, o) == SubSeq(mem[s.shared], s.offset + o + 1, s.offset + s.size)

(* ubuf_block_read, ubuf_block_size_linear; ubuf_block_write and           *)
(* ubuf_block_unmap do the same look-up.                                   *)
Read(h, o) ==
    LET b == block[h]
        g == Get(b, o)
    IN  /\ IsHeld(h)
        /\ Absolute(b, o) \in 0..b.total_size
        /\ ~Astray(b, o)                            \* see README: FromStart
        /\ Called("read", h, <<o>>,
                  IF g = NULL THEN NULL ELSE Window(b.chain[g.seg], g.offset))
        /\ block' = [block EXCEPT ![h] = Looked(b, o)]
        /\ UNCHANGED <<refs, mem>>

-----------------------------------------------------------------------------
(* Allocation, duplication and release.                                    *)

Alloc(h, s) ==
    LET p == Payload[s]
        segment == [shared |-> s, offset |-> Headroom[s], size |-> Len(p)]
    IN  /\ ~IsHeld(h) /\ HasRoom(1) /\ refs[s] = 0
        /\ refs' = [refs EXCEPT ![s] = 1]
        /\ mem' = [mem EXCEPT ![s] = [k \in 1..Headroom[s] |-> Garbage] \o p]
        /\ block' = [block EXCEPT ![h] = NewHead(<<segment>>, Len(p))]
        /\ Called("alloc", h, <<p>>, TRUE)

Free(h) ==
    /\ IsHeld(h)
    /\ block' = [block EXCEPT ![h] = NULL]
    /\ refs' = Released(block[h].chain)
    /\ Kept
    /\ Called("free", h, <<>>, TRUE)

Dup(h, i) ==
    LET b == block[h] IN
    /\ IsHeld(h) /\ ~IsHeld(i) /\ HasRoom(Len(b.chain))
    /\ block' = [block EXCEPT ![i] = NewHead(b.chain, b.total_size)]
    /\ refs' = Used(b.chain)
    /\ UNCHANGED mem
    /\ Called("dup", h, <<i>>, TRUE)

(* ubuf_block_common_splice: the chain for n octets from offset o of       *)
(* segment i on; segments that have none of them are left out.             *)
Spliced(chain, i, o, n) ==
    LET left(k) == n - (Sized(chain, i, k - 1) - o)   \* for segment k # i
        last == Max({i} \cup {k \in i + 1..Len(chain) : left(k) > 0})
        Cut(k) ==
          IF k = i
          THEN [chain[i] EXCEPT !.offset = @ + o, !.size = Min({@ - o, n})]
          ELSE [chain[k] EXCEPT !.size = Min({@, left(k)})]
    IN  [k \in 1..last - i + 1 |-> Cut(k + i - 1)]

SpliceOut(h, o, n, i) ==
    LET b == block[h]
        g == Get(b, o)
        size == IF n = -1 THEN b.total_size - Absolute(b, o) ELSE n
        new == Spliced(b.chain, g.seg, g.offset, size)
    IN  /\ IsHeld(h) /\ ~IsHeld(i)
        /\ Absolute(b, o) \in 0..b.total_size
        /\ Absolute(b, o) + size <= b.total_size    \* see README: Fits
        /\ ~Astray(b, o)                            \* see README: FromStart
        /\ IF g = NULL
           THEN UNCHANGED <<block, refs>>
           ELSE /\ HasRoom(Len(new))
                /\ block' = [block EXCEPT ![h] = Looked(b, o),
                                          ![i] = NewHead(new, size)]
                /\ refs' = Used(new)
        /\ UNCHANGED mem
        /\ Called("splice", h, <<o, n, i>>, g # NULL)

-----------------------------------------------------------------------------
(* Changes of a chain.                                                     *)

(* ubuf_block_slice: segment i is cut in two at offset o.                  *)
Sliced(chain, i, o) ==
    SubSeq(chain, 1, i - 1)
      \o <<[chain[i] EXCEPT !.size = o],
           [chain[i] EXCEPT !.offset = @ + o, !.size = @ - o]>>
      \o SubSeq(chain, i + 1, Len(chain))

\* A pointer to a segment, once n segments have been put after segment i.
Moved(p, i, n) == IF p > i THEN p + n ELSE p

AppendTo(h, i) ==
    LET b == block[h] IN
    /\ IsHeld(h) /\ IsHeld(i) /\ h # i
    /\ block' = [block EXCEPT
          ![i] = NULL,
          ![h] = [b EXCEPT !.chain = @ \o block[i].chain,
                           !.total_size = @ + block[i].total_size,
                           !.cached_end_ubuf = Len(b.chain) + 1]]
    /\ UNCHANGED <<refs, mem>>
    /\ Called("append", h, <<i>>, TRUE)

InsertInto(h, o, i) ==
    LET b == block[h]
        g == Get(b, o)
        new == block[i].chain
        cut == Sliced(b.chain, g.seg, g.offset)
    IN  /\ IsHeld(h) /\ IsHeld(i) /\ h # i
        /\ Absolute(b, o) \in 0..b.total_size
        /\ ~Astray(b, o)                            \* see README: FromStart
        /\ IF g = NULL
           THEN UNCHANGED <<block, refs>>
           ELSE /\ HasRoom(1)
                /\ block' = [block EXCEPT
                     ![i] = NULL,
                     ![h] = [Looked(b, o) EXCEPT
                       !.chain = SubSeq(cut, 1, g.seg) \o new
                                   \o SubSeq(cut, g.seg + 1, Len(cut)),
                       !.total_size = @ + block[i].total_size,
                       !.cached_end_ubuf = Moved(@, g.seg, Len(new) + 1)]]
                /\ refs' = Used(<<b.chain[g.seg]>>)
        /\ UNCHANGED mem
        /\ Called("insert", h, <<o, i>>, g # NULL)

(* ubuf_block_delete from offset o of segment i on, when it stays within   *)
(* the segment, and when it does not.                                      *)
Hollowed(chain, i, o, n) ==
    [Sliced(chain, i, o + n) EXCEPT ![i].size = o]

Shortened(chain, i, o, n) ==
    LET from(k) == IF k < i THEN 0      \* octets to delete from segment k
                   ELSE Max({0, n - (Sized(chain, i, k - 1) - o)})
        Cut(s, d) == [s EXCEPT !.offset = @ + d, !.size = @ - d]
    IN  [k \in DOMAIN chain |->
           IF k = i /\ o > 0 THEN [chain[k] EXCEPT !.size = o]
           ELSE IF k < i THEN chain[k]
           ELSE IF k = i THEN Cut(chain[k], Min({n, chain[k].size}))
           ELSE Cut(chain[k], Min({from(k), chain[k].size}))]

DeletedFromHead(b, o, n) ==
    LET g == Get(b, o)
        size == IF n = -1 THEN b.total_size - Absolute(b, o) ELSE n
    IN  IF g = NULL THEN [head |-> b, dups |-> <<>>, ok |-> FALSE]
        ELSE [head |-> [Looked(b, o) EXCEPT
                          !.chain = Shortened(@, g.seg, 0, size),
                          !.total_size = @ - size],
              dups |-> <<>>, ok |-> TRUE]

(* A delete of n octets (-1: all) of b at offset o: new head, segments     *)
(* duplicated, and whether it succeeds.                                    *)
Deleted(b, o, n) ==
    LET g == Get(b, o)
        size == IF n = -1 THEN b.total_size - Absolute(b, o) ELSE n
        s == b.chain[g.seg]
        within == g.offset > 0 /\ g.offset + size < s.size
    IN  IF g = NULL THEN [head |-> b, dups |-> <<>>, ok |-> FALSE]
        ELSE [head |-> [Looked(b, o) EXCEPT
                !.chain = IF within
                          THEN Hollowed(@, g.seg, g.offset, size)
                          ELSE Shortened(@, g.seg, g.offset, size),
                !.cached_end_ubuf = IF within THEN Moved(@, g.seg, 1) ELSE @,
                !.total_size = @ - size],
              dups |-> IF within THEN <<s>> ELSE <<>>,
              ok |-> TRUE]

DeleteFrom(h, o, n) ==
    LET b == block[h]
        d == Deleted(b, o, n)
    IN  /\ IsHeld(h)
        /\ Absolute(b, o) \in 0..b.total_size
        /\ Absolute(b, o) + n <= b.total_size       \* see README: Fits
        /\ ~Astray(b, o)                            \* see README: FromStart
        /\ HasRoom(Len(d.dups))
        /\ block' = [block EXCEPT ![h] = d.head]
        /\ refs' = Used(d.dups)
        /\ UNCHANGED mem
        /\ Called("delete", h, <<o, n>>, d.ok)

(* ubuf_block_truncate: new head, segments released, success.              *)
Truncated(b, o) ==
    LET g == Get(b, o - 1)
        i == IF o = 0 THEN 1 ELSE g.seg
    IN  IF o > 0 /\ g = NULL THEN [head |-> b, gone |-> <<>>, ok |-> FALSE]
        ELSE [head |-> [NewHead([SubSeq(b.chain, 1, i) EXCEPT ![i].size =
                                 IF o = 0 THEN 0 ELSE g.offset + 1], o)
                        EXCEPT !.cached_end_ubuf = i],
              gone |-> SubSeq(b.chain, i + 1, Len(b.chain)),
              ok |-> TRUE]

TruncateAtLeaks(h, o) ==
    LET t == Truncated(block[h], o) IN
    /\ IsHeld(h) /\ o >= 0
    /\ o > 0 => ~Astray(block[h], o - 1)
    /\ block' = [block EXCEPT ![h] = t.head]
    /\ UNCHANGED <<refs, mem>>
    /\ Called("truncate", h, <<o>>, t.ok)

TruncateAt(h, o) ==
    LET t == Truncated(block[h], o) IN
    /\ IsHeld(h) /\ o >= 0
    /\ o > 0 => ~Astray(block[h], o - 1)            \* see README: FromStart
    /\ block' = [block EXCEPT ![h] = t.head]
    /\ refs' = Released(t.gone)
    /\ Kept
    /\ Called("truncate", h, <<o>>, t.ok)

(* ubuf_block_resize: a truncation and a deletion from the beginning.      *)
ResizeTo(h, o, n) ==
    LET b == block[h]
        a == Absolute(b, o)
        shorter == n # -1 /\ n + a < b.total_size
        t == IF shorter THEN Truncated(b, n + a)
             ELSE [head |-> b, gone |-> <<>>, ok |-> TRUE]
        d == IF a > 0 THEN Deleted(t.head, 0, a).head ELSE t.head
        fits == a >= 0 /\ (n # -1 => n + a <= b.total_size)
    IN  /\ IsHeld(h)
        /\ n = -1 => a <= b.total_size              \* see README: Fits
        /\ fits /\ shorter /\ n + a > 0 =>
             ~Astray(b, n + a - 1)                  \* see README: FromStart
        /\ IF fits
           THEN block' = [block EXCEPT ![h] = d] /\ refs' = Released(t.gone)
           ELSE UNCHANGED <<block, refs>>
        /\ Kept
        /\ Called("resize", h, <<o, n>>, fits)

(* ubuf_block_prepend.                                                     *)
Prepended(b, n) ==
    [b EXCEPT !.chain[1].offset = @ - n, !.chain[1].size = @ + n,
              !.total_size = @ + n, !.cached_offset = @ + n]

(* The cached offset is moved although the cached segment may be the head, *)
(* which still begins at 0: see Astray.  If it is negative, after a look-up*)
(* from the end, it must not wrap.                                         *)
PrependTo(h, n) ==
    LET b == block[h]
        ok == n <= b.chain[1].offset
    IN  /\ IsHeld(h) /\ n > 0
        /\ b.cached_offset < 0 => b.cached_offset + n < 0    \* NoWrap
        /\ block' = [block EXCEPT ![h] = IF ok THEN Prepended(b, n) ELSE b]
        /\ UNCHANGED <<refs, mem>>
        /\ Called("prepend", h, <<n>>, ok)

SplitAtKeepsSize(h, o, i) ==
    LET b == block[h]
        g == Get(b, o)
        cut == Sliced(b.chain, g.seg, g.offset)
    IN  /\ IsHeld(h) /\ ~IsHeld(i) /\ Absolute(b, o) \in 0..b.total_size
        /\ g # NULL /\ HasRoom(1)
        /\ block' = [block EXCEPT
             ![h] = [Looked(b, o) EXCEPT !.chain = SubSeq(cut, 1, g.seg),
                                         !.cached_end_ubuf = g.seg],
             ![i] = NewHead(SubSeq(cut, g.seg + 1, Len(cut)),
                            b.total_size - Absolute(b, o))]
        /\ refs' = Used(<<b.chain[g.seg]>>)
        /\ UNCHANGED mem
        /\ Called("split", h, <<o, i>>, TRUE)

SplitAt(h, o, i) ==
    LET b == block[h]
        g == Get(b, o)
        a == Absolute(b, o)
        cut == Sliced(b.chain, g.seg, g.offset)
    IN  /\ IsHeld(h) /\ ~IsHeld(i)
        /\ a \in 0..b.total_size
        /\ ~Astray(b, o)                            \* see README: FromStart
        /\ IF g = NULL
           THEN UNCHANGED <<block, refs>>
           ELSE /\ HasRoom(1)
                /\ block' = [block EXCEPT
                     ![h] = [Looked(b, o) EXCEPT
                        !.chain = SubSeq(cut, 1, g.seg),
                        !.total_size = a,
                        !.cached_end_ubuf = g.seg],
                     ![i] = NewHead(SubSeq(cut, g.seg + 1, Len(cut)),
                                  b.total_size - a)]
                /\ refs' = Used(<<b.chain[g.seg]>>)
        /\ UNCHANGED mem
        /\ Called("split", h, <<o, i>>, g # NULL)

-----------------------------------------------------------------------------
BlockInit ==
    /\ block = [h \in Handles |-> NULL]
    /\ refs = [b \in Buffers |-> 0]
    /\ mem = [b \in Buffers |-> <<>>]
    /\ call = NULL

BlockNext ==
    \E h \in Handles :
      \/ \E s \in Buffers : Alloc(h, s)
      \/ Free(h)
      \/ \E o \in Offsets :
           \/ Read(h, o) \/ TruncateAt(h, o)
           \/ \E n \in Sizes : DeleteFrom(h, o, n) \/ ResizeTo(h, o, n)
      \/ \E n \in Sizes : PrependTo(h, n)
      \/ \E i \in Handles :
           \/ Dup(h, i) \/ AppendTo(h, i)
           \/ \E o \in Offsets :
                \/ InsertInto(h, o, i) \/ SplitAt(h, o, i)
                \/ \E n \in Sizes : SpliceOut(h, o, n, i)

BlockSpec == BlockInit /\ [][BlockNext]_blockVars

-----------------------------------------------------------------------------
(* The octets of a block, segment by segment.                              *)
Content(b) == FlattenSeq([k \in DOMAIN b.chain |-> Window(b.chain[k], 0)])

(* The size of each buffer is right, its segments lie within memory that   *)
(* is allocated, and its pointers to segments are to segments it has.      *)
SizesExact ==
    \A h \in Taken :
      LET b == block[h] IN
      /\ b.total_size = Len(Content(b))
      /\ {b.cached_ubuf, b.cached_end_ubuf} \subseteq DOMAIN b.chain
      /\ \A k \in DOMAIN b.chain :
           LET s == b.chain[k] IN
           s.offset >= 0 /\ s.size >= 0 /\ s.offset + s.size <= Len(mem[s.shared])

(* A shared buffer counts the segments that look at it, whichever handle   *)
(* they belong to, and its memory is freed with the last one.              *)
SharedCounted ==
    \A s \in Buffers :
      /\ refs[s] = Cardinality({v \in Segments : block[v[1]].chain[v[2]].shared = s})
      /\ refs[s] = 0 <=> mem[s] = <<>>

(* Both hold together, in all handles, after each call.                    *)
MemoryExact == SizesExact /\ SharedCounted

(* Whatever was looked up, cut, joined or prepended before, a look-up finds*)
(* the octet that the offset has in the chain, and nothing at the end,     *)
(* except those that go astray between a prepend and the next look-up.     *)
LookupsRight ==
    \A h \in Taken :
      LET b == block[h] IN
      \A o \in -b.total_size..b.total_size :
        LET a == Absolute(b, o)
            g == Get(b, o)
        IN  ~Astray(b, o) =>
              IF a = b.total_size THEN g = NULL
              ELSE Window(b.chain[g.seg], g.offset)[1] = Content(b)[a + 1]

(* Each call does to the octets of the handles what its comment promises.  *)
Contents ==
    [h \in Handles |-> IF IsHeld(h) THEN Content(block[h]) ELSE NULL]

Abs == INSTANCE OctetStrings WITH content <- Contents, None <- NULL

Promised == Abs!Spec
=============================================================================
