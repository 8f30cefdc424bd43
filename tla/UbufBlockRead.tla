---------------------------- MODULE UbufBlockRead ---------------------------
(***************************************************************************)
(* The functions of include/upipe/ubuf_block.h and ubuf_block_stream.h     *)
(* that read over several segments.  They change nothing but the cache of  *)
(* the last look-up, which each of them leaves as the last Read would, so  *)
(* that they are functions of a block here.                                *)
(***************************************************************************)
EXTENDS UbufBlock

CONSTANT Words    \* what is searched for

RECURSIVE Pieces(_, _, _)

(* The loop of ubuf_block_peek, extract, extract_bits, iovec_count and     *)
(* iovec_read: what the successive reads return, NULL if one fails.        *)
Pieces(b, o, n) ==
    LET g == Get(b, o)
        w == Window(b.chain[g.seg], g.offset)
        size == Min({n, Len(w)})
        rest == Pieces(Looked(b, o), o + size, n - size)
    IN  IF n <= 0 THEN <<>>
        ELSE IF g = NULL \/ rest = NULL THEN NULL
        ELSE <<SubSeq(w, 1, size)>> \o rest

(* ubuf_block_check_size                                                   *)
Checked(b, o, n) ==
    IF n # -1 THEN n ELSE IF o < 0 THEN -o ELSE b.total_size - o

Extracted(b, o, n) ==
    LET p == Pieces(b, o, Checked(b, o, n)) IN
    IF p = NULL THEN NULL ELSE FlattenSeq(p)

(* ubuf_block_peek reads once, even if there is nothing to return.         *)
Peeked(b, o, n) == IF Get(b, o) = NULL THEN NULL ELSE Extracted(b, o, n)

(* ubuf_block_copy: the octets of the new buffer, NULL in case of error,   *)
(* which a copy of no octet is.                                            *)
Copied(b, skip, n) ==
    LET size == IF n = -1 THEN b.total_size - skip ELSE n
        at == Max({0, -skip})
        from == Max({0, skip})
        part == Extracted(b, from, Min({size - at, b.total_size - from}))
        Unwritten(k) == [i \in 1..k |-> Garbage]
    IN  IF skip > b.total_size \/ at >= size \/ part = NULL THEN NULL
        ELSE Unwritten(at) \o part \o Unwritten(size - at - Len(part))

RECURSIVE AgreeFrom(_, _, _, _)

(* The loop of ubuf_block_compare, whose reads of the two blocks are cut   *)
(* where either has the end of a segment.                                  *)
AgreeFrom(b, o, c, i) ==
    LET f == Get(b, o + i)
        g == Get(c, i)
        v == Window(b.chain[f.seg], f.offset)
        w == Window(c.chain[g.seg], g.offset)
        size == Min({Len(v), Len(w), c.total_size - i})
    IN  \/ i >= c.total_size
        \/ /\ f # NULL /\ g # NULL
           /\ SubSeq(v, 1, size) = SubSeq(w, 1, size)
           /\ AgreeFrom(Looked(b, o + i), o, Looked(c, i), i + size)

Compare(b, o, c) == b.total_size >= c.total_size + o /\ AgreeFrom(b, o, c, 0)
Equal(b, c) == b.total_size = c.total_size /\ Compare(b, 0, c)

RECURSIVE MatchFrom(_, _, _)

(* ubuf_block_match: the filter says which octets suit in each place.      *)
MatchFrom(b, filter, o) ==
    LET g == Get(b, o)
        w == Window(b.chain[g.seg], g.offset)
        size == Min({Len(w), Len(filter) - o})
    IN  \/ o >= Len(filter)
        \/ /\ g # NULL
           /\ \A i \in 1..size : w[i] \in filter[o + i]
           /\ MatchFrom(Looked(b, o), filter, o + size)

Match(b, filter) == b.total_size >= Len(filter) /\ MatchFrom(b, filter, 0)

RECURSIVE Scan(_, _, _)

(* ubuf_block_scan: whether it finds the octet, and the offset it leaves.  *)
Scan(b, o, word) ==
    LET g == Get(b, o)
        w == Window(b.chain[g.seg], g.offset)
        at == {i \in DOMAIN w : w[i] = word}
    IN  IF g = NULL THEN [found |-> FALSE, offset |-> o]
        ELSE IF at # {} THEN [found |-> TRUE, offset |-> o + Min(at) - 1]
        ELSE Scan(Looked(b, o), o + Len(w), word)

\* What a scan from offset o that ends at offset p leaves in the cache.
Scanned(b, o, p) == Looked(Looked(b, o), p)

RECURSIVE FindSkipping(_, _, _)

FindSkipping(b, o, words) ==
    LET s == Scan(b, o, Head(words))
        c == Scanned(b, o, s.offset)
        p == Peeked(c, s.offset + 1, Len(words) - 1)
    IN  IF ~s.found \/ Len(words) = 1 \/ p = Tail(words) THEN s
        ELSE IF p = NULL THEN [s EXCEPT !.found = FALSE]
        ELSE FindSkipping(c, s.offset + Len(words), words)

RECURSIVE Find(_, _, _)

(* ubuf_block_find: a mismatch goes on at the octet after the candidate.   *)
Find(b, o, words) ==
    LET s == Scan(b, o, Head(words))
        c == Scanned(b, o, s.offset)
        p == Peeked(c, s.offset + 1, Len(words) - 1)
    IN  IF ~s.found \/ Len(words) = 1 \/ p = Tail(words) THEN s
        ELSE IF p = NULL THEN [s EXCEPT !.found = FALSE]
        ELSE Find(c, s.offset + 1, words)

RECURSIVE Streamed(_, _, _)

(* ubuf_block_stream_get until it fails, once the section w at offset o is *)
(* mapped; ubuf_block_stream_init maps the first one.                      *)
Streamed(b, o, w) ==
    LET g == Get(b, o + Len(w)) IN
    w \o (IF g = NULL THEN <<>>
          ELSE Streamed(Looked(b, o + Len(w)), o + Len(w),
                        Window(b.chain[g.seg], g.offset)))

Stream(b, o) == IF Get(b, o) = NULL THEN NULL ELSE Streamed(b, o, <<>>)

-----------------------------------------------------------------------------
(* The same functions on a sequence of octets.                             *)

Cut(s, o, n) == IF o + n <= Len(s) THEN SubSeq(s, o + 1, o + n) ELSE NULL

\* Offsets at which a word is, and those at which the end comes too early.
Places(s, o, word) == {k \in o..Len(s) - Len(word) : Cut(s, k, Len(word)) = word}
Candidates(s, o, word) ==
    {k \in o..Len(s) - 1 : s[k + 1] = word[1] /\ k > Len(s) - Len(word)}

FindRight(s, o, word, r) ==
    LET at == Places(s, o, word)
        short == Candidates(s, o, word)
    IN  r = IF at # {} THEN [found |-> TRUE, offset |-> Min(at)]
            ELSE [found |-> FALSE,
                  offset |-> IF short # {} THEN Min(short) ELSE Len(s)]

(* Whatever segments a block is made of and whatever was looked up before, *)
(* reading, copying, comparing, matching, finding and streaming give what  *)
(* they would give on its octets in one piece, from each offset at which   *)
(* no look-up goes astray (see UbufBlock).                                 *)
ReadsRight ==
    \A h \in Taken :
      LET b == block[h]
          s == Content(b)
          Safe(offsets) == {o \in offsets : ~Astray(b, o)}
      IN  /\ \A o \in Safe(0..Len(s)) :
               /\ \A n \in 0..Len(s) + 1 : Extracted(b, o, n) = Cut(s, o, n)
               /\ Extracted(b, o, -1) = Cut(s, o, Len(s) - o)
               /\ o < Len(s) => Stream(b, o) = Cut(s, o, Len(s) - o)
               /\ \A word \in Words : FindRight(s, o, word, Find(b, o, word))
          /\ \A o \in Safe(-Len(s)..-1) :
               Extracted(b, o, -1) = Cut(s, Len(s) + o, -o)
          /\ \A skip \in -1..1, n \in {1, Len(s), Len(s) + 1} :
               LET c == Copied(b, skip, n) IN
               n + skip > 0 /\ skip < Len(s) /\ ~Astray(b, Max({0, skip})) =>
                 /\ Len(c) = n
                 /\ \A k \in 1..n : k + skip \in DOMAIN s => c[k] = s[k + skip]
          /\ \A word \in Words : Match(b, <<{word[1]}, {word[2], 3}>>)
               <=> Len(s) >= 2 /\ s[1] = word[1] /\ s[2] \in {word[2], 3}
          /\ \A i \in Taken :
               LET t == Content(block[i]) IN
               /\ Equal(b, block[i]) <=> s = t
               /\ \A o \in Safe(0..Len(s)) :
                    Compare(b, o, block[i]) <=> Cut(s, o, Len(t)) = t
=============================================================================
