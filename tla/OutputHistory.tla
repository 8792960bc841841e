--------------------------- MODULE OutputHistory ----------------------------
(***************************************************************************)
(* The bytes of a session's output: how readLoop (pty.go) cuts what it     *)
(* reads into chunks at rune boundaries, and how HistoryBuffer (history.go)*)
(* keeps the newest of them for replay.                                    *)
(*                                                                         *)
(* A byte is represented by what UTF-8 decoding looks at: 0 is a           *)
(* continuation byte, k > 0 the first byte of a rune of k bytes.           *)
(***************************************************************************)
EXTENDS Naturals, Sequences, SequencesExt

CONSTANTS
    UTFMax,     \* bytes of the longest rune (4)
    ReadSize,   \* what the read buffer holds beyond a pending rune (4096)
    Limits,     \* the limits of a history (WOOTTY_HISTORY_BYTES)
    MaxInput    \* bound: bytes the process writes

ASSUME HistoryConstants ==
    /\ UTFMax \in Nat \ {0}
    /\ ReadSize \in Nat \ {0}
    /\ Limits \subseteq Nat \ {0}   \* NewHistoryBuffer replaces anything else by 1
    /\ MaxInput \in Nat

VARIABLES
    input,      \* what the process writes
    pos,        \* bytes of it read
    pending,    \* bytes kept at the front of the buffer
    chunk,      \* the chunk in dataCh, <<>> if there is none
    eof,        \* Read has returned an error
    ends,       \* ends of the chunks sent so far
    maxBytes,   \* HistoryBuffer.maxBytes
    chunks,     \* HistoryBuffer.chunks
    bytes       \* HistoryBuffer.bytes

vars == <<input, pos, pending, chunk, eof, ends, maxBytes, chunks, bytes>>

Byte == 0 .. UTFMax

TypeOK ==
    /\ input \in Seq(Byte)
    /\ pos \in 0 .. Len(input)
    /\ pending \in Seq(Byte)
    /\ chunk \in Seq(Byte)
    /\ Len(chunk) <= ReadSize + UTFMax
    /\ eof \in BOOLEAN
    /\ ends \in Seq(0 .. Len(input))
    /\ maxBytes \in Limits
    /\ chunks \in Seq(Seq(Byte))
    /\ bytes \in Nat

Init ==
    /\ input \in UNION {[1 .. n -> Byte] : n \in 1 .. MaxInput}
    /\ pos = 0
    /\ pending = <<>>
    /\ chunk = <<>>
    /\ eof = FALSE
    /\ ends = <<>>
    /\ maxBytes \in Limits
    /\ chunks = <<>>
    /\ bytes = 0

-----------------------------------------------------------------------------
(* UTF-8, from how pty.go and history.go use the package unicode/utf8.     *)

\* The bytes after position i of b that belong to its rune, as far as b goes.
Tail1(b, i) == {j \in i + 1 .. i + b[i] - 1 : j <= Len(b)}

\* utf8.FullRune(b[i:]): a whole rune, or bytes that cannot begin one.
FullRune(b, i) ==
    \/ i + b[i] - 1 <= Len(b)
    \/ \E j \in Tail1(b, i) : b[j] # 0

\* The size utf8.DecodeRune(b[i:]) returns: 1 for anything invalid.
RuneSize(b, i) ==
    IF b[i] > 1 /\ i + b[i] - 1 <= Len(b) /\ \A j \in Tail1(b, i) : b[j] = 0
    THEN b[i] ELSE 1

RuneStart(x) == x # 0

-----------------------------------------------------------------------------
(* readLoop.                                                               *)

\* The loop that finds the end of the chunk: it advances rune by rune while the
\* next rune is complete, or, at the end of the input, to the end.
\* (Mutant: an incomplete rune is not kept back.)
CutAll(b, err) == Len(b)

Cut(b, err) ==
    LET end[i \in 1 .. Len(b) + 1] ==
            IF i <= Len(b) /\ (err \/ FullRune(b, i)) THEN end[i + RuneSize(b, i)] ELSE i - 1
    IN  end[1]

\* A chunk is cut from buffer b and sent; the rest stays pending.
\* (Mutant: the rest is overwritten by the next read.)
SendChunkOnly(b, err) ==
    LET n == Cut(b, err)
    IN  /\ chunk' = SubSeq(b, 1, n)
        /\ ends' = IF n > 0 THEN Append(ends, pos' - (Len(b) - n)) ELSE ends
        /\ pending' = <<>>

SendChunk(b, err) ==
    LET n == Cut(b, err)
    IN  /\ chunk' = SubSeq(b, 1, n)
        /\ ends' = IF n > 0 THEN Append(ends, pos' - (Len(b) - n)) ELSE ends
        /\ pending' = SubSeq(b, n + 1, Len(b))

\* Read returns some bytes, as many as fit behind the pending ones.
Read ==
    /\ chunk = <<>>
    /\ \E n \in 1 .. ReadSize + UTFMax - Len(pending) :
          /\ pos + n <= Len(input)
          /\ pos' = pos + n
          /\ SendChunk(pending \o SubSeq(input, pos + 1, pos + n), FALSE)
    /\ UNCHANGED <<input, eof, maxBytes, chunks, bytes>>

\* Read returns an error: the loop sends what is pending and returns.
ReadError ==
    /\ chunk = <<>>
    /\ ~eof
    /\ pos = Len(input)
    /\ eof' = TRUE
    /\ UNCHANGED <<input, pos, maxBytes, chunks, bytes>>
    /\ SendChunk(pending, TRUE)

-----------------------------------------------------------------------------
(* HistoryBuffer.                                                          *)

\* A chunk larger than the buffer is cut down to its end, from a rune start on.
Trim(c) ==
    IF Len(c) <= maxBytes THEN c
    ELSE LET from == Len(c) - maxBytes + 1
             skip == {k \in 0 .. maxBytes : \A j \in from .. from + k - 1 : ~RuneStart(c[j])}
         IN  SubSeq(c, from + Max(skip), Len(c))

\* The bytes of the first k chunks.
Size(cs, k) ==
    LET size[i \in 0 .. k] == IF i = 0 THEN 0 ELSE size[i - 1] + Len(cs[i])
    IN  size[k]

\* The loop that drops old chunks while the buffer holds too many bytes, which
\* counts the bytes it drops.
\* (Mutant: a full buffer already is too much.)
EvictEager(cs, n) ==
    LET drop == Min({k \in 0 .. Len(cs) : k = Len(cs) \/ n - Size(cs, k) < maxBytes})
    IN  <<SubSeq(cs, drop + 1, Len(cs)), n - Size(cs, drop)>>

Evict(cs, n) ==
    LET drop == Min({k \in 0 .. Len(cs) : k = Len(cs) \/ n - Size(cs, k) <= maxBytes})
    IN  <<SubSeq(cs, drop + 1, Len(cs)), n - Size(cs, drop)>>

\* forwardOutput takes the chunk: HistoryBuffer.Append.
AppendHistory ==
    /\ chunk # <<>>
    /\ LET trimmed == Trim(chunk)
           kept == Evict(Append(chunks, trimmed), bytes + Len(trimmed))
       IN  /\ chunks' = kept[1]
           /\ bytes' = kept[2]
    /\ chunk' = <<>>
    /\ UNCHANGED <<input, pos, pending, eof, ends, maxBytes>>

\* What a client is replayed.
Dump == FlattenSeq(chunks)

Terminated == eof /\ chunk = <<>> /\ UNCHANGED vars

Next == Read \/ ReadError \/ AppendHistory \/ Terminated

Spec == Init /\ [][Next]_vars

-----------------------------------------------------------------------------
(* Properties.                                                             *)

\* The positions at which a rune, or an invalid byte, ends when the whole input
\* is decoded at once.
Boundaries ==
    LET ahead[i \in 1 .. Len(input) + 1] ==
            IF i > Len(input) THEN {} ELSE {i + RuneSize(input, i) - 1} \cup ahead[i + RuneSize(input, i)]
    IN  {0} \cup ahead[1]

\* However the output arrives in reads, no rune is split between two chunks: a
\* chunk ends where the undivided input has a rune boundary.
NoRuneSplit == \A i \in 1 .. Len(ends) : ends[i] \in Boundaries

\* What is read is sent or pending, byte for byte, and nothing is pending in the
\* end.
SentEnd == IF ends = <<>> THEN 0 ELSE ends[Len(ends)]

NothingLost ==
    /\ SubSeq(input, SentEnd + 1, pos) = pending
    /\ Len(pending) < UTFMax
    /\ eof => SentEnd = Len(input)

\* The chunks that have been appended, cut from the input by their ends.
Appended ==
    LET n == IF chunk = <<>> THEN Len(ends) ELSE Len(ends) - 1
    IN  [i \in 1 .. n |-> SubSeq(input, (IF i = 1 THEN 0 ELSE ends[i - 1]) + 1, ends[i])]

\* The replay never exceeds the limit, its size is counted right across trimming
\* and eviction, and no piece of it starts inside a rune.
ReplayBounded ==
    /\ bytes = Len(Dump)
    /\ bytes <= maxBytes
    /\ \A i \in 1 .. Len(chunks) :
          LET j == Len(Appended) - Len(chunks) + i
          IN  chunks[i] # <<>> => ends[j] - Len(chunks[i]) \in Boundaries

\* It keeps as many of the newest chunks as fit, each in full unless it is alone
\* too large.
ReplayIsLongest ==
    LET all == Appended
        fits(k) == Len(FlattenSeq([i \in 1 .. k |-> Trim(all[Len(all) - k + i])])) <= maxBytes
    IN  Len(chunks) = Max({k \in 0 .. Len(all) : fits(k)})

\* It is the end of the output, without a gap, if the limit is at least as large as
\* the largest chunk.  (With a smaller one a trimmed chunk may leave room in which
\* an older one survives: docs/runtime.md:70 has "Old output beyond
\* `WOOTTY_HISTORY_BYTES` is discarded".)
LargeReplayIsSuffix ==
    maxBytes >= ReadSize + UTFMax => IsSuffix(Dump, FlattenSeq(Appended))

\* However the output is cut into reads and whatever the limit, a client that comes
\* back is replayed the newest output there is room for, within the limit, in runes
\* and, but for tiny limits, without a gap.
ReplaySound == ReplayBounded /\ ReplayIsLongest /\ LargeReplayIsSuffix
=============================================================================
