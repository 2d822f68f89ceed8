-------------------------------- MODULE Comp --------------------------------
(***************************************************************************)
(* CompStream (std/comp.rs), the framed stream between smux and the KCP    *)
(* session: the writer cuts what it is given into chunks, the reader takes *)
(* them apart again from whatever pieces arrive.  On the wire a chunk is   *)
(* its type, its length, a checksum and its data; compression changes the  *)
(* size of the data and nothing else, so one kind of data chunk stands for *)
(* both.  The bytes that are written are 1, 2, ... in order.               *)
(***************************************************************************)
EXTENDS Integers, Sequences, SequencesExt

CONSTANTS
    MAX_BLOCK_SIZE,
    Writes,      \* the lengths of the writes
    MaxBytes     \* bound: bytes written

VARIABLES
    given,                  \* bytes given to write_all(), whether or not it failed
    wrote_stream_header,
    werr,                   \* Writer::err is set
    wire,                   \* what the connection below has taken and not handed on
    conn,                   \* its end: "open", "eof", "failed"
    read_header,
    expect,                 \* what the reader is about to read_full()
    cut,                    \* the connection ended inside what it was reading
    decoded,                \* decoded[i..j]
    got,                    \* bytes handed out by read()
    rerr                    \* Reader::err: "none", "eof", "corrupt", "io"

vars == <<given, wrote_stream_header, werr, wire, conn, read_header, expect, cut, decoded, got, rerr>>

Byte == 1..MaxBytes
Sum(data) == [sum |-> data]           \* a checksum tells any two blocks apart

(* The pieces of chunks: type and length are the header. *)
Identifier == <<[type |-> "id"], [len |-> 1], [magic |-> "sNaPpY"]>>
Chunk(data) ==
    <<[type |-> "data"], [len |-> Len(data)], Sum(data)>> \o [i \in DOMAIN data |-> [byte |-> data[i]]]

(* read_full() of so many symbols, and what they are the rest of. *)
Header == [part |-> "header", n |-> 2]
Expect == {Header} \cup [part: {"magic", "data"}, n: 1..MAX_BLOCK_SIZE + 1]

TypeOK ==
    /\ given \in 0..MaxBytes /\ wrote_stream_header \in BOOLEAN /\ werr \in BOOLEAN
    /\ conn \in {"open", "eof", "failed"} /\ read_header \in BOOLEAN /\ cut \in BOOLEAN
    /\ expect \in Expect /\ decoded \in Seq(Byte) /\ got \in Seq(Byte)
    /\ rerr \in {"none", "eof", "corrupt", "io"}

Init ==
    /\ given = 0 /\ wrote_stream_header = FALSE /\ werr = FALSE /\ wire = <<>> /\ conn = "open"
    /\ read_header = FALSE /\ expect = Header /\ cut = FALSE
    /\ decoded = <<>> /\ got = <<>> /\ rerr = "none"

(* The chunks of a write of bytes from a to b: full ones, then the rest. *)
Chunks(a, b) ==
    FlattenSeq([i \in 1..((b - a) \div MAX_BLOCK_SIZE) + 1 |->
        LET first == a + (i - 1) * MAX_BLOCK_SIZE
            last == IF first + MAX_BLOCK_SIZE - 1 < b THEN first + MAX_BLOCK_SIZE - 1 ELSE b
        IN Chunk([j \in 1..last - first + 1 |-> first + j - 1])])

(* Mutant: the next write goes on after a failed one. *)
Failed_forgotten == FALSE

Failed == werr

(* write_chunks() of n bytes.  The connection takes all of it, or some and *)
(* then fails, which every later write reports again.                      *)
Write(n, k) ==
    /\ given + n <= MaxBytes /\ conn = "open"
    /\ given' = given + n
    /\ IF Failed THEN UNCHANGED <<wrote_stream_header, werr, wire>>
       ELSE LET out == (IF wrote_stream_header THEN <<>> ELSE Identifier)
                           \o Chunks(given + 1, given + n)
            IN /\ k <= Len(out)
               /\ wire' = wire \o SubSeq(out, 1, k)
               /\ werr' = (k < Len(out))
               /\ wrote_stream_header' = TRUE
    /\ UNCHANGED <<conn, read_header, expect, cut, decoded, got, rerr>>

(* The connection ends for the reader, when it has handed on n symbols. *)
End(how, n) ==
    /\ conn = "open" /\ n <= Len(wire)
    /\ conn' = how /\ wire' = SubSeq(wire, 1, n)
    /\ UNCHANGED <<given, wrote_stream_header, werr, read_header, expect, cut, decoded, got, rerr>>

-----------------------------------------------------------------------------
Fails(e) == rerr' = e /\ UNCHANGED <<read_header, expect, decoded>>

(* fill() with what read_full() has read: the start of a chunk, ...  What  *)
(* the code calls unsupported is corrupt here: neither is ever written.    *)
OnHeader(s) ==
    IF ~("type" \in DOMAIN s[1] /\ "len" \in DOMAIN s[2]) \/ (~read_header /\ s[1].type # "id")
       \/ s[2].len > (IF s[1].type = "data" THEN MAX_BLOCK_SIZE ELSE 1)
    THEN Fails("corrupt")
    ELSE /\ read_header' = TRUE
         /\ expect' = IF s[1].type = "id" THEN [part |-> "magic", n |-> 1]
                                          ELSE [part |-> "data", n |-> s[2].len + 1]
         /\ UNCHANGED <<decoded, rerr>>

(* ... or the rest of it. *)
OnBody(s) ==
    IF expect.part = "magic"
    THEN IF "magic" \notin DOMAIN s[1] THEN Fails("corrupt")
         ELSE expect' = Header /\ UNCHANGED <<read_header, decoded, rerr>>
    ELSE IF \E i \in 2..Len(s) : "byte" \notin DOMAIN s[i] THEN Fails("corrupt")
    ELSE LET data == [i \in 1..Len(s) - 1 |-> s[i + 1].byte]
         IN IF s[1] # Sum(data) THEN Fails("corrupt")
            ELSE decoded' = data /\ expect' = Header /\ UNCHANGED <<read_header, rerr>>

Filling == decoded = <<>> /\ rerr = "none"
Whole == Len(wire) >= expect.n

Fill ==
    /\ Filling /\ Whole
    /\ wire' = SubSeq(wire, expect.n + 1, Len(wire))
    /\ LET s == SubSeq(wire, 1, expect.n)
       IN IF expect = Header THEN OnHeader(s) ELSE OnBody(s)
    /\ UNCHANGED <<given, wrote_stream_header, werr, conn, cut, got>>

(* Mutant: the end is one wherever it comes. *)
EndOf_anywhere == "eof"

(* read_full(): the end of the stream is one only where a chunk would begin. *)
EndOf == IF wire = <<>> /\ expect = Header THEN "eof" ELSE "corrupt"

FillEnds ==
    /\ Filling /\ ~Whole /\ conn # "open"
    /\ rerr' = IF conn = "failed" THEN "io" ELSE EndOf
    /\ cut' = (conn = "eof" /\ ~(wire = <<>> /\ expect = Header))
    /\ UNCHANGED <<given, wrote_stream_header, werr, wire, conn, read_header, expect, decoded, got>>

(* read() of at most n bytes. *)
Read(n) ==
    /\ n \in 1..Len(decoded)
    /\ got' = got \o SubSeq(decoded, 1, n) /\ decoded' = SubSeq(decoded, n + 1, Len(decoded))
    /\ UNCHANGED <<given, wrote_stream_header, werr, wire, conn, read_header, expect, cut, rerr>>

Next ==
    \/ \E n \in Writes, k \in 0..4 * MaxBytes + 3 : Write(n, k)
    \/ \E how \in {"eof", "failed"}, n \in 0..Len(wire) : End(how, n)
    \/ Fill \/ FillEnds \/ \E n \in 1..MAX_BLOCK_SIZE : Read(n)

Spec == Init /\ [][Next]_vars

-----------------------------------------------------------------------------
(* What is read is what was written, from its beginning and in order; a    *)
(* stream of chunks is found corrupt only when it ends inside one, and     *)
(* never shows an end there ("A stream that ends in the middle of `buf' is *)
(* always corrupt input").                                                 *)
FramesRight ==
    /\ \A i \in DOMAIN got : got[i] = i
    /\ rerr = "corrupt" <=> cut
=============================================================================
