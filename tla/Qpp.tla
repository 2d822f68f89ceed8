--------------------------------- MODULE Qpp ---------------------------------
(***************************************************************************)
(* QppStream (std/qpp.rs) around a smux stream, its counterpart at the     *)
(* other end, and the walk over a slice that both make (qpp/qpp.rs).  Each *)
(* end has a generator of its own (wprng, rprng): the number of the random *)
(* word in use, which also selects the pad, and how many bytes of it have  *)
(* been used up.  A byte is masked with one byte of a word; masked twice,  *)
(* or unmasked with another byte, it is garbage.  Plaintext is the bytes   *)
(* 1, 2, ... in order, and the two ends cut it up independently.           *)
(***************************************************************************)
EXTENDS Integers, Sequences, SequencesExt, FiniteSetsExt

CONSTANTS
    Slices,      \* the lengths of the slices that are written
    MaxBytes,    \* bound: bytes written
    MaxFlush,    \* bound: flushes beside the writes
    PAD_SWITCH   \* the bytes of a random word

VARIABLES
    slice,       \* what the caller offers and must offer again after Pending
    acked,       \* bytes poll_write() has reported
    obuf,        \* ciphertext the connection has not taken (from opos on)
    staged, wprng,
    wire,        \* ciphertext the connection has taken and the peer not read
    rprng,
    plain,       \* what the peer's reads returned
    end,         \* of the connection: "open", "shut", "failed"
    flushes

vars == <<slice, acked, obuf, staged, wprng, wire, rprng, plain, end, flushes>>

Garbage == 0
Generator == [word: 0..MaxBytes, count: 0..(PAD_SWITCH - 1)]
Masked == [byte: 1..MaxBytes, mask: Generator]

TypeOK ==
    /\ slice \in {0} \cup Slices /\ acked \in 0..MaxBytes /\ staged \in {0} \cup Slices
    /\ obuf \in Seq(Masked) /\ wire \in Seq(Masked) /\ plain \in Seq(0..MaxBytes)
    /\ wprng \in Generator /\ rprng \in Generator
    /\ end \in {"open", "shut", "failed"} /\ flushes \in 0..MaxFlush

(* The stream has carried some bytes, all of them read. *)
Init ==
    /\ slice = 0 /\ acked = 0 /\ obuf = <<>> /\ staged = 0
    /\ wprng \in [word: {0}, count: 0..(PAD_SWITCH - 1)] /\ rprng = wprng
    /\ wire = <<>> /\ plain = <<>> /\ end = "open" /\ flushes = 0

-----------------------------------------------------------------------------
(* The walk over n bytes from generator g: what is left of the word in     *)
(* use, then whole words, then the beginning of one more.                  *)

Rest(g, n) == IF g.count = 0 THEN 0 ELSE Min({n, PAD_SWITCH - g.count})

(* Mutant: the word used up is left in place until more bytes come. *)
AfterRest_late(g, n) ==
    IF g.count # 0 /\ g.count + Rest(g, n) = PAD_SWITCH /\ n > Rest(g, n)
    THEN [word |-> g.word + 1, count |-> 0]
    ELSE [g EXCEPT !.count = @ + Rest(g, n)]

AfterRest(g, n) ==
    IF g.count # 0 /\ g.count + Rest(g, n) = PAD_SWITCH
    THEN [word |-> g.word + 1, count |-> 0]
    ELSE [g EXCEPT !.count = @ + Rest(g, n)]

Groups(g, n) == (n - Rest(g, n)) \div PAD_SWITCH

(* The byte of the word that the i-th of n bytes meets. *)
MaskOf(g, n, i) ==
    LET from == AfterRest(g, n)
        j == i - Rest(g, n) - 1
    IN CASE j < 0 -> [g EXCEPT !.count = @ + i - 1]
         [] j \in 0..(Groups(g, n) * PAD_SWITCH - 1) ->
                [word |-> from.word + (j \div PAD_SWITCH), count |-> j % PAD_SWITCH]
         [] OTHER ->
                [word |-> from.word + Groups(g, n), count |-> from.count + (j % PAD_SWITCH)]

(* Mutant: only the bytes after the whole words are counted. *)
WriteBack_tail(g, n) ==
    [word |-> AfterRest(g, n).word + Groups(g, n),
     count |-> (n - Rest(g, n)) % PAD_SWITCH]

(* The generator as it is written back. *)
WriteBack(g, n) ==
    [word |-> AfterRest(g, n).word + Groups(g, n), count |-> (g.count + n) % PAD_SWITCH]

encrypt_with_prng(bytes) ==
    [i \in DOMAIN bytes |-> [byte |-> bytes[i], mask |-> MaskOf(wprng, Len(bytes), i)]]
decrypt_with_prng(masked) ==
    [i \in DOMAIN masked |->
        IF masked[i].mask = MaskOf(rprng, Len(masked), i) THEN masked[i].byte ELSE Garbage]

-----------------------------------------------------------------------------
(* poll_drain() on the ciphertext `out': the connection takes k bytes, one *)
(* or more at a time, then all are gone, or it would block, or it fails.   *)
Drain(out, k) ==
    /\ k \in 0..Len(out) /\ (k = 0 \/ end = "open")
    /\ obuf' = SubSeq(out, k + 1, Len(out)) /\ wire' = wire \o SubSeq(out, 1, k)
    /\ end' \in IF k < Len(out) /\ end = "open" THEN {"open", "failed"} ELSE {end}

(* Ready(Ok): nothing is left to write. *)
Drained == obuf' = <<>> /\ end' # "failed"

(* The caller has a new slice to write: pipe's copy loop, which writes all *)
(* of it before it reads again.                                            *)
Offer(n) ==
    /\ slice = 0 /\ end = "open" /\ acked + n <= MaxBytes
    /\ slice' = n
    /\ UNCHANGED <<acked, obuf, staged, wprng, wire, rprng, plain, end, flushes>>

(* Mutant: a retry encrypts its slice again. *)
Encrypted_anew == encrypt_with_prng([i \in 1..slice |-> acked + i])

(* The ciphertext that a call has to drain. *)
Encrypted ==
    IF staged = 0 THEN encrypt_with_prng([i \in 1..slice |-> acked + i]) ELSE obuf

(* poll_write().  With nothing staged obuf is empty (staged is what obuf   *)
(* was made from, and it is cleared with the last byte), and the drain     *)
(* before encrypting returns at once.                                      *)
PollWrite(k) ==
    /\ slice # 0 /\ end # "shut"
    /\ wprng' = IF staged = 0 THEN WriteBack(wprng, slice) ELSE wprng
    /\ Drain(Encrypted, k)
    /\ IF Drained THEN acked' = acked + slice /\ staged' = 0 /\ slice' = 0
                  ELSE staged' = slice /\ UNCHANGED <<acked, slice>>
    /\ UNCHANGED <<rprng, plain, flushes>>

(* poll_flush(), also between a Pending poll_write() and its retry. *)
PollFlush(k) ==
    /\ flushes < MaxFlush /\ end # "shut" /\ flushes' = flushes + 1
    /\ Drain(obuf, k)
    /\ UNCHANGED <<slice, acked, staged, wprng, rprng, plain>>

(* poll_shutdown(): the connection is shut once the drain has ended, well  *)
(* or badly.                                                               *)
PollShutdown(k) ==
    /\ end # "shut" /\ k \in 0..Len(obuf) /\ (k = 0 \/ end = "open")
    /\ obuf' = SubSeq(obuf, k + 1, Len(obuf)) /\ wire' = wire \o SubSeq(obuf, 1, k)
    /\ \/ end' = "shut"
       \/ obuf' # <<>> /\ end = "open" /\ UNCHANGED end          \* Pending
    /\ UNCHANGED <<slice, acked, staged, wprng, rprng, plain, flushes>>

(* poll_read() at the peer: what arrived is decrypted, whatever the poll   *)
(* returned.                                                               *)
PollRead(n) ==
    /\ n \in 1..Len(wire)
    /\ plain' = plain \o decrypt_with_prng(SubSeq(wire, 1, n))
    /\ wire' = SubSeq(wire, n + 1, Len(wire)) /\ rprng' = WriteBack(rprng, n)
    /\ UNCHANGED <<slice, acked, obuf, staged, wprng, end, flushes>>

Next ==
    \/ \E n \in Slices : Offer(n)
    \/ \E k \in 0..MaxBytes : PollWrite(k) \/ PollFlush(k) \/ PollShutdown(k) \/ PollRead(k)

Spec == Init /\ [][Next]_vars

-----------------------------------------------------------------------------
(* However writes are cut up, retried and flushed, and the reads cut up:   *)
(* the peer reads the bytes that were written, each once and in order; and *)
(* a byte reported as written has been taken by the connection ("never     *)
(* that it was merely queued here").                                       *)
BytesRight ==
    /\ \A i \in DOMAIN plain : plain[i] = i
    /\ acked <= Len(plain) + Len(wire)

-----------------------------------------------------------------------------
(* What it rests on: an inductive invariant, in parts.                     *)

(* The place of a generator in its sequence of bytes. *)
Place(g) == g.word * PAD_SWITCH + g.count

(* Ciphertext holds the bytes that follow the first n, each masked with    *)
(* the byte of its place.                                                  *)
Follows(cipher, n) ==
    \A i \in DOMAIN cipher :
        /\ cipher[i].byte = n + i
        /\ Place(cipher[i].mask) = Place(rprng) + (n - Len(plain)) + (i - 1)

Aligned ==
    /\ Follows(wire, Len(plain)) /\ Follows(obuf, Len(plain) + Len(wire))
    /\ Place(wprng) = Place(rprng) + Len(wire) + Len(obuf)
    /\ Place(rprng) - Len(plain) \in 0..(PAD_SWITCH - 1)

(* What is staged is the slice on offer, of which obuf is the rest. *)
Staged ==
    /\ Len(obuf) <= staged /\ acked + slice <= MaxBytes
    /\ staged # 0 => staged = slice
    /\ acked + staged = Len(plain) + Len(wire) + Len(obuf)

QppInv == TypeOK /\ Aligned /\ Staged /\ \A i \in DOMAIN plain : plain[i] = i
=============================================================================
