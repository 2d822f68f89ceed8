------------------------------ MODULE AutoTune ------------------------------
(***************************************************************************)
(* How a FEC decoder finds the parameters of a peer that does not share    *)
(* its own (crates/kcp/src/autotune.rs and the tuning branch of decode()   *)
(* in crates/kcp/src/fec.rs): a ring of the latest packets' types and      *)
(* numbers, sorted, and the width of the first complete pulse in it.  The  *)
(* shard sets the parameters govern are in module Fec.                     *)
(***************************************************************************)
EXTENDS Integers, Sequences, FiniteSets, FiniteSetsExt, TLC

CONSTANTS
    PeerData, PeerParity,           \* the peer's parameters
    OwnData, OwnParity,             \* the decoder's at first
    SeqLimit,                       \* the largest sequence number (0xffffffff in the code)
    MAX_AUTO_TUNE_SAMPLES,
    TuneLimit,                      \* periods of a sum below this are believed (256 in the code)
    InFlight,                       \* bound on the packets under way
    MaxFaults                       \* bound on losses, repetitions, overtakings and skipped parity

VARIABLES
    next,                           \* the peer's next number
    net,                            \* the packets under way, oldest first
    ring,                           \* the samples, oldest first
    data_shards, parity_shards, should_tune,
    faults

vars == <<next, net, ring, data_shards, parity_shards, should_tune, faults>>

Mod == SeqLimit + 1
paws(size) == (SeqLimit \div size) * size
PeerSize == PeerData + PeerParity
Pulse == [bit: BOOLEAN, seq: 0..SeqLimit]

TypeOK ==
    /\ next \in 0..paws(PeerSize) - 1 /\ should_tune \in BOOLEAN /\ faults \in 0..MaxFaults
    /\ net \in Seq(Pulse) /\ Len(net) <= InFlight
    /\ ring \in Seq(Pulse) /\ Len(ring) <= MAX_AUTO_TUNE_SAMPLES
    /\ {data_shards, parity_shards} \subseteq 1..MAX_AUTO_TUNE_SAMPLES

Init ==
    /\ next = 0 /\ net = <<>> /\ ring = <<>> /\ faults = 0
    /\ data_shards = OwnData /\ parity_shards = OwnParity /\ should_tune = FALSE

-----------------------------------------------------------------------------
(* Mutant: a full ring takes no more samples. *)
sample_stops(pulse) ==
    IF Len(ring) < MAX_AUTO_TUNE_SAMPLES THEN Append(ring, pulse) ELSE ring

sample(pulse) ==
    Append(IF Len(ring) < MAX_AUTO_TUNE_SAMPLES THEN ring ELSE Tail(ring), pulse)

itimediff(later, earlier) ==
    LET d == (later - earlier) % Mod IN IF d >= Mod \div 2 THEN d - Mod ELSE d

(* Mutant: gaps in the numbers are ignored. *)
Consecutive_any(sorted, n) == TRUE

(* The first n samples have consecutive numbers. *)
Consecutive(sorted, n) == \A i \in 1..n - 1 : (sorted[i].seq + 1) % Mod = sorted[i + 1].seq

(* The first edge towards the bit, the first one away from it after that,  *)
(* and no gap before.                                                      *)
find_period(samples, bit) ==
    LET sorted  == SortSeq(samples, LAMBDA a, b : itimediff(a.seq, b.seq) < 0)
        lefts   == {i \in 2..Len(sorted) : sorted[i - 1].bit # bit /\ sorted[i].bit = bit}
        rights  == {i \in Min(lefts) + 1..Len(sorted) : sorted[i - 1].bit = bit /\ sorted[i].bit # bit}
    IN  IF Len(samples) >= 3 /\ lefts # {} /\ rights # {} /\ Consecutive(sorted, Min(rights))
        THEN Min(rights) - Min(lefts) ELSE -1

Tune(ds, ps) ==
    /\ data_shards' = ds /\ parity_shards' = ps /\ should_tune' = FALSE

(* decode() up to the shard sets: a packet with a number beyond the own    *)
(* period of numbers is sampled and no more.                               *)
Decode(pkt) ==
    LET size     == data_shards + parity_shards
        expected == pkt.seq % size < data_shards
        ds       == find_period(ring', TRUE)
        ps       == find_period(ring', FALSE)
    IN  /\ ring' = sample(pkt)
        /\ IF pkt.seq >= paws(size) \/ ~(should_tune \/ pkt.bit # expected)
           THEN UNCHANGED <<data_shards, parity_shards, should_tune>>
           ELSE IF ds > 0 /\ ps > 0 /\ ds + ps < TuneLimit
                THEN Tune(ds, ps)
                ELSE should_tune' = TRUE /\ UNCHANGED <<data_shards, parity_shards>>

-----------------------------------------------------------------------------
Faulty(yes) == faults' = (IF yes THEN faults + 1 ELSE faults) /\ faults' <= MaxFaults

(* The peer seals its next number; parity may be left out (skip_parity()). *)
Send(skip) ==
    LET pkt == [bit |-> next % PeerSize < PeerData, seq |-> next]
    IN  /\ Len(net) < InFlight /\ (skip => ~pkt.bit)
        /\ Faulty(skip)
        /\ net' = IF skip THEN net ELSE Append(net, pkt)
        /\ next' = (next + 1) % paws(PeerSize)
        /\ UNCHANGED <<ring, data_shards, parity_shards, should_tune>>

Without(i) == SubSeq(net, 1, i - 1) \o SubSeq(net, i + 1, Len(net))

Deliver(i, again) ==
    /\ i \in DOMAIN net
    /\ Faulty(again \/ i > 1)
    /\ Decode(net[i])
    /\ net' = IF again THEN net ELSE Without(i)
    /\ UNCHANGED next

Lose(i) ==
    /\ i \in DOMAIN net
    /\ Faulty(TRUE)
    /\ net' = Without(i)
    /\ UNCHANGED <<next, ring, data_shards, parity_shards, should_tune>>

Next ==
    \/ \E skip \in BOOLEAN : Send(skip)
    \/ \E i \in 1..InFlight : Lose(i) \/ \E again \in BOOLEAN : Deliver(i, again)

Spec == Init /\ [][Next]_vars

Sends == Send(FALSE)
Delivers == Deliver(1, FALSE)

(* The peer keeps sending, and the network, its faults spent, keeps delivering. *)
FairSpec == Spec /\ WF_vars(Sends) /\ WF_vars(Delivers)

-----------------------------------------------------------------------------
(* Whatever is lost, repeated or overtaken, and when the numbers begin     *)
(* anew: tuning finds the peer's parameters or none, never a third pair    *)
(* with which recovered packets would be garbage.                          *)
PeriodRight ==
    <<data_shards, parity_shards>> \in {<<OwnData, OwnParity>>, <<PeerData, PeerParity>>}

(* The decoder has its peer's parameters and needs no tuning: once the     *)
(* network behaves it comes to stay so.                                    *)
Following == data_shards = PeerData /\ parity_shards = PeerParity /\ ~should_tune
=============================================================================
