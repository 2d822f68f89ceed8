--------------------------------- MODULE Fec ---------------------------------
(***************************************************************************)
(* Forward error correction (crates/kcp/src/fec.rs): an encoder that adds  *)
(* parity packets to every group of data packets, a network that loses,    *)
(* repeats and reorders what it still carries, and a decoder with the same *)
(* parameters.  A packet is its sequence number and, for the properties,   *)
(* the turn of the sequence numbers it was sent in; what Reed-Solomon      *)
(* makes of shards that belong together is their group's data (external).  *)
(***************************************************************************)
EXTENDS Integers, Sequences, FiniteSets

CONSTANTS
    data_shards, parity_shards,
    SeqLimit,           \* the largest sequence number (0xffffffff in the code)
    MAX_SHARD_SETS,
    Delay,              \* how many numbers behind the newest the network delivers
    InFlight,           \* bound on the packets it carries at a time
    Silence             \* bound on the numbers lost in a row

shard_size == data_shards + parity_shards
paws == (SeqLimit \div shard_size) * shard_size
Mod == SeqLimit + 1

VARIABLES
    next, shard_count,  \* the encoder's next number, and the data packets of its group
    turn,               \* how often the numbers began anew, modulo 2
    net,                \* what the network carries
    shard_set,          \* the decoder: of each shard id, the packets it holds
    newest_shard_id, should_tune,
    mixed,              \* data was recovered from shards that do not belong together
    got, known          \* of the groups still under way, the numbers delivered, and the data
                        \* delivered or recovered

vars == <<next, shard_count, turn, net, shard_set, newest_shard_id, should_tune, mixed,
          got, known>>

Packet == [seq: 0..paws - 1, data: BOOLEAN, turn: 0..1]
Ids == 0..(paws \div shard_size) - 1
Group(pkt) == [id |-> pkt.seq \div shard_size, turn |-> pkt.turn]

TypeOK ==
    /\ next \in 0..paws - 1 /\ shard_count \in 0..data_shards - 1 /\ turn \in 0..1
    /\ net \subseteq Packet /\ shard_set \in [Ids -> SUBSET Packet]
    /\ newest_shard_id \in Ids /\ {should_tune, mixed} \subseteq BOOLEAN
    /\ {got, known} \subseteq SUBSET (0..paws - 1)

Init ==
    /\ next = 0 /\ shard_count = 0 /\ turn = 0 /\ net = {}
    /\ shard_set = [i \in Ids |-> {}] /\ newest_shard_id = 0 /\ should_tune = FALSE
    /\ mixed = FALSE /\ got = {} /\ known = {}

-----------------------------------------------------------------------------
(* encode().                                                               *)

(* The packet with the k-th number from next on, and the encoder after n.  *)
Seal(k, data) == [seq |-> (next + k) % paws, data |-> data,
                  turn |-> IF next + k < paws THEN turn ELSE 1 - turn]

Advance(n) ==
    /\ next' = (next + n) % paws
    /\ turn' = IF next + n < paws THEN turn ELSE 1 - turn

(* How many groups `id' is behind `newest'. *)
Behind(newest, id) == (newest - id) % (paws \div shard_size)

(* The network takes the packet `first', and any others or none; it loses  *)
(* what is more than Delay numbers behind and whatever else it likes.      *)
Carry(first, more) ==
    /\ net' \in SUBSET {p \in net \cup more \cup {first} : (next' - p.seq) % paws <= Delay}
    /\ first \in net' /\ Cardinality(net') <= InFlight

(* Those of the numbers whose groups the network may still carry a packet  *)
(* of.                                                                     *)
Current(numbers, n) ==
    {s \in numbers : Behind(n \div shard_size, s \div shard_size)
                        <= (Delay + shard_size - 1) \div shard_size}

(* Mutant: parity that is not sent takes no numbers. *)
SkipParity_none == 0

(* skip_parity(). *)
SkipParity == parity_shards

(* The decoder is not too many numbers behind. *)
Heard == (next - newest_shard_id * shard_size) % paws < Silence

(* A data packet is sealed; the one that completes the group is followed   *)
(* by the parity, or by none if it came too late after the one before: the *)
(* numbers are used up all the same.                                       *)
Encode(continuous) ==
    LET complete == shard_count + 1 = data_shards
        parity   == {Seal(k, FALSE) : k \in 1..parity_shards}
    IN  /\ Heard
        /\ shard_count' = (shard_count + 1) % data_shards
        /\ Advance(1 + IF ~complete THEN 0 ELSE IF continuous THEN parity_shards ELSE SkipParity)
        /\ got' = Current(got, next') /\ known' = Current(known, next')
        /\ Carry(Seal(0, TRUE), IF complete /\ continuous THEN parity ELSE {})
        /\ UNCHANGED <<shard_set, newest_shard_id, should_tune, mixed>>

-----------------------------------------------------------------------------
(* decode().                                                               *)

itimediff(later, earlier) ==
    LET d == (later - earlier) % Mod IN IF d >= Mod \div 2 THEN d - Mod ELSE d

(* Mutant: no shard set is too old. *)
TooOld_never(newest, id) == FALSE

(* Mutant: one shard set fewer is kept. *)
TooOld_early(newest, id) == itimediff(newest * shard_size, id * shard_size) > (MAX_SHARD_SETS - 1) * shard_size

(* discard_shards(). *)
TooOld(newest, id) == itimediff(newest * shard_size, id * shard_size) > MAX_SHARD_SETS * shard_size

Newer(id) == itimediff(id * shard_size, newest_shard_id * shard_size) > 0

(* Mutant: a group is taken to be one number larger. *)
get_shard_id_wide(seq) == seq \div (shard_size + 1)

get_shard_id(seq) == seq \div shard_size

(* The type a number stands for. *)
Expected(seq) == seq % shard_size < data_shards

(* The numbers of a group: its first n. *)
Numbers(id, n) == {id * shard_size + k : k \in 0..n - 1}

(* What is known of a group by the packet and what decode() recovered; a   *)
(* group of which all data is known is begun anew.                         *)
Learn(pkt, more) ==
    LET id   == pkt.seq \div shard_size
        data == known \cup more \cup IF pkt.data THEN {pkt.seq} ELSE {}
        done == IF Numbers(id, data_shards) \subseteq data THEN Numbers(id, shard_size) ELSE {}
    IN  got' = (got \cup {pkt.seq}) \ done /\ known' = data \ done

(* With enough shards the set is emptied, and missing data reconstructed.  *)
Insert(pkt) ==
    LET id     == get_shard_id(pkt.seq)
        heap   == shard_set[id] \cup {pkt}
        enough == Cardinality(heap) >= data_shards
        lost   == Numbers(id, data_shards) \ {p.seq : p \in heap}
        newest == IF Newer(id) THEN id ELSE newest_shard_id
        sets   == [shard_set EXCEPT ![id] = IF enough THEN {} ELSE heap]
    IN  /\ mixed' = (mixed \/ (enough /\ lost # {} /\ \E p \in heap : Group(p) # Group(pkt)))
        /\ Learn(pkt, IF enough THEN lost ELSE {})
        /\ newest_shard_id' = newest
        /\ shard_set' = [i \in Ids |-> IF TooOld(newest, i) THEN {} ELSE sets[i]]

(* A packet of the wrong type asks for tuning, which finds the parameters  *)
(* as they are (module AutoTune); a duplicate is ignored.                  *)
Decode(pkt) ==
    IF pkt.data # Expected(pkt.seq)
    THEN /\ should_tune' = TRUE /\ Learn(pkt, {})
         /\ UNCHANGED <<shard_set, newest_shard_id, mixed>>
    ELSE /\ UNCHANGED should_tune
         /\ IF \E p \in shard_set[get_shard_id(pkt.seq)] : p.seq = pkt.seq
            THEN Learn(pkt, {}) /\ UNCHANGED <<shard_set, newest_shard_id, mixed>>
            ELSE Insert(pkt)

(* The network delivers a packet, and may deliver it again. *)
Deliver(pkt, again) ==
    /\ Decode(pkt)
    /\ net' = IF again THEN net ELSE net \ {pkt}
    /\ UNCHANGED <<next, shard_count, turn>>

Next ==
    \/ \E continuous \in BOOLEAN : Encode(continuous)
    \/ \E pkt \in net, again \in BOOLEAN : Deliver(pkt, again)

Spec == Init /\ [][Next]_vars

-----------------------------------------------------------------------------
(* Shards that data is recovered from all belong to one group of the       *)
(* encoder, also after the numbers have begun anew: what is handed to KCP  *)
(* is what was sent.                                                       *)
RecoveredRight == ~mixed

(* A packet of the group comes in time: the decoder has seen nothing of a  *)
(* group more than MAX_SHARD_SETS after it.  Where the numbers begin anew  *)
(* between the two it is one group less, for the numbers from paws on are  *)
(* counted there, though nobody uses them (discard_shards).                *)
InTime(id) ==
    \/ Behind(newest_shard_id, id) < MAX_SHARD_SETS
    \/ Behind(newest_shard_id, id) = MAX_SHARD_SETS /\ id <= newest_shard_id

(* As many packets of a group as it has data are enough, in whatever order *)
(* and between whatever packets of other groups they come, as long as they *)
(* come in time: all of its data is delivered or recovered.                *)
EnoughSuffices ==
    \A id \in Ids : InTime(id) => Cardinality(got \cap Numbers(id, shard_size)) < data_shards

(* A peer with our parameters is never found out of tune, whatever is lost *)
(* and whether or not the parity was sent.                                 *)
InTune == ~should_tune

(* The decoder's memory is bounded: packets of at most MAX_SHARD_SETS + 1  *)
(* groups are held, also when the numbers begin anew (discard_shards).     *)
SetsBounded == Cardinality({i \in Ids : shard_set[i] # {}}) <= MAX_SHARD_SETS + 1
=============================================================================
