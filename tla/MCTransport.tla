----------------------------- MODULE MCTransport -----------------------------
(***************************************************************************)
(* The parts of the KCP crate whose properties are safety properties, on   *)
(* small instances.  They share no state and are checked side by side:     *)
(* `part' says which of them a behaviour is about.                         *)
(*   "recv"     - KcpRecv, a KCP instance's receiving half;                *)
(*   "ring"     - RingBuffer, the queues of an instance;                   *)
(*   "heap"     - Heap, its receive buffer and the requests of a stream;   *)
(*   "sort"     - GoSort, which orders the auto-tuner's samples;           *)
(*   "rs"       - ReedSolomon, the code under the FEC layer, in a field of *)
(*                sixteen elements;                                        *)
(*   "rate"     - Limiter, which paces the transmit task;                  *)
(*   "fec"      - Fec, an encoder, a network and a decoder;                *)
(*   "listener" - Listener, the sessions of one socket;                    *)
(*   "session"  - Session, the tasks around one instance.                  *)
(***************************************************************************)
EXTENDS Transport, KcpRecv, Galois, TLC

CONSTANTS
    HeapHalf, Classes, HeapMax,                                                 \* Heap
    SortSize, SortKeys, SortHalf, Spared, MAX_INSERTION, SHORTEST_MEDIAN, SHORTEST_NINTHER,
    SHORTEST_SHIFTING, MAX_STEPS, BalanceShare,                                 \* GoSort
    ds, ps, Bytes, INVERSION_CACHE_MAX,                                         \* ReedSolomon
    data_shards, parity_shards, SeqLimit, MAX_SHARD_SETS, Delay, Silence,
    InFlight                                                                    \* Fec

VARIABLES
    items, marks,                                                               \* Heap
    slice, calls, given,                                                        \* GoSort
    matrix, tree, data, shards,                                                 \* ReedSolomon
    next, shard_count, turn, net, shard_set, newest_shard_id, should_tune, mixed, got,
    known                                                                       \* Fec

Hp   == INSTANCE Heap WITH Half <- HeapHalf
Srt  == INSTANCE GoSort
RS   == INSTANCE ReedSolomon
FEC  == INSTANCE Fec

heapVars == <<items, marks>>
sortVars == <<slice, calls, given>>
rsVars == <<matrix, tree, data, shards>>
fecVars == <<next, shard_count, turn, net, shard_set, newest_shard_id, should_tune, mixed,
             got, known>>

(* A part that a behaviour is not about is absent; KcpRecv then rests. *)
NoHeap ==
    /\ items = 0 /\ marks = 0
NoSort ==
    /\ slice = 0 /\ calls = 0 /\ given = 0
NoRs ==
    /\ matrix = 0 /\ tree = 0 /\ data = 0 /\ shards = 0
NoFec ==
    /\ next = 0 /\ shard_count = 0 /\ turn = 0 /\ net = 0 /\ shard_set = 0
    /\ newest_shard_id = 0 /\ should_tune = 0 /\ mixed = FALSE /\ got = 0 /\ known = 0

MCInit ==
    /\ part \in {"recv", "ring", "heap", "sort", "rs", "rate", "fec", "listener", "session"}
    /\ Init /\ (part # "recv" => rcv_wnd = 1)
    /\ TransportInit
    /\ IF part = "heap" THEN Hp!Init ELSE NoHeap
    /\ IF part = "sort" THEN Srt!Init ELSE NoSort
    /\ IF part = "rs" THEN RS!Init ELSE NoRs
    /\ IF part = "fec" THEN FEC!Init ELSE NoFec

(* Bound: a reader is on its way beside one write at most. *)
ReaderOrWriters ==
    part = "session" =>
        count <= 1 \/ (arrived = 0 /\ \A r \in Readers : read_notify.at[r] = "away")

MCNext ==
    \/ /\ TransportNext /\ ReaderOrWriters'
       /\ UNCHANGED <<vars, heapVars, sortVars, rsVars, fecVars>>
    \/ /\ part = "recv" /\ Next
       /\ UNCHANGED <<transportVars, heapVars, sortVars, rsVars, fecVars>>
    \/ /\ part = "heap" /\ Hp!Next
       /\ UNCHANGED <<transportVars, vars, sortVars, rsVars, fecVars>>
    \/ /\ part = "sort" /\ Srt!Next
       /\ UNCHANGED <<transportVars, vars, heapVars, rsVars, fecVars>>
    \/ /\ part = "rs" /\ RS!Next
       /\ UNCHANGED <<transportVars, vars, heapVars, sortVars, fecVars>>
    \/ /\ part = "fec" /\ FEC!Next
       /\ UNCHANGED <<transportVars, vars, heapVars, sortVars, rsVars>>

MCSpec ==
    MCInit /\ [][MCNext]_<<transportVars, vars, heapVars, sortVars, rsVars, fecVars>>

(* The properties treat addresses, conversations and acceptors alike. *)
Symmetry == Permutations(Addrs) \cup Permutations(Convs) \cup Permutations(Acceptors)

-----------------------------------------------------------------------------
(* The state of the part at hand has its type; a free slot of the ring     *)
(* holds nothing, every way to look at the ring shows the same elements,   *)
(* and the decoder holds packets of no more groups than it may             *)
(* (discard_shards).                                                       *)
Typed ==
    CASE part = "recv" -> TypeOK
      [] part = "ring" -> Ring!TypeOK /\ Ring!FreeSlotsEmpty /\ Ring!ViewsAgree
      [] part = "heap" -> Hp!TypeOK
      [] part = "sort" -> Srt!TypeOK
      [] part = "rs" -> RS!TypeOK
      [] part = "rate" -> Rate!TypeOK
      [] part = "fec" -> FEC!TypeOK /\ FEC!SetsBounded
      [] part = "listener" -> L!TypeOK
      [] part = "session" -> S!TypeOK

(* A heap gives the first item first, also where the numbers wrap          *)
(* (SegmentHeap and the shaper's queue).  Samples are sorted wherever      *)
(* their numbers have an order, and never lost or doubled where they have  *)
(* none (gosort::slice).                                                   *)
OrderKept ==
    CASE part = "heap" -> Hp!LeastFirst
      [] part = "sort" -> Srt!Sorts
      [] OTHER -> TRUE

(* Encoder and decoder agree on the groups, also after the numbers have    *)
(* begun anew and when parity is left out: what is recovered is what was   *)
(* sent, and a peer with our parameters is never found out of tune.  As    *)
(* many packets of a group as it has data are enough, in whatever order    *)
(* they come, if each comes while its group is no more than MAX_SHARD_SETS *)
(* groups behind the newest (one less where the numbers begin anew:        *)
(* discard_shards): all of its data is delivered or recovered.             *)
(* And any that many shards decode to the data, whatever inverted matrices *)
(* earlier groups have left in the cache (get_decode_matrix).              *)
RecoversRight ==
    CASE part = "fec" -> FEC!RecoveredRight /\ FEC!InTune /\ FEC!EnoughSuffices
      [] part = "rs" -> RS!DataRight
      [] OTHER -> TRUE

============================================================================
