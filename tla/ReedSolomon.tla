----------------------------- MODULE ReedSolomon -----------------------------
(***************************************************************************)
(* The Reed-Solomon codec under the FEC layer (rs/matrix.rs, rs/codec.rs)  *)
(* on shards of one byte: the bytes of longer ones are coded independently *)
(* of each other.  Indices of shards, rows and columns are counted from 1; *)
(* the point of row r is r - 1.                                            *)
(***************************************************************************)
EXTENDS Integers, Sequences, FiniteSets, FiniteSetsExt, SequencesExt, Bitwise

CONSTANTS
    EXP_TABLE, LOG_TABLE, MUL_TABLE,     \* of the field: module Galois
    ds, ps,                              \* data_shards, parity_shards
    Bytes,                               \* the bytes a group may consist of
    INVERSION_CACHE_MAX

VARIABLES
    matrix,    \* the encoding matrix, Codec::m
    tree,      \* inverted matrices by the missing rows they are for
    data,      \* the group's data, as it was encoded
    shards     \* what the decoder has: a byte, or Missing

vars == <<matrix, tree, data, shards>>

Order == Cardinality(DOMAIN EXP_TABLE) - 1
Missing == -1
total == ds + ps

TypeOK ==
    /\ matrix \in [1..total -> [1..ds -> 0..Order]]
    /\ data \in [1..ds -> Bytes] /\ shards \in [1..total -> {Missing} \cup 0..Order]
    /\ Cardinality(DOMAIN tree) <= INVERSION_CACHE_MAX

gal_add(a, b) == a ^^ b
gal_multiply(a, b) == MUL_TABLE[a, b]
gal_one_over(a) == EXP_TABLE[Order - LOG_TABLE[a]]
gal_exp(a, n) == IF n = 0 THEN 1 ELSE IF a = 0 THEN 0 ELSE EXP_TABLE[(LOG_TABLE[a] * n) % Order]

(* The sum of f over the columns of a matrix. *)
Sum_gal(f) == FoldFunction(gal_add, 0, f)

(* Matrices are functions from rows to functions from columns. *)
multiply(m, n) ==
    [r \in DOMAIN m |-> [c \in DOMAIN n[1] |->
        Sum_gal([i \in DOMAIN n |-> gal_multiply(m[r][i], n[i][c])])]]

vandermonde(rows, cols) == [r \in 1..rows |-> [c \in 1..cols |-> gal_exp(r - 1, c - 1)]]

Augmented(m) ==
    [r \in DOMAIN m |-> m[r] \o [c \in DOMAIN m |-> IF c = r THEN 1 ELSE 0]]

(* Row r scaled by a and the others less their multiples of it; a row with *)
(* no pivot is exchanged for one below that has one.                       *)
Pivot(w, r) == CHOOSE p \in r..Len(w) : w[p][r] # 0 /\ \A q \in r..p - 1 : w[q][r] = 0
Scaled(row, a) == [c \in DOMAIN row |-> gal_multiply(row[c], a)]
Less(row, a, by) == [c \in DOMAIN row |-> gal_add(row[c], gal_multiply(a, by[c]))]

(* gaussian_elimination(): below the diagonal while going down, ... *)
Lowered[w \in Seq(Seq(0..Order)), r \in Nat] ==
    IF r > Len(w) THEN w
    ELSE LET p == Pivot(w, r)
             s == [w EXCEPT ![r] = w[p], ![p] = w[r]]
             one == Scaled(s[r], gal_one_over(s[r][r]))
         IN Lowered[[i \in DOMAIN s |-> IF i < r THEN s[i] ELSE IF i = r THEN one
                                        ELSE Less(s[i], s[i][r], one)], r + 1]
(* ... then above it. *)
Raised[w \in Seq(Seq(0..Order)), d \in Nat] ==
    IF d > Len(w) THEN w
    ELSE Raised[[i \in DOMAIN w |-> IF i < d THEN Less(w[i], w[i][d], w[d]) ELSE w[i]], d + 1]

invert(m) ==
    LET w == Raised[Lowered[Augmented(m), 1], 1]
    IN [r \in DOMAIN m |-> SubSeq(w[r], Len(m) + 1, 2 * Len(m))]

(* The encoding matrix: its upper square is the identity. *)
build_matrix ==
    LET vm == vandermonde(total, ds) IN multiply(vm, invert(SubSeq(vm, 1, ds)))

(* code_some_shards(): every row's combination of the inputs. *)
Coded(rows, inputs) == [r \in DOMAIN rows |-> multiply(<<rows[r]>>, [i \in 1..ds |-> <<inputs[i]>>])[1][1]]

(* encode(): the data as it is, and the parity computed from it. *)
encode(m, d) == d \o Coded(SubSeq(m, ds + 1, total), d)

Init ==
    /\ matrix = build_matrix /\ tree = <<>>       \* the empty function
    /\ data \in [1..ds -> Bytes] /\ shards = encode(matrix, data)

-----------------------------------------------------------------------------
present == {i \in 1..total : shards[i] # Missing}
enough == Cardinality(present) >= ds

(* The first ds rows that are there, in order, and the rows missing before *)
(* the last of them: the key of the cache.                                 *)
valid_indices == SubSeq(SetToSortSeq(present, <), 1, ds)

(* Mutant: the missing data rows as the key. *)
invalid_indices_data == (1..ds) \ present

invalid_indices == (1..valid_indices[ds]) \ present

Kept == IF Cardinality(DOMAIN tree) >= INVERSION_CACHE_MAX /\ invalid_indices \notin DOMAIN tree
        THEN <<>> ELSE tree

get_decode_matrix ==
    IF invalid_indices \in DOMAIN Kept THEN Kept[invalid_indices]
    ELSE invert([r \in 1..ds |-> matrix[valid_indices[r]]])

reconstruct_data ==
    /\ enough /\ ~((1..ds) \subseteq present)
    /\ tree' = [k \in DOMAIN Kept \cup {invalid_indices} |->
                   IF k = invalid_indices THEN get_decode_matrix ELSE Kept[k]]
    /\ LET out == Coded(get_decode_matrix, [r \in 1..ds |-> shards[valid_indices[r]]])
       IN shards' = [i \in 1..total |-> IF i <= ds /\ shards[i] = Missing THEN out[i] ELSE shards[i]]
    /\ UNCHANGED <<matrix, data>>

(* Another group, of which some shards arrive. *)
Group(d, arrived) ==
    /\ ~enough \/ (1..ds) \subseteq present
    /\ data' = d
    /\ shards' = [i \in 1..total |-> IF i \in arrived THEN encode(matrix, d)[i] ELSE Missing]
    /\ UNCHANGED <<matrix, tree>>

Next == reconstruct_data \/ \E d \in [1..ds -> Bytes], arrived \in SUBSET (1..total) : Group(d, arrived)

Spec == Init /\ [][Next]_vars

-----------------------------------------------------------------------------
(* A data shard is what was encoded, whether it arrived or was computed,   *)
(* and whatever matrices are in the cache: any ds shards of a group give   *)
(* its data.                                                               *)
DataRight == \A i \in 1..ds : shards[i] # Missing => shards[i] = data[i]
=============================================================================
