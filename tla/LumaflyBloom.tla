---------------------------- MODULE LumaflyBloom ----------------------------
(***************************************************************************)
(* The Bloom filter of cpp/src/lumafly_bloom.cpp.  MurmurHash is a pair of *)
(* given numbers for each key; what is made of them is as in the code, the *)
(* 32-bit sum with a smaller width.                                        *)
(***************************************************************************)
EXTENDS Integers, SequencesExt

CONSTANTS
    H1, H2,     \* the two hashes of each key
    HashRange,  \* 2^32 in the code
    NumBits, NumHashes  \* what lumafly_create works out from its arguments

ASSUME BloomConstants ==
    /\ HashRange \in Nat \ {0} /\ NumBits \in Nat \ {0} /\ NumHashes \in Nat \ {0}
    /\ \A k \in DOMAIN H1 : H1[k] \in 0..(HashRange - 1) /\ H2[k] \in 0..(HashRange - 1)

\* The bits of key in a filter.
BitsOf(f, key) ==
    {((H1[key] + i * H2[key]) % HashRange) % f.num_bits : i \in 0..(f.num_hashes - 1)}

lumafly_create == [num_bits |-> NumBits, num_hashes |-> NumHashes, bit_array |-> {}]

lumafly_add(f, key) == [f EXCEPT !.bit_array = @ \cup BitsOf(f, key)]

\* No filter, as after Close, contains nothing.
lumafly_contains(f, key) == f # <<>> /\ BitsOf(f, key) \subseteq f.bit_array

\* The block on disk: two numbers and whole bytes of bits.
Bytes(num_bits) == (num_bits + 7) \div 8
lumafly_serialize(f) == <<f.num_bits, f.num_hashes, Bytes(f.num_bits), f.bit_array>>

\* Loading yields no filter when the bits it should have are not all there.
lumafly_deserialize(b) ==
    IF Bytes(b[1]) > b[3] THEN <<>>
    ELSE [num_bits |-> b[1], num_hashes |-> b[2], bit_array |-> b[4]]
=============================================================================
