-------------------------------- MODULE Zstd --------------------------------
(***************************************************************************)
(* The frames of zstd (src/crates/zstd-nostd): compress.rs cuts a file     *)
(* into blocks and looks in each for bytes it has had before; decompress.rs *)
(* copies them back.  One action is one position looked at, one sequence   *)
(* copied, or the end of a block.  How a block's sequences are written as  *)
(* bits is module Fse.                                                     *)
(***************************************************************************)
EXTENDS Integers, Sequences, FiniteSets, FiniteSetsExt

CONSTANTS
    Inputs,         \* sequences of bytes
    MaxBlock,       \* MAX_BLOCK_SIZE
    MinMatch,       \* MIN_MATCH
    HashLength,     \* how many bytes hash4 looks at
    Buckets,        \* its values
    Hash(_)         \* of a sequence of HashLength bytes

FirstOffsets == <<1, 4, 8>>

VARIABLES
    input, phase,
    from,           \* where the block begins in the input
    at, litStart,   \* places in the block, from 0
    offsets,        \* of the encoder
    hashes,         \* where bytes of a hash were last
    sequences, literals,    \* of the block
    blocks,         \* [kind, sequences, literals], in the decoder those not read yet
    recent,         \* the decoder's offsets
    output,
    actual          \* the distances of the block's matches (history)
vars == <<input, phase, from, at, litStart, offsets, hashes, sequences, literals, blocks,
          recent, output, actual>>
encoder == <<from, at, litStart, offsets, hashes>>

NoHashes == [h \in Buckets |-> 0]
Init ==
    /\ input \in Inputs /\ phase = "encode" /\ from = 0 /\ at = 0 /\ litStart = 0
    /\ offsets = FirstOffsets /\ hashes = NoHashes
    /\ sequences = <<>> /\ literals = <<>> /\ blocks = <<>>
    /\ recent = FirstOffsets /\ output = <<>> /\ actual = <<>>

Least(a, b) == IF a < b THEN a ELSE b
Piece(s, first, end) == SubSeq(s, first + 1, end)   \* Rust's s[first..end]
Block == Piece(input, from, Least(from + MaxBlock, Len(input)))
Byte(i) == Block[i + 1]

-----------------------------------------------------------------------------
(* The encoder, in find_matches.                                           *)

CountMatch(a, b) ==
    LET same == {k \in 0..(Len(Block) - b) : \A i \in 0..(k - 1) : Byte(a + i) = Byte(b + i)}
    IN  Max(same)

\* (mutant: the numbers do not shift)
RepeatCode_Unshifted(k, litLen) == k

\* A repeat's number; no literals before it shift the meanings.
RepeatCode(k, litLen) == IF litLen > 0 THEN k ELSE k - 1

\* The first that is longest of the three repeats and, last, the hash table's.
Candidates ==
    LET litLen == at - litStart
        repeats == {<<k, offsets[k], RepeatCode(k, litLen)>> :
                      k \in {r \in 1..3 : offsets[r] <= at /\ offsets[r] > 0}}
        hashed == IF at + HashLength > Len(Block) THEN {}
                  ELSE LET c == hashes[Hash(Piece(Block, at, at + HashLength))]
                       IN  IF c < at /\ c + 3 < Len(Block) THEN {<<4, at - c, at - c + 3>>} ELSE {}
    IN  {<<x[1], CountMatch(at - x[2], at), x[3], x[2]>> : x \in repeats \cup hashed}
Found == {x \in Candidates : x[2] >= MinMatch}
Best == LET found == Found
        IN  CHOOSE x \in found : \A y \in found : y[2] < x[2] \/ (y[2] = x[2] /\ y[1] >= x[1])

\* What a number does to the recent offsets; encoder and decoder each do it.
Updated(recents, number, litLen) ==
    LET shift == IF litLen > 0 THEN 0 ELSE 1
        k == number + shift
    IN  IF number > 3 THEN <<number - 3, recents[1], recents[2]>>
        ELSE IF k = 1 THEN recents
        ELSE IF k = 2 THEN <<recents[2], recents[1], recents[3]>>
        ELSE IF k = 3 THEN <<recents[3], recents[1], recents[2]>>
        ELSE <<recents[1] - 1, recents[1], recents[2]>>

\* The places in first..end whose hash is noted, the last one winning.
Noted(table, first, end) ==
    LET places == {i \in first..(end - 1) : i + HashLength <= Len(Block)}
        with(h) == {i \in places : Hash(Piece(Block, i, i + HashLength)) = h}
    IN  [h \in Buckets |-> IF with(h) = {} THEN table[h] ELSE Max(with(h))]

Searching == phase = "encode" /\ from < Len(input) /\ at + MinMatch <= Len(Block)

Match ==
    /\ Searching /\ Found # {}
    /\ LET litLen == at - litStart
           best == Best
           end == at + best[2]
       IN  /\ literals' = literals \o Piece(Block, litStart, at)
           /\ sequences' = Append(sequences, [litLen |-> litLen, matchLen |-> best[2], offset |-> best[3]])
           /\ actual' = Append(actual, best[4])
           /\ offsets' = Updated(offsets, best[3], litLen)
           /\ hashes' = Noted(hashes, at, end)
           /\ at' = end /\ litStart' = end
    /\ UNCHANGED <<input, phase, from, blocks, recent, output>>

Literal ==
    /\ Searching /\ Found = {}
    /\ hashes' = Noted(hashes, at, at + 1) /\ at' = at + 1
    /\ UNCHANGED <<input, phase, from, litStart, offsets, sequences, literals, blocks, recent,
                   output, actual>>

\* A block is compressed if that makes it smaller, which depends on the bits;
\* one without sequences does not become smaller.
EndBlock ==
    /\ phase = "encode" /\ from < Len(input) /\ at + MinMatch > Len(Block)
    /\ LET lits == literals \o Piece(Block, litStart, Len(Block))
           kinds == IF sequences = <<>> THEN {"raw"} ELSE {"raw", "compressed"}
       IN  \E kind \in kinds :
             blocks' = Append(blocks,
                IF kind = "raw" THEN [kind |-> kind, sequences |-> <<>>, literals |-> Block]
                ELSE [kind |-> kind, sequences |-> sequences, literals |-> lits])
    /\ from' = from + Len(Block) /\ at' = 0 /\ litStart' = 0
    /\ offsets' = FirstOffsets /\ hashes' = NoHashes /\ sequences' = <<>> /\ literals' = <<>>
    /\ actual' = <<>>
    /\ UNCHANGED <<input, phase, recent, output>>

EndFrame ==
    /\ phase = "encode" /\ from = Len(input)
    /\ phase' = "decode"
    /\ blocks' = IF input = <<>> THEN <<[kind |-> "raw", sequences |-> <<>>, literals |-> <<>>]>>
                 ELSE blocks
    /\ UNCHANGED <<input, encoder, sequences, literals, recent, output, actual>>

-----------------------------------------------------------------------------
(* The decoder.  sequences and literals are what is left of the block's.   *)

NextBlock ==
    /\ phase = "decode" /\ sequences = <<>> /\ blocks # <<>>
    /\ sequences' = Head(blocks).sequences
    /\ output' = output \o literals
    /\ literals' = Head(blocks).literals
    /\ blocks' = Tail(blocks)
    /\ UNCHANGED <<input, phase, encoder, recent, actual>>

\* Byte by byte, so that a match may reach into what it makes.
Copied(out, distance, n) ==
    LET copy[i \in 1..(Len(out) + n)] == IF i <= Len(out) THEN out[i] ELSE copy[i - distance]
    IN  [i \in 1..(Len(out) + n) |-> copy[i]]

Resolved(recents, number, litLen) == Updated(recents, number, litLen)

ExecuteSequence ==
    /\ phase = "decode" /\ sequences # <<>>
    /\ LET s == Head(sequences)
           now == Resolved(recent, s.offset, s.litLen)
           sofar == output \o SubSeq(literals, 1, s.litLen)
           fails == s.litLen > Len(literals) \/ s.offset = 0 \/ now[1] = 0 \/ now[1] > Len(sofar)
       IN  /\ phase' = IF fails THEN "failed" ELSE phase
           /\ recent' = IF fails THEN recent ELSE now
           /\ output' = IF fails THEN output ELSE Copied(sofar, now[1], s.matchLen)
           /\ sequences' = Tail(sequences)
           /\ literals' = SubSeq(literals, s.litLen + 1, Len(literals))
    /\ UNCHANGED <<input, encoder, blocks, actual>>

\* The sum and the size of what came out are compared with the file's.
CheckFrame ==
    /\ phase = "decode" /\ sequences = <<>> /\ blocks = <<>>
    /\ output' = output \o literals /\ literals' = <<>>
    /\ phase' = IF output' = input THEN "done" ELSE "failed"
    /\ UNCHANGED <<input, encoder, sequences, blocks, recent, actual>>

Next == Match \/ Literal \/ EndBlock \/ EndFrame \/ NextBlock \/ ExecuteSequence \/ CheckFrame

Spec == Init /\ [][Next]_vars

-----------------------------------------------------------------------------
\* What compress writes, decompress takes back (compress.rs:763): no distance
\* is too far, none means another place, and the sum agrees.
Restores == phase # "failed"

\* A repeat's number never means nothing: right behind a match the last offset
\* cannot match again, so that no sequence is written without an offset
\* (the `continue' at compress.rs:177 leaves the best length without one).
EverySequenceHasAnOffset == \A i \in 1..Len(sequences) : sequences[i].offset > 0

\* The encoder's recent offsets start with the distance of its last match, also
\* when that was a repeat (compress.rs:206).
LastOffsetFirst ==
    (phase = "encode" /\ actual # <<>>) => offsets[1] = actual[Len(actual)]
=============================================================================
