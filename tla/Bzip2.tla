-------------------------------- MODULE Bzip2 --------------------------------
(***************************************************************************)
(* bzip2 and bunzip2 (src/src/applets/archive/bzip2.rs): run lengths,      *)
(* Burrows and Wheeler's transformation, move to front, run lengths of     *)
(* zeroes, and codes of one length, each block by itself, and the way      *)
(* back.  One action is one of these steps.                                *)
(*                                                                         *)
(* ByteCount stands for the 256 values of a byte, GroupSize for the 50     *)
(* symbols that share a selector.  The sums, which the decoder reads and   *)
(* forgets, are left out.                                                  *)
(***************************************************************************)
EXTENDS Integers, Sequences, FiniteSets, FiniteSetsExt

CONSTANTS ByteCount, GroupSize, BlockSize,
          Inputs    \* sequences of bytes


VARIABLES
    input,      \* never changes
    rest,       \* what is not in a block yet
    phase,      \* the next step
    data,       \* what the step works on
    origin, map, groups, selectors, codeLen,    \* what is written of the block besides
    blocks,     \* the blocks written, those not read yet
    output,
    fits        \* no symbol was wider than its code, or the end of the block too early (history)
vars == <<input, rest, phase, data, origin, map, groups, selectors, codeLen, blocks, output, fits>>
heads == <<origin, map, groups, selectors, codeLen>>

Init ==
    /\ input \in Inputs /\ rest = input /\ phase = "block" /\ data = <<>>
    /\ origin = 0 /\ map = <<>> /\ groups = 0 /\ selectors = 0 /\ codeLen = 0
    /\ blocks = <<>> /\ output = <<>> /\ fits = TRUE

-----------------------------------------------------------------------------
(* The steps as functions.                                                 *)

Least(a, b) == IF a < b THEN a ELSE b
\* How many of the first bytes are the same.
Run(d) == CHOOSE k \in 1..Len(d) : /\ \A i \in 1..k : d[i] = d[1]
                                   /\ k = Len(d) \/ d[k + 1] # d[1]
From(d, k) == SubSeq(d, k, Len(d))
Repeated(b, n) == [i \in 1..n |-> b]

\* The count behind four like bytes is a byte, and runs end before it is full.
RECURSIVE RunLengths(_)
RunLengths(d) ==
    IF d = <<>> THEN <<>>
    ELSE LET run == Least(Run(d), ByteCount - 1)
         IN  IF run >= 4 THEN Append(Repeated(d[1], 4), run - 4) \o RunLengths(From(d, run + 1))
             ELSE <<d[1]>> \o RunLengths(Tail(d))

RECURSIVE Runs(_)
Runs(d) ==
    IF d = <<>> THEN <<>>
    ELSE IF Run(d) >= 4
    THEN Repeated(d[1], 4 + (IF Len(d) > 4 THEN d[5] ELSE 0)) \o Runs(From(d, 6))
    ELSE <<d[1]>> \o Runs(Tail(d))

\* The place of each rotation when they are sorted; those that are equal keep
\* their order.
Rotated(d, a, i) == d[((a + i) % Len(d)) + 1]
SortsBefore(d, a, b) ==
    LET differ == {i \in 0..(Len(d) - 1) : Rotated(d, a, i) # Rotated(d, b, i)}
    IN  IF differ = {} THEN a < b
        ELSE Rotated(d, a, Min(differ)) < Rotated(d, b, Min(differ))
Rank(d, a) == Cardinality({b \in 0..(Len(d) - 1) : SortsBefore(d, b, a)})
LastColumn(d) ==
    LET at == [a \in 0..(Len(d) - 1) |-> Rank(d, a)]
    IN  [k \in 1..Len(d) |-> Rotated(d, CHOOSE a \in DOMAIN at : at[a] = k - 1, Len(d) - 1)]

\* (mutant: like bytes the last one first)
ColumnRank_LastFirst(d, i) ==
    Cardinality({j \in 1..Len(d) : d[j] < d[i] \/ (d[j] = d[i] /\ j > i)})

\* The place of the i-th byte of the last column in the first.
ColumnRank(d, i) == Cardinality({j \in 1..Len(d) : d[j] < d[i] \/ (d[j] = d[i] /\ j < i)})
FromColumn(d, start) ==
    LET transform == [k \in 0..(Len(d) - 1) |-> (CHOOSE i \in 1..Len(d) : ColumnRank(d, i) = k) - 1]
        idx[n \in 0..Len(d)] == IF n = 0 THEN start ELSE transform[idx[n - 1]]
    IN  [n \in 1..Len(d) |-> d[transform[idx[n - 1]] + 1]]

UsedBytes(d) == LET used == {d[i] : i \in 1..Len(d)}
                IN  [k \in 1..Cardinality(used) |->
                       CHOOSE b \in used : Cardinality({c \in used : c < b}) = k - 1]
ToFront(list, k) == <<list[k]>> \o SubSeq(list, 1, k - 1) \o From(list, k + 1)
RECURSIVE FrontMoves(_, _)
FrontMoves(d, list) ==
    IF d = <<>> THEN <<>>
    ELSE LET k == CHOOSE k \in 1..Len(list) : list[k] = d[1]
         IN  <<k - 1>> \o FrontMoves(Tail(d), ToFront(list, k))
\* Positions that the list does not have are skipped.
RECURSIVE Unmoved(_, _)
Unmoved(d, list) ==
    IF d = <<>> THEN <<>>
    ELSE IF d[1] >= Len(list) THEN Unmoved(Tail(d), list)
    ELSE <<list[d[1] + 1]>> \o Unmoved(Tail(d), ToFront(list, d[1] + 1))

\* A number in digits of one and two, RUNA and RUNB, the lowest first.
RECURSIVE Digits(_)
Digits(n) == IF n = 0 THEN <<>>
             ELSE IF n % 2 = 1 THEN <<0>> \o Digits((n - 1) \div 2)
             ELSE <<1>> \o Digits((n - 2) \div 2)
\* The symbol is a byte, so that the last position becomes zero again.
RECURSIVE ZeroRuns(_)
ZeroRuns(d) ==
    IF d = <<>> THEN <<>>
    ELSE IF d[1] = 0 THEN Digits(Run(d)) \o ZeroRuns(From(d, Run(d) + 1))
    ELSE <<(d[1] + 1) % ByteCount>> \o ZeroRuns(Tail(d))

RECURSIVE Zeroes(_)
Zeroes(d) ==
    IF d = <<>> THEN <<>>
    ELSE IF d[1] > 1 THEN <<d[1] - 1>> \o Zeroes(Tail(d))
    ELSE LET k == CHOOSE k \in 1..Len(d) : /\ \A i \in 1..k : d[i] <= 1
                                           /\ k = Len(d) \/ d[k + 1] > 1
         IN  Repeated(0, MapThenSumSet(LAMBDA i : 2^(i - 1) * (d[i] + 1), 1..k)) \o Zeroes(From(d, k + 1))

NumSymbols == Len(map) + 2
CodeLength == CHOOSE n \in 1..20 : 2^n >= NumSymbols /\ (n = 1 \/ 2^(n - 1) < NumSymbols)
\* HuffmanDecoder::from_lengths: the first code of a length follows those of the
\* shorter ones; codes of a length are in the order of their symbols.
FirstCode(lengths) ==
    LET count(n) == Cardinality({s \in DOMAIN lengths : lengths[s] = n /\ n > 0})
        first[n \in 0..20] == IF n = 0 THEN 0 ELSE (first[n - 1] + count(n - 1)) * 2
    IN  first
CodeOf(lengths, s) ==
    FirstCode(lengths)[lengths[s]] + Cardinality({t \in DOMAIN lengths : t < s /\ lengths[t] = lengths[s]})

-----------------------------------------------------------------------------
(* bzip2_stream and compress_block                                         *)

NextBlock ==
    /\ phase = "block" /\ rest # <<>>
    /\ data' = SubSeq(rest, 1, Least(BlockSize, Len(rest)))
    /\ rest' = From(rest, BlockSize + 1)
    /\ phase' = "runs"
    /\ UNCHANGED <<input, heads, blocks, output, fits>>

EncodeRuns ==
    /\ phase = "runs" /\ data' = RunLengths(data) /\ phase' = "sort"
    /\ UNCHANGED <<input, rest, heads, blocks, output, fits>>

Sort ==
    /\ phase = "sort"
    /\ data' = LastColumn(data) /\ origin' = Rank(data, 0) /\ map' = UsedBytes(data)
    /\ phase' = "move"
    /\ UNCHANGED <<input, rest, groups, selectors, codeLen, blocks, output, fits>>

Move ==
    /\ phase = "move" /\ data' = FrontMoves(data, map) /\ phase' = "zeroes"
    /\ UNCHANGED <<input, rest, heads, blocks, output, fits>>

EncodeZeroes ==
    /\ phase = "zeroes" /\ data' = ZeroRuns(data)
    /\ groups' = LET n == (Len(data') \div GroupSize) + 1 IN IF n < 2 THEN 2 ELSE Least(6, n)
    /\ selectors' = (Len(data') + GroupSize - 1) \div GroupSize
    /\ codeLen' = CodeLength
    /\ phase' = "write"
    /\ UNCHANGED <<input, rest, origin, map, blocks, output, fits>>

\* All selectors name the first table, and all tables give every symbol the
\* same length: the code of a symbol is its number.
WriteBlock ==
    /\ phase = "write"
    /\ LET symbols == Append(data, NumSymbols - 1)
       IN  /\ blocks' = Append(blocks, [origin |-> origin, map |-> map, groups |-> groups,
                                        selectors |-> selectors, codeLen |-> codeLen,
                                        codes |-> [i \in 1..Len(symbols) |-> symbols[i] % 2^codeLen]])
           /\ fits' = (fits /\ \A i \in 1..Len(data) : data[i] < NumSymbols - 1 /\ NumSymbols <= 2^codeLen)
    /\ data' = <<>> /\ phase' = "block"
    /\ UNCHANGED <<input, rest, heads, output>>

-----------------------------------------------------------------------------
(* bunzip2_stream and decompress_block                                     *)

ReadBlock ==
    /\ phase \in {"block", "read"} /\ rest = <<>> /\ blocks # <<>>
    /\ LET b == blocks[1]
           lengths == [s \in 0..(Len(b.map) + 1) |-> b.codeLen]
           symbols == [i \in 1..Len(b.codes) |->
                         CHOOSE s \in DOMAIN lengths \cup {0} :
                            IF \E t \in DOMAIN lengths : CodeOf(lengths, t) = b.codes[i]
                            THEN CodeOf(lengths, s) = b.codes[i] ELSE s = 0]
           end == Min({i \in 1..Len(symbols) : symbols[i] = Len(b.map) + 1})
       IN  /\ origin' = b.origin /\ map' = b.map /\ groups' = b.groups
           /\ selectors' = b.selectors /\ codeLen' = b.codeLen
           \* A wrong count of tables, or no selector: nothing is decoded.
           /\ data' = IF groups' \in 2..6 /\ selectors' > 0
                      THEN [i \in 1..(end - 1) |-> symbols[i] % ByteCount] ELSE <<>>
    /\ blocks' = Tail(blocks) /\ phase' = "unzeroes"
    /\ UNCHANGED <<input, rest, output, fits>>

DecodeZeroes ==
    /\ phase = "unzeroes" /\ data' = Zeroes(data) /\ phase' = "unmove"
    /\ UNCHANGED <<input, rest, heads, blocks, output, fits>>

MoveBack ==
    /\ phase = "unmove" /\ data' = Unmoved(data, map) /\ phase' = "unsort"
    /\ UNCHANGED <<input, rest, heads, blocks, output, fits>>

\* An origin that lies behind the data is an index out of bounds.
SortBack ==
    /\ phase = "unsort"
    /\ IF data = <<>> \/ origin < Len(data)
       THEN data' = FromColumn(data, origin) /\ phase' = "unruns"
       ELSE UNCHANGED data /\ phase' = "panicked"
    /\ UNCHANGED <<input, rest, heads, blocks, output, fits>>

DecodeRuns ==
    /\ phase = "unruns" /\ output' = output \o Runs(data) /\ data' = <<>> /\ phase' = "read"
    /\ UNCHANGED <<input, rest, heads, blocks, fits>>

End ==
    /\ phase \in {"block", "read"} /\ rest = <<>> /\ blocks = <<>>
    /\ phase' = "done"
    /\ UNCHANGED <<input, rest, data, heads, blocks, output, fits>>

Next == \/ NextBlock \/ EncodeRuns \/ Sort \/ Move \/ EncodeZeroes \/ WriteBlock
        \/ ReadBlock \/ DecodeZeroes \/ MoveBack \/ SortBack \/ DecodeRuns \/ End
Spec == Init /\ [][Next]_vars

-----------------------------------------------------------------------------
(* Properties                                                              *)

\* bunzip2 makes of what bzip2 made the file that it was (bzip2.rs:94), also
\* when runs, rotations and zeroes repeat.
Restores == phase # "panicked" /\ (phase = "done" => output = input)

\* Every symbol has a code, and none is the end of the block but the last: what
\* follows it would be taken for the next block.
SymbolsFit == fits
=============================================================================
