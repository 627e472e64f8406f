------------------------------- MODULE Huffman -------------------------------
(***************************************************************************)
(* Literals that another zstd compressed with Huffman's codes              *)
(* (src/crates/zstd-nostd/src/huff.rs, the decoder; this compressor writes *)
(* them as they are).  One action is the table, or a literal.              *)
(*                                                                         *)
(* The definitions under "The format" follow the format and not this code. *)
(***************************************************************************)
EXTENDS Integers, Sequences, FiniteSets, FiniteSetsExt

CONSTANTS
    Weights,        \* sequences of weights, of all symbols but the last
    Texts,          \* sequences of symbols; those that have codes are decoded
    Streams,        \* subset of {1, 4}
    MaxBits         \* MAX_BITS

VARIABLES
    weights, text, streams,     \* never change
    phase,
    table, bits,    \* index -> <<symbol, length>>, and log2 of its size
    writes,         \* how often each entry was written (history)
    left,           \* the bits of each stream that are not read
    part,           \* the stream that is read
    output
vars == <<weights, text, streams, phase, table, bits, writes, left, part, output>>

-----------------------------------------------------------------------------
(* The format: all weights but the last are written, and the last makes    *)
(* the sum of all 2^(w-1) a power of two.                                  *)

Sum(ws) == MapThenSumSet(LAMBDA i : IF ws[i] > 0 THEN 2^(ws[i] - 1) ELSE 0, DOMAIN ws)
Powers == {2^e : e \in 0..(MaxBits + 2)}
Size(ws) == LET sum == Sum(ws) IN Min({p \in Powers : p > sum})
IsValid(ws) == /\ \E w \in 1..MaxBits : \E i \in DOMAIN ws : ws[i] = w
               /\ LET size == Size(ws) IN size - Sum(ws) \in Powers /\ size <= 2^MaxBits
LogOf(p) == CHOOSE e \in 0..(MaxBits + 2) : 2^e = p
All(ws) == Append(ws, LogOf(Size(ws) - Sum(ws)) + 1)
\* Codes are numbered by weight, then by symbol; a heavier one is shorter.
CodeBits(ws, s) ==
    LET all == All(ws)
        w == all[s + 1]
        n == LogOf(Size(ws)) + 1 - w
        before == {t \in DOMAIN all : all[t] > 0 /\ (all[t] < w \/ (all[t] = w /\ t < s + 1))}
        code == MapThenSumSet(LAMBDA t : 2^(all[t] - 1), before) \div 2^(w - 1)
    IN  [i \in 1..n |-> (code \div 2^(n - i)) % 2]
HasCode(ws, s) == LET all == All(ws) IN s + 1 \in DOMAIN all /\ all[s + 1] > 0
RECURSIVE TextBits(_, _)
TextBits(ws, t) == IF t = <<>> THEN <<>> ELSE CodeBits(ws, t[1]) \o TextBits(ws, Tail(t))
Quarter(t) == (Len(t) + 3) \div 4
Written(ws, t, n) ==
    IF n = 1 THEN <<TextBits(ws, t)>>
    ELSE [i \in 1..4 |-> TextBits(ws, SubSeq(t, (i - 1) * Quarter(t) + 1,
                            IF i = 4 THEN Len(t) ELSE Min({i * Quarter(t), Len(t)})))]

Init ==
    /\ weights \in Weights
    /\ IF IsValid(weights)
       THEN /\ text \in {t \in Texts : \A i \in DOMAIN t : HasCode(weights, t[i])}
            /\ streams \in Streams
            /\ left = Written(weights, text, streams)
       ELSE text = <<>> /\ streams = 1 /\ left = <<>>
    /\ phase = "build" /\ table = <<>> /\ bits = 0 /\ writes = <<>> /\ part = 1 /\ output = <<>>

-----------------------------------------------------------------------------
(* HuffTable::build.                                                       *)

Count(w) == Cardinality({i \in DOMAIN weights : weights[i] = w})
Heaviest == Max({weights[i] : i \in DOMAIN weights})
WeightSum == MapThenSumSet(LAMBDA w : Count(w) * 2^(w - 1), 1..Heaviest)
\* The table's log2: from the heaviest up, until the sum is less.
TableBits == Min({b \in Heaviest..(MaxBits + 2) : 2^b > WeightSum} \cup {MaxBits + 2})
IsPower(n) == n \in {2^e : e \in 0..(MaxBits + 1)}

Measure ==
    /\ phase = "build"
    /\ IF weights = <<>> \/ (\E i \in DOMAIN weights : weights[i] > MaxBits + 1) \/ Heaviest = 0
       THEN phase' = "failed" /\ UNCHANGED bits
       ELSE /\ bits' = TableBits
            /\ phase' = IF bits' > MaxBits + 1 \/ ~IsPower(2^bits' - WeightSum)
                        THEN "failed" ELSE "fill"
    /\ UNCHANGED <<weights, text, streams, table, writes, left, part, output>>

ImpliedWeight(n) == (CHOOSE e \in 0..(MaxBits + 1) : 2^e = n) + 1

BitRanks(full, b) == Cardinality({i \in DOMAIN full : full[i] > 0 /\ bits + 1 - full[i] = b})

\* (mutant: the shortest codes first)
RankIndex_ShortFirst(full, b) ==
    MapThenSumSet(LAMBDA c : BitRanks(full, c) * 2^(bits - c), 1..(b - 1))

\* Where the codes of a length begin; the longest are first.
RankIndex(full, b) ==
    MapThenSumSet(LAMBDA c : BitRanks(full, c) * 2^(bits - c), (b + 1)..bits)

\* The entries of symbol i: <<first, one past the last>>.
Entries(full, i) ==
    LET b == bits + 1 - full[i]
        first == RankIndex(full, b)
                 + 2^(bits - b) * Cardinality({j \in 1..(i - 1) : full[j] = full[i]})
    IN  <<first, first + 2^(bits - b)>>

Fill ==
    /\ phase = "fill"
    /\ LET full == Append(weights, ImpliedWeight(2^bits - WeightSum))
           entries == <<>> \o [i \in 1..Len(full) |->
                         IF full[i] = 0 THEN <<0, 0>> ELSE Entries(full, i)]
           at(p) == {i \in DOMAIN full : entries[i][1] <= p /\ p < entries[i][2]}
       IN  /\ table' = [p \in 0..(2^bits - 1) |->
                  IF at(p) = {} THEN <<0, 0>>
                  ELSE LET i == Max(at(p)) IN <<i - 1, bits + 1 - full[i]>>]
           /\ writes' = [p \in 0..(2^bits - 1) |-> Cardinality(at(p))]
    /\ phase' = IF left = <<>> THEN "built" ELSE "decode"
    /\ UNCHANGED <<weights, text, streams, bits, left, part, output>>

-----------------------------------------------------------------------------
(* decompress_1stream and decompress_4streams.                             *)

\* How many literals the first k streams have.
PartEnd(k) == IF streams = 1 THEN Len(text)
              ELSE IF k = 4 THEN Len(text) ELSE Min({k * ((Len(text) + 3) \div 4), Len(text)})

\* The next bits, with zeroes for those that are missing.
Peek(b) == MapThenSumSet(LAMBDA i : IF i <= Len(b) THEN b[i] * 2^(bits - i) ELSE 0, 1..bits)

Literal ==
    /\ phase = "decode" /\ Len(output) < PartEnd(part)
    /\ LET entry == table[Peek(left[part])]
       IN  /\ output' = Append(output, entry[1])
           /\ left' = [left EXCEPT ![part] = SubSeq(@, Min({entry[2], Len(@)}) + 1, Len(@))]
    /\ UNCHANGED <<weights, text, streams, phase, table, bits, writes, part>>

NextStream ==
    /\ phase = "decode" /\ Len(output) = PartEnd(part)
    /\ part' = part + 1
    /\ phase' = IF part = streams THEN "done" ELSE phase
    /\ UNCHANGED <<weights, text, streams, table, bits, writes, left, output>>

Next == Measure \/ Fill \/ Literal \/ NextStream

Spec == Init /\ [][Next]_vars

-----------------------------------------------------------------------------
\* Valid weights are accepted, and the literals are those that were written.
LiteralsComeBack ==
    /\ IsValid(weights) => phase # "failed"
    /\ phase = "done" => output = text

\* The codes of accepted weights, those of no valid table too, fill the table
\* without a gap and without overlap (the check of every index in build,
\* huff.rs:156, is never needed).
TableIsFilled == \A p \in DOMAIN writes : writes[p] = 1
=============================================================================
