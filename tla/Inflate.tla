------------------------------- MODULE Inflate -------------------------------
(***************************************************************************)
(* inflate (src/src/applets/archive/gzip.rs): what gunzip makes of the     *)
(* blocks that a gzip program wrote.  One action is a block's header, a    *)
(* code length, or a symbol.                                               *)
(*                                                                         *)
(* The writer is any program that follows the format: the definitions      *)
(* under "The format" say what blocks mean and how they are written, by    *)
(* the rules of the format and not by this code.                           *)
(***************************************************************************)
EXTENDS Integers, Sequences, FiniteSets, FiniteSetsExt, Functions

CONSTANTS
    Files,      \* sequences of blocks [type, tokens, lit, dist]
    Cuts        \* how many bytes may be missing at the end

EndOfBlock == 256
LengthBases == <<3, 4, 5, 6, 7, 8, 9, 10, 11, 13, 15, 17, 19, 23, 27, 31, 35, 43, 51, 59, 67, 83,
                 99, 115, 131, 163, 195, 227, 258>>
LengthExtra == <<0, 0, 0, 0, 0, 0, 0, 0, 1, 1, 1, 1, 2, 2, 2, 2, 3, 3, 3, 3, 4, 4, 4, 4, 5, 5, 5, 5, 0>>
DistBases == <<1, 2, 3, 4, 5, 7, 9, 13, 17, 25, 33, 49, 65, 97, 129, 193, 257, 385, 513, 769, 1025,
               1537, 2049, 3073, 4097, 6145, 8193, 12289, 16385, 24577>>
DistExtra == <<0, 0, 0, 0, 1, 1, 2, 2, 3, 3, 4, 4, 5, 5, 6, 6, 7, 7, 8, 8, 9, 9, 10, 10, 11, 11, 12,
               12, 13, 13>>
LengthOrder == <<16, 17, 18, 0, 8, 7, 9, 6, 10, 5, 11, 4, 12, 3, 13, 2, 14, 1, 15>>

VARIABLES
    blocks, cut,    \* the file; never change
    bits,           \* what is left of it
    offset,         \* how many bits were read
    phase,
    final,          \* bfinal
    counts,         \* hlit and hlit + hdist
    lengths,        \* the code lengths read so far
    tree, distances,    \* symbol -> <<code, length>>
    output
vars == <<blocks, cut, bits, offset, phase, final, counts, lengths, tree, distances, output>>

-----------------------------------------------------------------------------
(* Bits.                                                                   *)

Low(n, k) == [i \in 1..k |-> (n \div 2^(i - 1)) % 2]      \* the lowest first
High(n, k) == [i \in 1..k |-> (n \div 2^(k - i)) % 2]
Number(b) == MapThenSumSet(LAMBDA i : b[i] * 2^(i - 1), 1..Len(b))
HighNumber(b) == MapThenSumSet(LAMBDA i : b[i] * 2^(Len(b) - i), 1..Len(b))
From(s, i) == SubSeq(s, i + 1, Len(s))
Copied(out, distance, n) ==
    LET copy[i \in 1..(Len(out) + n)] == IF i <= Len(out) THEN out[i] ELSE copy[i - distance]
    IN  [i \in 1..(Len(out) + n) |-> copy[i]]

-----------------------------------------------------------------------------
(* The format.  A token is <<byte>> or <<length, distance>>.               *)

RECURSIVE Meaning(_, _), Joined(_, _), Runs(_), Packed(_, _, _)
Meaning(tokens, out) ==
    IF tokens = <<>> THEN out
    ELSE IF Len(Head(tokens)) = 1 THEN Meaning(Tail(tokens), out \o Head(tokens))
    ELSE Meaning(Tail(tokens), Copied(out, Head(tokens)[2], Head(tokens)[1]))
Joined(f(_), n) == IF n = 0 THEN <<>> ELSE Joined(f, n - 1) \o f(n)
Text == Meaning(Joined(LAMBDA i : blocks[i].tokens, Len(blocks)), <<>>)

\* The codes of lens, symbol -> length: shorter ones first, then by symbol,
\* and none begins another.
CodeBits(lens, s) ==
    LET long == Max(Range(lens))
        before == {t \in DOMAIN lens : lens[t] < lens[s] \/ (lens[t] = lens[s] /\ t < s)}
    IN  High(MapThenSumSet(LAMBDA t : 2^(long - lens[t]), before) \div 2^(long - lens[s]), lens[s])
FixedBits(s) == IF s < 144 THEN High(48 + s, 8) ELSE IF s < 256 THEN High(256 + s, 9)
                ELSE IF s < 280 THEN High(s - 256, 7) ELSE High(s - 88, 8)

Index(bases, n) == Max({i \in DOMAIN bases : bases[i] <= n})
TokenBits(token, LitBits(_), DistBits(_)) ==
    IF Len(token) = 1 THEN LitBits(token[1])
    ELSE LET l == Index(LengthBases, token[1])
             d == Index(DistBases, token[2])
         IN  LitBits(256 + l) \o Low(token[1] - LengthBases[l], LengthExtra[l])
             \o DistBits(d - 1) \o Low(token[2] - DistBases[d], DistExtra[d])
TokensBits(tokens, LitBits(_), DistBits(_)) ==
    Joined(LAMBDA i : TokenBits(tokens[i], LitBits, DistBits), Len(tokens)) \o LitBits(EndOfBlock)

\* Code lengths, with the runs of zeroes and of other lengths written as such.
Runs(lens) ==
    IF lens = <<>> THEN <<>>
    ELSE LET run == Max({k \in 1..Len(lens) : k <= 138 /\ \A i \in 1..k : lens[i] = lens[1]})
         IN  IF lens[1] = 0 /\ run >= 11 THEN <<<<18, Low(run - 11, 7)>>>> \o Runs(From(lens, run))
             ELSE IF lens[1] = 0 /\ run >= 3 THEN <<<<17, Low(run - 3, 3)>>>> \o Runs(From(lens, run))
             ELSE IF run >= 4
             THEN LET more == Min({run - 1, 6})
                  IN  <<<<lens[1], <<>>>>, <<16, Low(more - 3, 2)>>>> \o Runs(From(lens, 1 + more))
             ELSE <<<<lens[1], <<>>>>>> \o Runs(Tail(lens))
TableBits(lit, dist) ==
    LET hlit == Max({257} \cup {s + 1 : s \in DOMAIN lit})
        hdist == Max({1} \cup {s + 1 : s \in DOMAIN dist})
        lens == <<>> \o [i \in 1..(hlit + hdist) |->
                   IF i <= hlit THEN IF i - 1 \in DOMAIN lit THEN lit[i - 1] ELSE 0
                   ELSE IF i - hlit - 1 \in DOMAIN dist THEN dist[i - hlit - 1] ELSE 0]
        runs == Runs(lens)
        short == [s \in {runs[i][1] : i \in 1..Len(runs)} |-> 3]
    IN  Low(hlit - 257, 5) \o Low(hdist - 1, 5) \o Low(15, 4)
        \o Joined(LAMBDA i : Low(IF LengthOrder[i] \in DOMAIN short THEN 3 ELSE 0, 3), 19)
        \o Joined(LAMBDA i : CodeBits(short, runs[i][1]) \o runs[i][2], Len(runs))

\* A stored block begins at a byte.
BlockBits(b, last, at) ==
    Low(IF last THEN 1 ELSE 0, 1) \o Low(b.type, 2)
    \o (CASE b.type = 0 -> [i \in 1..((8 - ((at + 3) % 8)) % 8) |-> 0]
                           \o Low(Len(b.tokens), 16) \o Low(65535 - Len(b.tokens), 16)
                           \o Joined(LAMBDA i : Low(b.tokens[i][1], 8), Len(b.tokens))
          [] b.type = 1 -> TokensBits(b.tokens, FixedBits, LAMBDA d : High(d, 5))
          [] b.type = 2 -> TableBits(b.lit, b.dist)
                           \o TokensBits(b.tokens, LAMBDA s : CodeBits(b.lit, s),
                                                   LAMBDA d : CodeBits(b.dist, d)))
Packed(bs, n, sofar) ==
    IF n > Len(bs) THEN sofar \o [i \in 1..((8 - (Len(sofar) % 8)) % 8) |-> 0]
    ELSE Packed(bs, n + 1, sofar \o BlockBits(bs[n], n = Len(bs), Len(sofar)))

Init ==
    /\ blocks \in Files /\ cut \in Cuts
    /\ bits = LET all == Packed(blocks, 1, <<>>) IN SubSeq(all, 1, Len(all) - 8 * cut)
    /\ offset = 0 /\ phase = "header" /\ final = 0 /\ counts = <<0, 0>> /\ lengths = <<>>
    /\ tree = <<>> /\ distances = <<>> /\ output = <<>>

-----------------------------------------------------------------------------
(* The decoder.                                                            *)

Has(n) == n <= Len(bits)
Get(from, n) == Number(SubSeq(bits, from + 1, from + n))
Take(n) == bits' = From(bits, n) /\ offset' = offset + n
\* (mutant: what cannot be read ends the text)
Fail_Quietly == phase' = "done"
        /\ UNCHANGED <<blocks, cut, bits, offset, final, counts, lengths, tree, distances, output>>

\* inflate returns Err(()).
Fail == phase' = "failed"
        /\ UNCHANGED <<blocks, cut, bits, offset, final, counts, lengths, tree, distances, output>>

\* Codes of one length follow those of the shorter ones.
FirstCode(lens) ==
    LET count(n) == Cardinality({s \in DOMAIN lens : lens[s] = n})
        first[n \in 0..15] == IF n <= 1 THEN 0 ELSE 2 * (first[n - 1] + count(n - 1))
    IN  first

Tree(lens) ==
    [s \in {t \in DOMAIN lens : lens[t] > 0} |->
        <<FirstCode(lens)[lens[s]]
          + Cardinality({t \in DOMAIN lens : t < s /\ lens[t] = lens[s]}), lens[s]>>]

\* Bit by bit until they are a symbol's code: <<symbol, bits used>>, or <<>>.
Decoded(codes, from) ==
    LET hits == {s \in DOMAIN codes : Has(from + codes[s][2])
                    /\ HighNumber(SubSeq(bits, from + 1, from + codes[s][2])) = codes[s][1]}
    IN  IF hits = {} THEN <<>>
        ELSE LET s == CHOOSE s \in hits : \A t \in hits : codes[s][2] <= codes[t][2]
             IN  <<s, codes[s][2]>>

\* The codes of seven, eight and nine bits, told apart by their values.
FixedSymbol ==
    LET code(n) == HighNumber(SubSeq(bits, 1, n))
    IN  IF Has(7) /\ code(7) <= 23 THEN <<code(7) + 256, 7>>
        ELSE IF Has(8) /\ code(8) <= 191 THEN <<code(8) - 48, 8>>
        ELSE IF Has(8) /\ code(8) <= 199 THEN <<code(8) - 192 + 280, 8>>
        ELSE IF Has(9) THEN <<code(9) - 400 + 144, 9>> ELSE <<>>

Aligned(n) == (8 - (n % 8)) % 8
Header ==
    /\ phase = "header"
    /\ IF ~Has(3) \/ Get(1, 2) = 3 THEN Fail
       ELSE /\ final' = Get(0, 1) /\ Take(3)
            /\ phase' = CASE Get(1, 2) = 0 -> "stored" [] Get(1, 2) = 1 -> "fixed"
                          [] Get(1, 2) = 2 -> "counts"
            /\ UNCHANGED <<blocks, cut, counts, lengths, tree, distances, output>>

Stored ==
    /\ phase = "stored"
    /\ LET skip == Aligned(offset)
           len == Get(skip, 16)
           all == skip + 32 + 8 * len
       IN  IF ~Has(skip + 32) \/ Get(skip + 16, 16) # 65535 - len \/ ~Has(all) THEN Fail
           ELSE /\ output' = output \o [i \in 1..len |-> Get(skip + 24 + 8 * i, 8)]
                /\ Take(all) /\ phase' = IF final = 1 THEN "done" ELSE "header"
                /\ UNCHANGED <<blocks, cut, final, counts, lengths, tree, distances>>

\* The lengths of the codes that code lengths are written in, in their odd order.
Counts ==
    /\ phase = "counts"
    /\ LET hlit == Get(0, 5) + 257
           hdist == Get(5, 5) + 1
           n == Get(10, 4) + 4
           lens == [s \in 0..18 |-> IF \E i \in 1..n : LengthOrder[i] = s
                                    THEN Get(11 + 3 * (CHOOSE i \in 1..n : LengthOrder[i] = s), 3)
                                    ELSE 0]
       IN  IF ~Has(14) \/ ~Has(14 + 3 * n) THEN Fail
           ELSE /\ counts' = <<hlit, hlit + hdist>> /\ tree' = Tree(lens)
                /\ lengths' = <<>> /\ Take(14 + 3 * n) /\ phase' = "lengths"
                /\ UNCHANGED <<blocks, cut, final, distances, output>>

\* A length, or a run of them, which may go from the literals to the distances.
CodeLengths ==
    /\ phase = "lengths" /\ Len(lengths) < counts[2]
    /\ \E symbol \in {Decoded(tree, 0)} :
       LET extra == CASE symbol[1] = 16 -> 2 [] symbol[1] = 17 -> 3 [] symbol[1] = 18 -> 7 [] OTHER -> 0
           times == IF symbol[1] < 16 THEN 1
                    ELSE Get(symbol[2], extra) + (IF symbol[1] = 18 THEN 11 ELSE 3)
           length == CASE symbol[1] < 16 -> symbol[1]
                       [] symbol[1] = 16 -> IF lengths = <<>> THEN 0 ELSE lengths[Len(lengths)]
                       [] OTHER -> 0
       IN  IF symbol = <<>> THEN Fail
           ELSE IF ~Has(symbol[2] + extra) \/ Len(lengths) + times > counts[2] THEN Fail
           ELSE /\ lengths' = lengths \o [i \in 1..times |-> length] /\ Take(symbol[2] + extra)
                /\ UNCHANGED <<blocks, cut, phase, final, counts, tree, distances, output>>

Trees ==
    /\ phase = "lengths" /\ Len(lengths) = counts[2]
    /\ tree' = Tree([s \in 0..(counts[1] - 1) |-> lengths[s + 1]])
    /\ distances' = Tree([s \in 0..(counts[2] - counts[1] - 1) |-> lengths[counts[1] + s + 1]])
    /\ phase' = "dynamic"
    /\ UNCHANGED <<blocks, cut, bits, offset, final, counts, lengths, output>>

\* A byte, the block's end, or a length and a distance.
Symbol ==
    /\ phase \in {"fixed", "dynamic"}
    /\ \E symbol \in {IF phase = "fixed" THEN FixedSymbol ELSE Decoded(tree, 0)} :
       LET index == symbol[1] - 256
           lengthEnd == symbol[2] + LengthExtra[index]
           length == LengthBases[index] + Get(symbol[2], LengthExtra[index])
           dist == IF phase = "dynamic" THEN Decoded(distances, lengthEnd)
                   ELSE IF ~Has(lengthEnd + 5) THEN <<>>
                   ELSE <<HighNumber(SubSeq(bits, lengthEnd + 1, lengthEnd + 5)), 5>>
           distEnd == lengthEnd + dist[2] + DistExtra[dist[1] + 1]
           distance == DistBases[dist[1] + 1] + Get(lengthEnd + dist[2], DistExtra[dist[1] + 1])
       IN  IF symbol = <<>> THEN Fail
           ELSE IF symbol[1] < 256
           THEN /\ output' = Append(output, symbol[1]) /\ Take(symbol[2])
                /\ UNCHANGED <<blocks, cut, phase, final, counts, lengths, tree, distances>>
           ELSE IF symbol[1] = 256
           THEN /\ phase' = (IF final = 1 THEN "done" ELSE "header") /\ Take(symbol[2])
                /\ UNCHANGED <<blocks, cut, final, counts, lengths, tree, distances, output>>
           ELSE IF index > 29 THEN Fail
           ELSE IF ~Has(lengthEnd) THEN Fail
           ELSE IF dist = <<>> THEN Fail
           ELSE IF dist[1] >= 30 THEN Fail
           ELSE IF ~Has(distEnd) \/ distance > Len(output) THEN Fail
           ELSE /\ output' = Copied(output, distance, length) /\ Take(distEnd)
                /\ UNCHANGED <<blocks, cut, phase, final, counts, lengths, tree, distances>>

Next == Header \/ Stored \/ Counts \/ CodeLengths \/ Trees \/ Symbol

Spec == Init /\ [][Next]_vars

-----------------------------------------------------------------------------
\* A whole file is inflated to what it means.
InflatesToTheText ==
    cut = 0 => phase # "failed" /\ (phase = "done" => output = Text)

\* A file that lacks its last bytes is not taken for whole (gzip.rs:371).
TruncationIsNoticed == cut > 0 => phase # "done"
=============================================================================
