--------------------------------- MODULE Lzma ---------------------------------
(***************************************************************************)
(* The compressor and decompressor of xz and lzma                          *)
(* (src/src/applets/archive/xz.rs).                                        *)
(*                                                                         *)
(* What goes through the range coder is a sequence of symbols, each with   *)
(* the probabilities it is coded with: RangeCoder shows that the decoder   *)
(* gets what the encoder put in, provided that it asks with the same       *)
(* probabilities in the same order.  A tree of bits is one symbol here.    *)
(*                                                                         *)
(* xz cuts its input into chunks (lzma2_encode), and stores those that do  *)
(* not become smaller; lzma is one chunk.  Headers, sums and the index,    *)
(* which the decoder does not verify, are left out.                        *)
(***************************************************************************)
EXTENDS Integers, Sequences, FiniteSetsExt

CONSTANTS
    Files,              \* pairs of a sequence of bytes and a format, "xz" or "lzma"
    ChunkSize,          \* 65536; lzma has one chunk
    DictSize,
    MaxTries,           \* positions find_match looks at, 1024
    NumFullDistances,   \* 128
    EndPosModelIndex    \* 14

MinLen == 2
MaxLen == 273
LC == 3    \* LZMA_LC, LZMA_PB; LZMA_LP is 0
PB == 2
NumAlignBits == 4

VARIABLES
    input, format,  \* never change
    phase,      \* "encode", "decode", "done"; "panicked", "failed"
    base, pos,  \* where the chunk begins; bytes of it encoded
    enc,        \* the encoder's state and reps
    symbols,    \* the chunk's symbols
    chunks,     \* what has been written
    next,       \* symbols of the first chunk read
    dec,        \* the decoder's state and reps
    out, output,    \* the chunk's bytes; those of the chunks before
    inStep      \* every symbol was read with what it was written with (history)
vars == <<input, format, phase, base, pos, enc, symbols, chunks, next, dec, out, output, inStep>>

Fresh == [state |-> 0, reps |-> <<0, 0, 0, 0>>]

Init ==
    /\ \E f \in Files : input = f[1] /\ format = f[2]
    /\ format = "xz" => input # <<>>    \* an empty file has no chunk
    /\ phase = "encode" /\ base = 0 /\ pos = 0 /\ enc = Fresh /\ symbols = <<>> /\ chunks = <<>>
    /\ next = 0 /\ dec = Fresh /\ out = <<>> /\ output = <<>> /\ inStep = TRUE

-----------------------------------------------------------------------------
(* Shared by both sides.                                                   *)

AfterLiteral(s) == IF s < 4 THEN 0 ELSE IF s < 10 THEN s - 3 ELSE s - 6
AfterMatch(s) == IF s < 7 THEN 7 ELSE 10
AfterRep(s) == IF s < 7 THEN 8 ELSE 11
AfterShortRep(s) == IF s < 7 THEN 9 ELSE 11

PosState(p) == p % 2^PB
LenCat(len) == IF len < 6 THEN len - 2 ELSE 3
ToFront(reps, i) == [j \in 1..4 |-> IF j = 1 THEN reps[i] ELSE IF j <= i THEN reps[j - 1] ELSE reps[j]]
Pushed(reps, d) == <<d>> \o SubSeq(reps, 1, 3)

\* The probabilities of a literal: by the byte before, and after a match by the
\* byte that the match would have gone on with.
LiteralBy(data, p, c) ==
    <<"literal", IF p > 0 THEN data[p] \div 2^(8 - LC) ELSE 0,
      IF c.state < 7 THEN -1 ELSE IF c.reps[1] \in 1..p THEN data[p - c.reps[1] + 1] ELSE 0>>

-----------------------------------------------------------------------------
(* The encoder.                                                            *)

ChunkEnd == IF format = "lzma" \/ base + ChunkSize > Len(input) THEN Len(input) ELSE base + ChunkSize
Chunk == SubSeq(input, base + 1, ChunkEnd)

\* How many bytes from p on are those from q on, up to the longest match.
Common(p, q) ==
    LET most == IF Len(Chunk) - p < MaxLen THEN Len(Chunk) - p ELSE MaxLen
    IN  CHOOSE k \in 0..most : /\ k = most \/ Chunk[p + k + 1] # Chunk[q + k + 1]
                               /\ \A i \in 1..k : Chunk[p + i] = Chunk[q + i]

\* find_match: the longest; of those the first used distance, then the nearest.
Found(len, dist, rep) == [len |-> len, dist |-> dist, rep |-> rep]
Nearby(p) == {q \in 0..(p - 1) : q >= p - DictSize /\ q >= p - MaxTries}
Candidates ==
    {Found(Common(pos, pos - enc.reps[i]), 0, i) : i \in {i \in 1..4 : enc.reps[i] \in 1..pos}}
    \cup {Found(Common(pos, q), pos - q - 1, 5) : q \in Nearby(pos)}
Matches == {m \in Candidates : m.len >= MinLen}
BestMatch == CHOOSE m \in Matches : \A o \in Matches :
    \/ o.len < m.len
    \/ o.len = m.len /\ (o.rep > m.rep \/ (o.rep = m.rep /\ o.dist >= m.dist))

Sym(by, value) == [by |-> by, value |-> value]

LenSymbols(coder, length) ==
    LET l == length - MinLen
    IN  IF l < 8 THEN <<Sym(<<coder, "choice">>, 0), Sym(<<coder, "low", PosState(pos)>>, l)>>
        ELSE IF l < 16 THEN <<Sym(<<coder, "choice">>, 1), Sym(<<coder, "choice2">>, 0),
                              Sym(<<coder, "mid", PosState(pos)>>, l - 8)>>
        ELSE <<Sym(<<coder, "choice">>, 1), Sym(<<coder, "choice2">>, 1), Sym(<<coder, "high">>, l - 16)>>

TopBit(d) == CHOOSE b \in 0..30 : 2^b <= d /\ d < 2^(b + 1)
\* (mutant: the slot of the power of two for its upper half too)
PosSlot_LowerHalf(d) == IF d < 4 THEN d ELSE 2 * TopBit(d)

PosSlot(d) == IF d < 4 THEN d ELSE 2 * TopBit(d) + ((d \div 2^(TopBit(d) - 1)) % 2)
Footer(slot) == (slot \div 2) - 1
SlotBase(slot) == (2 + (slot % 2)) * 2^Footer(slot)

DistSymbols(d, length) ==
    LET slot == PosSlot(d)
        rest == (d - SlotBase(slot)) % 2^Footer(slot)    \* so many bits are coded
    IN  <<Sym(<<"slot", LenCat(length)>>, slot)>> \o
        (IF slot < 4 THEN <<>>
         ELSE IF slot < EndPosModelIndex
         THEN <<Sym(<<"special", SlotBase(slot) - slot, Footer(slot)>>, rest)>>
         ELSE <<Sym(<<"direct", Footer(slot) - NumAlignBits>>, rest \div 2^NumAlignBits),
                Sym(<<"align">>, rest % 2^NumAlignBits)>>)

\* pos_special has no probability for the last bits of the farthest distances:
\* the index of the last bit is a one and the other bits, the lowest first.
Reversed(v, n) == MapThenSumSet(LAMBDA i : ((v \div 2^i) % 2) * 2^(n - 1 - i), 0..(n - 1))
OutOfBounds(d) ==
    LET slot == PosSlot(d)
        n == Footer(slot) - 1
    IN  /\ slot >= 4 /\ slot < EndPosModelIndex
        /\ SlotBase(slot) - slot + 2^n + Reversed((d - SlotBase(slot)) % 2^n, n)
             >= NumFullDistances - EndPosModelIndex

IsMatch(bit) == Sym(<<"is_match", enc.state, PosState(pos)>>, bit)
RepSymbols(i) ==
    <<IsMatch(1), Sym(<<"is_rep", enc.state>>, 1)>> \o
    (IF i = 1 THEN <<Sym(<<"is_rep0", enc.state>>, 0), Sym(<<"is_rep0_long", enc.state, PosState(pos)>>, 1)>>
     ELSE <<Sym(<<"is_rep0", enc.state>>, 1)>> \o
        (IF i = 2 THEN <<Sym(<<"is_rep1", enc.state>>, 0)>>
         ELSE <<Sym(<<"is_rep1", enc.state>>, 1), Sym(<<"is_rep2", enc.state>>, i - 3)>>))

EncodeLiteral ==
    /\ phase = "encode" /\ pos < Len(Chunk) /\ Matches = {}
    /\ symbols' = symbols \o <<IsMatch(0), Sym(LiteralBy(Chunk, pos, enc), Chunk[pos + 1])>>
    /\ enc' = [enc EXCEPT !.state = AfterLiteral(@)]
    /\ pos' = pos + 1
    /\ UNCHANGED <<input, format, phase, base, chunks, next, dec, out, output, inStep>>

EncodeRep ==
    /\ phase = "encode" /\ pos < Len(Chunk) /\ Matches # {} /\ BestMatch.rep <= 4
    /\ symbols' = symbols \o RepSymbols(BestMatch.rep) \o LenSymbols("rep_len", BestMatch.len)
    /\ enc' = [state |-> AfterRep(enc.state), reps |-> ToFront(enc.reps, BestMatch.rep)]
    /\ pos' = pos + BestMatch.len
    /\ UNCHANGED <<input, format, phase, base, chunks, next, dec, out, output, inStep>>

\* reps are distances from 1 on, those in the symbols from 0 on.
EncodeMatch ==
    /\ phase = "encode" /\ pos < Len(Chunk) /\ Matches # {} /\ BestMatch.rep > 4
    /\ IF OutOfBounds(BestMatch.dist)
       THEN phase' = "panicked" /\ UNCHANGED <<symbols, enc, pos>>
       ELSE /\ symbols' = symbols \o <<IsMatch(1), Sym(<<"is_rep", enc.state>>, 0)>>
                 \o LenSymbols("len", BestMatch.len) \o DistSymbols(BestMatch.dist, BestMatch.len)
            /\ enc' = [state |-> AfterMatch(enc.state), reps |-> Pushed(enc.reps, BestMatch.dist + 1)]
            /\ pos' = pos + BestMatch.len
            /\ UNCHANGED phase
    /\ UNCHANGED <<input, format, base, chunks, next, dec, out, output, inStep>>

\* The end marker is a match of no distance, which the decoder, who knows the
\* size, does not come to.  The bytes tell whether a chunk is stored instead.
EndMarker == <<IsMatch(1), Sym(<<"is_rep", enc.state>>, 0)>> \o LenSymbols("len", MinLen)
             \o <<Sym(<<"slot", 0>>, 63), Sym(<<"direct", 26>>, -1), Sym(<<"align">>, 15)>>
EndChunk ==
    /\ phase = "encode" /\ pos = Len(Chunk)
    /\ \E stored \in {FALSE, format = "xz"} :
         chunks' = Append(chunks,
            IF stored THEN [stored |-> TRUE, bytes |-> Chunk, size |-> pos, symbols |-> <<>>]
            ELSE [stored |-> FALSE, bytes |-> <<>>, size |-> pos, symbols |-> symbols \o EndMarker])
    /\ base' = base + pos /\ pos' = 0 /\ enc' = Fresh /\ symbols' = <<>>
    /\ phase' = IF base' = Len(input) THEN "decode" ELSE "encode"
    /\ UNCHANGED <<input, format, next, dec, out, output, inStep>>

-----------------------------------------------------------------------------
(* The decoder: what it asks with, one after the other, and what it gets.  *)
(* Behind the last symbol it reads zeroes.                                 *)

Got(k) == LET s == chunks[1].symbols IN IF next + k <= Len(s) THEN s[next + k].value ELSE 0
Asks(bys) ==
    LET s == chunks[1].symbols
    IN  /\ inStep' = (inStep /\ \A k \in 1..Len(bys) : next + k <= Len(s) /\ s[next + k].by = bys[k])
        /\ next' = next + Len(bys)

ReadsOn == phase = "decode" /\ chunks # <<>> /\ ~chunks[1].stored /\ Len(out) < chunks[1].size
MatchAsk == <<"is_match", dec.state, PosState(Len(out))>>
RepAsk == <<"is_rep", dec.state>>

DecodeLiteral ==
    /\ ReadsOn /\ Got(1) = 0
    /\ Asks(<<MatchAsk, LiteralBy(out, Len(out), dec)>>)
    /\ IF dec.state >= 7 /\ dec.reps[1] \notin 1..Len(out)
       THEN phase' = "failed" /\ UNCHANGED <<out, dec>>
       ELSE out' = Append(out, Got(2)) /\ dec' = [dec EXCEPT !.state = AfterLiteral(@)] /\ UNCHANGED phase
    /\ UNCHANGED <<input, format, base, pos, enc, symbols, chunks, output>>

\* LenDecoder::decode from the k-th symbol on: what it asks with, and the length.
LenAsks(coder, k) ==
    <<<<coder, "choice">>>> \o
    (IF Got(k) = 0 THEN <<<<coder, "low", PosState(Len(out))>>>>
     ELSE <<<<coder, "choice2">>,
            IF Got(k + 1) = 0 THEN <<coder, "mid", PosState(Len(out))>> ELSE <<coder, "high">>>>)
Length(k) ==
    MinLen + (IF Got(k) = 0 THEN Got(k + 1) ELSE 8 * (1 + Got(k + 1)) + Got(k + 2))

\* A copy may reach into itself.
Copied(bytes, d, n) ==
    bytes \o [i \in 1..n |-> bytes[Len(bytes) - d + 1 + ((i - 1) % d)]]

\* decode_distance.  Its check fails for every distance of the last slot that
\* pos_special is for.
DecodeMatch ==
    /\ ReadsOn /\ Got(1) = 1 /\ Got(2) = 0
    /\ LET lenAsks == LenAsks("len", 3)
           k == 3 + Len(lenAsks)
           len == Length(3)
           slot == Got(k)
           asks == <<MatchAsk, RepAsk>> \o lenAsks \o <<<<"slot", LenCat(len)>>>>
           special == slot >= 4 /\ slot < EndPosModelIndex
           direct == slot >= EndPosModelIndex
           none == special /\ SlotBase(slot) - slot + 2^Footer(slot) > NumFullDistances - EndPosModelIndex
           dist == IF special THEN SlotBase(slot) + Got(k + 1)
                   ELSE IF direct THEN SlotBase(slot) + Got(k + 1) * 2^NumAlignBits + Got(k + 2)
                   ELSE slot
       IN  /\ Asks(asks \o (IF special /\ ~none THEN <<<<"special", SlotBase(slot) - slot, Footer(slot)>>>>
                            ELSE IF direct THEN <<<<"direct", Footer(slot) - NumAlignBits>>, <<"align">>>>
                            ELSE <<>>))
           /\ IF none \/ dist >= Len(out)
              THEN phase' = "failed" /\ UNCHANGED <<out, dec>>
              ELSE /\ dec' = [state |-> AfterMatch(dec.state), reps |-> Pushed(dec.reps, dist + 1)]
                   /\ out' = Copied(out, dist + 1, len)
                   /\ UNCHANGED phase
    /\ UNCHANGED <<input, format, base, pos, enc, symbols, chunks, output>>

\* The encoder has no use for short repetitions, but the decoder has.
DecodeRep ==
    /\ ReadsOn /\ Got(1) = 1 /\ Got(2) = 1
    /\ LET rep0 == <<MatchAsk, RepAsk, <<"is_rep0", dec.state>>>>
           short == Got(3) = 0 /\ Got(4) = 0
           i == IF Got(3) = 0 THEN 1 ELSE IF Got(4) = 0 THEN 2 ELSE 3 + Got(5)
           asks == rep0 \o (IF i = 1 THEN <<<<"is_rep0_long", dec.state, PosState(Len(out))>>>>
                            ELSE IF i = 2 THEN <<<<"is_rep1", dec.state>>>>
                            ELSE <<<<"is_rep1", dec.state>>, <<"is_rep2", dec.state>>>>)
           d == dec.reps[i]
       IN  /\ Asks(asks \o (IF short THEN <<>> ELSE LenAsks("rep_len", Len(asks) + 1)))
           /\ IF d \notin 1..Len(out)
              THEN phase' = "failed" /\ UNCHANGED <<out, dec>>
              ELSE /\ dec' = IF short THEN [dec EXCEPT !.state = AfterShortRep(@)]
                             ELSE [state |-> AfterRep(dec.state), reps |-> ToFront(dec.reps, i)]
                   /\ out' = Copied(out, d, IF short THEN 1 ELSE Length(Len(asks) + 1))
                   /\ UNCHANGED phase
    /\ UNCHANGED <<input, format, base, pos, enc, symbols, chunks, output>>

\* A chunk has its size: it is over, whatever symbols are left.
NextChunk ==
    /\ phase = "decode" /\ chunks # <<>>
    /\ (chunks[1].stored \/ Len(out) >= chunks[1].size)
    /\ output' = output \o (IF chunks[1].stored THEN chunks[1].bytes ELSE out)
    /\ chunks' = Tail(chunks) /\ out' = <<>> /\ next' = 0 /\ dec' = Fresh
    /\ phase' = IF chunks' = <<>> THEN "done" ELSE "decode"
    /\ UNCHANGED <<input, format, base, pos, enc, symbols, inStep>>

Next == \/ EncodeLiteral \/ EncodeRep \/ EncodeMatch \/ EndChunk
        \/ DecodeLiteral \/ DecodeMatch \/ DecodeRep \/ NextChunk
Spec == Init /\ [][Next]_vars

-----------------------------------------------------------------------------
(* Properties                                                              *)

\* unxz makes of what xz made the file that it was (test_xz_roundtrip,
\* xz.rs:1852, test_lzma_roundtrip, xz.rs:1826).
Restores == phase \notin {"failed", "panicked"} /\ (phase = "done" => output = input)

\* The decoder reads each bit with the probability that the encoder wrote it
\* with: one that it read with another would spoil all bits behind it.
InStep == inStep
=============================================================================
