------------------------------ MODULE RangeCoder ------------------------------
(***************************************************************************)
(* The range coder of xz (src/src/applets/archive/xz.rs): bits with        *)
(* adaptive probabilities, and direct bits, go into one large number, most *)
(* significant byte first.  A carry may run through any number of bytes    *)
(* that are not out yet.                                                   *)
(*                                                                         *)
(* Widths are parameters.  In the code a byte has 8 bits, the range four   *)
(* bytes, a probability 11 bits, and probabilities move by 1/32.  As there,*)
(* no probability that bits can lead to is less than Total / 2^ByteBits.   *)
(***************************************************************************)
EXTENDS Integers, Sequences

CONSTANTS ByteBits, RangeBytes, ProbBits, MoveBits,
          Inputs    \* sequences of <<bit, context>>; context 0 is for direct bits

Byte == 2^ByteBits
Total == 2^ProbBits             \* RC_BIT_MODEL_TOTAL
Top == Byte^(RangeBytes - 1)    \* RC_TOP_VALUE
Full == Byte^RangeBytes         \* 2^32
Contexts == 1..2

VARIABLES
    input, phase,   \* "encode", "finish", "decode", "done"
    at,             \* bits encoded, and then decoded
    low, range, cache, cacheSize, bytes,    \* RangeEncoder
    eprobs,
    shifts,         \* shift_lows that finish has done
    drange, code, pos, dprobs,              \* RangeDecoder
    decoded
evars == <<low, range, cache, cacheSize, bytes, eprobs>>
dvars == <<drange, code, pos, dprobs, decoded>>
vars == <<input, phase, at, evars, shifts, dvars>>

HalfProbs == [c \in Contexts |-> Total \div 2]

Init ==
    /\ input \in Inputs /\ phase = "encode" /\ at = 0 /\ shifts = 0
    /\ low = 0 /\ range = Full - 1 /\ cache = 0 /\ cacheSize = 1 /\ bytes = <<>> /\ eprobs = HalfProbs
    /\ drange = Full - 1 /\ code = 0 /\ pos = 0 /\ dprobs = HalfProbs /\ decoded = <<>>

Adapted(prob, bit) ==
    IF bit = 0 THEN prob + ((Total - prob) \div 2^MoveBits) ELSE prob - (prob \div 2^MoveBits)

-----------------------------------------------------------------------------
(* The encoder, as a value: what normalize loops over.                     *)

Encoder == [low |-> low, range |-> range, cache |-> cache, size |-> cacheSize, bytes |-> bytes]

\* (mutant: carries only into the byte in the cache)
ShiftLow_CarriesOnce(e) ==
    LET carry == (e.low \div Full) % Byte
        out == carry # 0 \/ e.low < Full - Top
        waiting == [i \in 1..e.size |-> IF i = 1 THEN (e.cache + carry) % Byte ELSE Byte - 1]
    IN  [e EXCEPT !.bytes = IF out THEN @ \o waiting ELSE @,
                  !.cache = IF out THEN (e.low \div Top) % Byte ELSE @,
                  !.size = IF out THEN 1 ELSE @ + 1,
                  !.low = (@ * Byte) % Full]

\* The bytes that wait are 0xFF but the first, until it is known whether one is
\* carried into them.
ShiftLow(e) ==
    LET carry == (e.low \div Full) % Byte
        out == carry # 0 \/ e.low < Full - Top
        waiting == [i \in 1..e.size |-> ((IF i = 1 THEN e.cache ELSE Byte - 1) + carry) % Byte]
    IN  [e EXCEPT !.bytes = IF out THEN @ \o waiting ELSE @,
                  !.cache = IF out THEN (e.low \div Top) % Byte ELSE @,
                  !.size = IF out THEN 1 ELSE @ + 1,
                  !.low = (@ * Byte) % Full]

RECURSIVE Normalized(_)
Normalized(e) == IF e.range < Top THEN Normalized(ShiftLow([e EXCEPT !.range = @ * Byte])) ELSE e

Becomes(e) ==
    /\ low' = e.low /\ range' = e.range /\ cache' = e.cache /\ cacheSize' = e.size /\ bytes' = e.bytes

Bound(r, prob) == (r \div Total) * prob

EncodeBit ==
    /\ phase = "encode" /\ at < Len(input)
    /\ LET bit == input[at + 1][1]
           c == input[at + 1][2]
           bound == Bound(range, eprobs[c])
       IN  /\ c # 0
           /\ Becomes(Normalized(IF bit = 0 THEN [Encoder EXCEPT !.range = bound]
                                 ELSE [Encoder EXCEPT !.low = @ + bound, !.range = @ - bound]))
           /\ eprobs' = [eprobs EXCEPT ![c] = Adapted(@, bit)]
    /\ at' = at + 1
    /\ UNCHANGED <<input, phase, shifts, dvars>>

\* A bit of encode_direct.
EncodeDirect ==
    /\ phase = "encode" /\ at < Len(input)
    /\ LET bit == input[at + 1][1]
           half == range \div 2
       IN  /\ input[at + 1][2] = 0
           /\ Becomes(Normalized([Encoder EXCEPT !.low = @ + half * bit, !.range = half]))
    /\ at' = at + 1
    /\ UNCHANGED <<input, phase, shifts, eprobs, dvars>>

\* Enough shifts push out all of low.
Finish ==
    /\ phase \in {"encode", "finish"} /\ at = Len(input)
    /\ IF shifts <= RangeBytes
       THEN Becomes(ShiftLow(Encoder)) /\ shifts' = shifts + 1 /\ phase' = "finish" /\ UNCHANGED <<at, pos, code>>
       ELSE /\ phase' = "decode" /\ at' = 0 /\ pos' = RangeBytes + 1
            /\ code' = LET b[i \in 0..RangeBytes] == IF i = 0 THEN 0 ELSE b[i - 1] * Byte + bytes[i + 1]
                       IN  b[RangeBytes]
            /\ UNCHANGED <<low, range, cache, cacheSize, bytes, shifts>>
    /\ UNCHANGED <<input, eprobs, drange, dprobs, decoded>>

-----------------------------------------------------------------------------
(* The decoder; it takes one byte at most for a bit, and zeroes behind the  *)
(* last.                                                                   *)

Reads(r, c) ==
    IF r < Top
    THEN /\ drange' = r * Byte
         /\ code' = (c * Byte + (IF pos < Len(bytes) THEN bytes[pos + 1] ELSE 0)) % Full
         /\ pos' = IF pos < Len(bytes) THEN pos + 1 ELSE pos
    ELSE drange' = r /\ code' = c /\ UNCHANGED pos

DecodeBit ==
    /\ phase = "decode" /\ at < Len(input)
    /\ LET c == input[at + 1][2]
           bound == (drange \div Total) * dprobs[c]
           bit == IF code < bound THEN 0 ELSE 1
       IN  /\ c # 0
           /\ IF bit = 0 THEN Reads(bound, code) ELSE Reads(drange - bound, code - bound)
           /\ dprobs' = [dprobs EXCEPT ![c] = Adapted(@, bit)]
           /\ decoded' = Append(decoded, bit)
    /\ at' = at + 1
    /\ UNCHANGED <<input, phase, shifts, evars>>

\* The sign of the difference, in the top bit of the word, tells the bit.
DecodeDirect ==
    /\ phase = "decode" /\ at < Len(input)
    /\ LET half == drange \div 2
           sign == ((code - half) % Full) \div (Full \div 2)
       IN  /\ input[at + 1][2] = 0
           /\ Reads(half, (code - half + sign * half) % Full)
           /\ decoded' = Append(decoded, 1 - sign)
    /\ at' = at + 1
    /\ UNCHANGED <<input, phase, shifts, evars, dprobs>>

Done ==
    /\ phase = "decode" /\ at = Len(input)
    /\ phase' = "done"
    /\ UNCHANGED <<input, at, evars, shifts, dvars>>

Next == EncodeBit \/ EncodeDirect \/ Finish \/ DecodeBit \/ DecodeDirect \/ Done
Spec == Init /\ [][Next]_vars

-----------------------------------------------------------------------------
(* Properties                                                              *)

\* Each bit comes out as it went in, wherever carries and the ends of bytes
\* fall, and both sides have the same probabilities then.
BitsComeBack ==
    /\ \A i \in 1..Len(decoded) : decoded[i] = input[i][1]
    /\ phase = "done" => dprobs = eprobs

\* One byte is enough after every bit, on both sides: the decoder takes no
\* more, and the code lies within the range; the carry is one bit.
DecoderKeepsUp ==
    /\ range >= Top /\ drange >= Top
    /\ phase = "decode" => code < drange
    /\ low < 2 * Full
=============================================================================
