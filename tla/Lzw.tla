--------------------------------- MODULE Lzw ---------------------------------
(***************************************************************************)
(* compress and uncompress (src/src/applets/archive/compress.rs): the LZW  *)
(* encoder, and the decoder that must guess each change of the code width  *)
(* one entry behind it.                                                    *)
(*                                                                         *)
(* Widths are parameters: codes start at MinBits bits, 9 in the code, and  *)
(* have MaxBits at most, 16, which is also the width of next_code.  Bytes  *)
(* have ByteBits bits, and their values are the first codes.               *)
(***************************************************************************)
EXTENDS Integers, Sequences, FiniteSets

CONSTANTS Bytes,     \* byte values, 0..n-1
          MinBits, MaxBits, ByteBits,
          Inputs,    \* what is compressed
          Streams    \* what is decompressed as it is: foreign or damaged archives

CLEAR_CODE == Cardinality(Bytes)
FIRST_CODE == CLEAR_CODE + 1
MaxCode == 2^MaxBits - 1

VARIABLES
  input,     \* never changes
  phase,     \* "encode", "decode", "done"
  at,        \* bytes encoded, then bits decoded
  current,   \* the encoder's phrase; the decoder's last entry, <<>> for None
  codes,     \* the encoder's dictionary: phrase -> code
  table,     \* the decoder's: table[c + 1] is the phrase of code c
  next,      \* next_code
  bits,      \* current_bits
  stream,    \* the compressed bits
  output,
  wrapped,   \* next_code has passed the last code (history)
  fits       \* every code fitted the width it was written with (history)
vars == <<input, phase, at, current, codes, table, next, bits, stream, output, wrapped, fits>>

Bit(code, i) == (code \div 2^(i - 1)) % 2
BitsOf(code, width) == [i \in 1..width |-> Bit(code, i)]
RECURSIVE Value(_)
Value(b) == IF b = <<>> THEN 0 ELSE b[1] + 2 * Value(Tail(b))
Padded(s) == s \o [i \in 1..((ByteBits - (Len(s) % ByteBits)) % ByteBits) |-> 0]

Singles == [s \in {<<b>> : b \in Bytes} |-> s[1]]
\* Reserves the code that clears the table.
Fresh == [c \in 1..FIRST_CODE |-> IF c <= CLEAR_CODE THEN <<c - 1>> ELSE <<>>]

Init ==
    /\ \/ input \in Inputs \ {<<>>} /\ phase = "encode" /\ at = 1 /\ current = <<input[1]>>
          /\ stream = <<>>
       \/ input = <<>> /\ phase = "decode" /\ at = 0 /\ current = <<>> /\ stream \in Streams
    /\ codes = Singles /\ table = Fresh /\ next = FIRST_CODE /\ bits = MinBits
    /\ output = <<>> /\ wrapped = FALSE /\ fits = TRUE

-----------------------------------------------------------------------------
(* lzw_compress                                                            *)

Emit(code) ==
    /\ stream' = stream \o BitsOf(code, bits)
    /\ fits' = (fits /\ code < 2^bits)

\* The phrase is known with one more byte.
Extend ==
    LET longer == Append(current, input[at + 1])
    IN  /\ phase = "encode" /\ at < Len(input) /\ longer \in DOMAIN codes
        /\ current' = longer /\ at' = at + 1
        /\ UNCHANGED <<input, phase, codes, table, next, bits, stream, output, wrapped, fits>>

\* A table that is full takes no more; next_code goes on, and starts again at 0.
Insert(phrase) ==
    /\ codes' = IF Cardinality(DOMAIN codes) <= MaxCode
                THEN [s \in DOMAIN codes \cup {phrase} |-> IF s = phrase THEN next ELSE codes[s]]
                ELSE codes
    /\ next' = (next + 1) % 2^MaxBits
    /\ wrapped' = (wrapped \/ next' = 0)

\* (mutant: widens the codes one entry early, when the decoder does)
Phrase_WidensEarly ==
    LET byte == input[at + 1]
        longer == Append(current, byte)
    IN  /\ phase = "encode" /\ at < Len(input) /\ longer \notin DOMAIN codes
        /\ Emit(codes[current])
        /\ Insert(longer)
        /\ bits' = IF next' >= 2^bits /\ bits < MaxBits THEN bits + 1 ELSE bits
        /\ current' = <<byte>> /\ at' = at + 1
        /\ UNCHANGED <<input, phase, table, output>>

Phrase ==
    LET byte == input[at + 1]
        longer == Append(current, byte)
    IN  /\ phase = "encode" /\ at < Len(input) /\ longer \notin DOMAIN codes
        /\ Emit(codes[current])
        /\ Insert(longer)
        /\ bits' = IF next' > 2^bits /\ bits < MaxBits THEN bits + 1 ELSE bits
        /\ current' = <<byte>> /\ at' = at + 1
        /\ UNCHANGED <<input, phase, table, output>>

\* The last phrase; the last byte is filled up with zeroes.
Finish ==
    /\ phase = "encode" /\ at = Len(input)
    /\ stream' = Padded(stream \o BitsOf(codes[current], bits))
    /\ fits' = (fits /\ codes[current] < 2^bits)
    /\ phase' = "decode" /\ at' = 0 /\ current' = <<>> /\ next' = FIRST_CODE /\ bits' = MinBits
    /\ UNCHANGED <<input, codes, table, output, wrapped>>

-----------------------------------------------------------------------------
(* lzw_decompress                                                          *)

Code == Value(SubSeq(stream, at + 1, at + bits))
HasCode == phase = "decode" /\ at + bits <= Len(stream)
\* The code of an entry that is only being made: the last one and its own first byte.
Known == \/ Code < Len(table)
         \/ Code = Len(table) /\ current # <<>>
Entry == IF Code < Len(table) THEN table[Code + 1] ELSE Append(current, current[1])

Clear ==
    /\ HasCode /\ Code = CLEAR_CODE
    /\ at' = at + bits
    /\ table' = SubSeq(table, 1, FIRST_CODE) /\ next' = FIRST_CODE
    /\ bits' = MinBits /\ current' = <<>>
    /\ UNCHANGED <<input, phase, codes, stream, output, wrapped, fits>>

Decode ==
    /\ HasCode /\ Code # CLEAR_CODE /\ Known
    /\ at' = at + bits /\ output' = output \o Entry /\ current' = Entry
    /\ IF current = <<>> THEN UNCHANGED <<table, next, bits, wrapped>>
       ELSE /\ table' = IF Len(table) <= next THEN Append(table, Append(current, Entry[1])) ELSE table
            /\ next' = (next + 1) % 2^MaxBits
            /\ bits' = IF next' >= 2^bits /\ bits < MaxBits THEN bits + 1 ELSE bits
            /\ wrapped' = (wrapped \/ next' = 0)
    /\ UNCHANGED <<input, phase, codes, stream, fits>>

End ==
    /\ phase = "decode" /\ (HasCode => Code # CLEAR_CODE /\ ~Known)
    /\ phase' = "done"
    /\ UNCHANGED <<input, at, current, codes, table, next, bits, stream, output, wrapped, fits>>

Next == Extend \/ Phrase \/ Finish \/ Clear \/ Decode \/ End
Spec == Init /\ [][Next]_vars

-----------------------------------------------------------------------------
(* Properties                                                              *)

\* "uncompress LZW compressed files" (compress.rs:101): what compress wrote is
\* restored, as long as next_code does not pass the last code.  It must not:
\* the encoder would give the codes of single bytes to new phrases.
RoundTrip == phase = "done" /\ input # <<>> /\ ~wrapped => output = input

\* A code is never wider than what it is written with: emit_code does not mask
\* it, and would spoil the code that follows.
CodesFit == fits

\* The decoder's next code is the one its table has room for, whatever the
\* stream says and however often it clears: only then is the code of an entry
\* in the making told from a damaged one.
TableInStep == ~wrapped => (phase = "decode" => Len(table) = next)
=============================================================================
