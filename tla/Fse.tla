-------------------------------- MODULE Fse ---------------------------------
(***************************************************************************)
(* How zstd writes the sequences of a block as bits (src/crates/           *)
(* zstd-nostd: fse.rs, bitstream.rs, encode_sequences_section in           *)
(* compress.rs, decode_sequences_section in decompress.rs).                *)
(*                                                                         *)
(* A sequence has three numbers; each is a code, for which there is a      *)
(* table of states, and extra bits.  The encoder makes the tables from how *)
(* often the codes are used, walks them backward from the last sequence to *)
(* the first, and writes; the decoder reads tables and states forward.     *)
(* The predefined tables and those of an earlier block, which this encoder *)
(* does not use, are left out.                                             *)
(***************************************************************************)
EXTENDS Integers, Sequences, FiniteSets, FiniteSetsExt, SequencesExt

CONSTANTS
    Sections,   \* sequences of functions from Kinds to numbers
    Least,      \* the baselines of a kind's codes, from code 0
    Extra,      \* the extra bits of a kind's codes
    MaxLog,     \* the largest accuracy log of a kind
    ByteBits    \* 8

Kinds == {"ll", "of", "ml"}

VARIABLES
    section, phase,
    tables,     \* of the encoder: [mode, log, probs, entries] for each kind
    k,          \* the sequence the encoder is at
    states,     \* of the encoder, then of the decoder
    updates,    \* for each sequence but the last: [value, bits] for each kind
    written,    \* the bits of tables and sequences
    theirs,     \* the decoder's tables
    stream,     \* the bits the decoder has not read
    decoded
vars == <<section, phase, tables, k, states, updates, written, theirs, stream, decoded>>

Nothing == [kind \in Kinds |-> <<>>]
Init ==
    /\ section \in Sections /\ phase = "tables" /\ tables = Nothing /\ k = 0
    /\ states = Nothing /\ updates = <<>> /\ written = <<>> /\ theirs = Nothing
    /\ stream = <<>> /\ decoded = <<>>

-----------------------------------------------------------------------------
(* Numbers, codes and bits.                                                *)

RECURSIVE BitLength(_)
BitLength(n) == IF n = 0 THEN 0 ELSE 1 + BitLength(n \div 2)
Low(n, bits) == [i \in 1..bits |-> (n \div 2^(i - 1)) % 2]      \* the lowest first
High(n, bits) == Reverse(Low(n, bits))
RECURSIVE NumberOf(_)   \* the highest first
NumberOf(bits) == IF bits = <<>> THEN 0 ELSE 2 * NumberOf(Front(bits)) + Last(bits)
\* f(1) to f(n) as a tuple, each evaluated once.
Row(f(_), n) == <<>> \o [i \in 1..n |-> f(i)]
\* The sequences f(1) to f(n) in a row.
Joined(f(_), n) == LET joined[i \in 0..n] == IF i = 0 THEN <<>> ELSE joined[i - 1] \o f(i)
                   IN  joined[n]
LowNumber(bits) == NumberOf(Reverse(bits))
Zeroes(n) == [i \in 1..n |-> 0]
Filled(bits) == bits \o Zeroes((ByteBits - (Len(bits) % ByteBits)) % ByteBits)
From(s, i) == SubSeq(s, i + 1, Len(s))

Code(kind, n) ==
    IF kind = "of" THEN BitLength(n) - 1
    ELSE Max({c \in DOMAIN Least[kind] : Least[kind][c] <= n})
Start(kind, code) == IF kind = "of" THEN 2^code ELSE Least[kind][code]
ExtraBits(kind, code) == IF kind = "of" THEN code ELSE Extra[kind][code]
CodeOf(i, kind) == Code(kind, section[i][kind])

-----------------------------------------------------------------------------
(* Tables.  A probability of -1 is less than one.                          *)

\* The first n places the symbols are put in, and the one after them.
RECURSIVE Walk(_, _, _)
Walk(size, high, n) ==
    LET step == (size \div 2) + (size \div 8) + 3
        before == Walk(size, high, n - 1)
        place(j) == (Last(before) + step * j) % size
    IN  IF n = 0 THEN <<0>>
        ELSE Append(before, place(Min({j \in 1..size : place(j) <= high})))

Cells(p) == IF p = -1 THEN 1 ELSE p
Prob(probs, s) == probs[s + 1]
Spread(probs) == Joined(LAMBDA i : [j \in 1..(IF probs[i] > 0 THEN probs[i] ELSE 0) |-> i - 1],
                        Len(probs))
Small(probs) == SelectSeq(Row(LAMBDA i : i - 1, Len(probs)), LAMBDA c : Prob(probs, c) = -1)

\* The table's symbols: those with less than one at its end, the first of them last.
Placed(probs, size, walk) ==
    LET big == Spread(probs)
        small == Small(probs)
        put(p) == {i \in 1..Len(big) : walk[i] = p - 1}
    IN  Row(LAMBDA p : IF put(p) # {} THEN big[Max(put(p))]
                       ELSE IF size - p < Len(small) THEN small[size - p + 1] ELSE 0, size)

Entry(probs, log, at, p) ==
    LET next == Cells(Prob(probs, at[p])) + Cardinality({q \in 1..(p - 1) : at[q] = at[p]})
        bits == log - (BitLength(next) - 1)
    IN  [symbol |-> at[p], bits |-> bits, start |-> next * 2^bits - 2^log]

\* The walk ends where it began, or the probabilities do not fill the table.
Build(probs, log) ==
    LET walk == Walk(2^log, 2^log - 1 - Len(Small(probs)), Len(Spread(probs)))
        at == Placed(probs, 2^log, walk)
        ok == Last(walk) = 0
    IN  [ok |-> ok, log |-> log,
         entries |-> IF ok THEN Row(LAMBDA p : Entry(probs, log, at, p), 2^log) ELSE <<>>]

OnlyOne(symbol) == [s \in 1..(symbol + 1) |-> IF s = symbol + 1 THEN 1 ELSE 0]

-----------------------------------------------------------------------------
(* The encoder's tables.                                                   *)

Count(kind, c) == Cardinality({i \in 1..Len(section) : CodeOf(i, kind) = c})
MaxCode(kind) == Max({CodeOf(i, kind) : i \in 1..Len(section)})

TableLog(kind) ==
    LET n == Len(section)
        log == IF n < 16 THEN 5 ELSE IF n < 64 THEN 6 ELSE IF n < 256 THEN 7 ELSE 8
        least == IF MaxCode(kind) < 2 THEN 1 ELSE BitLength(MaxCode(kind))
    IN  Min({Max({log, least + 1}), MaxLog[kind]})

\* In proportion, and the most frequent makes up what the others miss.
Normalized(kind, size) ==
    LET n == MaxCode(kind) + 1
        count == Row(LAMBDA i : Count(kind, i - 1), n)
        share == Row(LAMBDA i : IF count[i] = 0 THEN 0
                                ELSE IF count[i] * size < Len(section) THEN -1
                                ELSE (count[i] * size) \div Len(section), n)
        most == Min({i \in 1..n : \A j \in 1..n : count[j] <= count[i]})
        rest == share[most] + size - MapThenSumSet(LAMBDA i : Cells(share[i]), 1..n)
    IN  Row(LAMBDA i : IF i # most THEN share[i] ELSE IF rest <= 0 THEN 1 ELSE rest, n)

\* One count after the other; what is left bounds how many bits one needs.
Halved(threshold, remaining) ==
    IF remaining >= threshold THEN threshold
    ELSE Max({2^e : e \in {f \in 0..BitLength(threshold) : 2^f <= remaining}})
RECURSIVE Counts(_, _, _, _), Repeats(_)
Repeats(n) == IF n >= 3 THEN <<1, 1>> \o Repeats(n - 3) ELSE Low(n, 2)
Counts(probs, i, remaining, threshold) ==
    IF i > Len(probs) \/ remaining <= 1 THEN <<>>
    ELSE LET count == probs[i] + 1
             most == 2 * threshold - 1 - remaining
             bits == BitLength(threshold)
             number == IF count < most THEN Low(count, bits - 1)
                       ELSE Low(IF count < threshold THEN count ELSE count + most, bits)
             left == remaining - Cells(probs[i])
             zeroes == Min({Len(probs) + 1} \cup {j \in (i + 1)..Len(probs) : probs[j] # 0}) - (i + 1)
         IN  IF probs[i] = 0
             THEN number \o Repeats(zeroes)
                  \o Counts(probs, i + 1 + zeroes, left, Halved(threshold, left))
             ELSE number \o Counts(probs, i + 1, left, Halved(threshold, left))
Description(probs, log) == Filled(Low(log - 5, 4) \o Counts(probs, 1, 2^log + 1, 2^log))

EncoderTable(kind) ==
    IF \A i \in 1..Len(section) : CodeOf(i, kind) = MaxCode(kind)
    THEN [mode |-> "rle", header |-> Low(MaxCode(kind), ByteBits)]
         @@ Build(OnlyOne(MaxCode(kind)), 0)
    ELSE LET log == TableLog(kind)
             probs == Normalized(kind, 2^log)
         IN  [mode |-> "fse", header |-> Description(probs, log)] @@ Build(probs, log)

\* build(..).unwrap(): the program ends if the shares do not fill the table.
BuildTables ==
    /\ phase = "tables"
    /\ tables' = [kind \in Kinds |-> EncoderTable(kind)]
    /\ phase' = IF \A kind \in Kinds : tables'[kind].ok THEN "encode" ELSE "panicked"
    /\ UNCHANGED <<section, k, states, updates, written, theirs, stream, decoded>>

-----------------------------------------------------------------------------
(* Walking the tables backward.                                            *)

StatesOf(table, symbol) == {p \in 0..(2^table.log - 1) : table.entries[p + 1].symbol = symbol}
Leads(entry, target) == entry.start <= target /\ target < entry.start + 2^entry.bits

\* The first state of a symbol that leads to the target, or else the first.
SourceState(table, symbol, target) ==
    LET sources == {p \in StatesOf(table, symbol) : Leads(table.entries[p + 1], target)}
    IN  IF sources # {} THEN Min(sources) ELSE Min(StatesOf(table, symbol))

LastState ==
    /\ phase = "encode" /\ k = 0
    /\ states' = [kind \in Kinds |-> Min(StatesOf(tables[kind], CodeOf(Len(section), kind)))]
    /\ k' = Len(section)
    /\ UNCHANGED <<section, phase, tables, updates, written, theirs, stream, decoded>>

StepBack ==
    /\ phase = "encode" /\ k > 1
    /\ LET source(kind) == SourceState(tables[kind], CodeOf(k - 1, kind), states[kind])
           entry(kind) == tables[kind].entries[source(kind) + 1]
       IN  /\ states' = [kind \in Kinds |-> source(kind)]
           /\ updates' = <<[kind \in Kinds |->
                 IF Leads(entry(kind), states[kind])
                 THEN High(states[kind] - entry(kind).start, entry(kind).bits) ELSE <<>>]>>
                         \o updates
    /\ k' = k - 1
    /\ UNCHANGED <<section, phase, tables, written, theirs, stream, decoded>>

\* (mutant: the extra bits of the three in the order of their tables)
SequenceBits_Ordered(i) ==
    LET extra(kind) == LET c == CodeOf(i, kind)
                       IN  High(section[i][kind] - Start(kind, c), ExtraBits(kind, c))
    IN  extra("ll") \o extra("of") \o extra("ml")
        \o (IF i = Len(section) THEN <<>>
            ELSE updates[i]["ll"] \o updates[i]["ml"] \o updates[i]["of"])

SequenceBits(i) ==
    LET extra(kind) == LET c == CodeOf(i, kind)
                       IN  High(section[i][kind] - Start(kind, c), ExtraBits(kind, c))
    IN  extra("of") \o extra("ml") \o extra("ll")
        \o (IF i = Len(section) THEN <<>>
            ELSE updates[i]["ll"] \o updates[i]["ml"] \o updates[i]["of"])

\* The stream is read from its end, where a one marks the first bit.
Backward(bits) == Filled(Reverse(bits) \o <<1>>)
Forward(bytes) == LET mark == Max({0} \cup {i \in 1..Len(bytes) : bytes[i] = 1})
                  IN  Reverse(SubSeq(bytes, 1, mark - 1))
HasMark(bytes) == \E i \in 1..Len(bytes) : i > Len(bytes) - ByteBits /\ bytes[i] = 1

Write ==
    /\ phase = "encode" /\ k = 1
    /\ written' = tables["ll"].header \o tables["of"].header \o tables["ml"].header
            \o Backward(High(states["ll"], tables["ll"].log) \o High(states["of"], tables["of"].log)
                        \o High(states["ml"], tables["ml"].log)
                        \o Joined(SequenceBits, Len(section)))
    /\ phase' = "read tables"
    /\ UNCHANGED <<section, tables, k, states, updates, theirs, stream, decoded>>

-----------------------------------------------------------------------------
(* The decoder.                                                            *)

BitsAt(bits, pos, n) == [i \in 1..n |-> IF pos + i <= Len(bits) THEN bits[pos + i] ELSE 0]

RECURSIVE ReadRepeats(_, _)
ReadRepeats(bits, pos) ==
    LET n == LowNumber(BitsAt(bits, pos, 2))
    IN  IF n < 3 THEN <<n, pos + 2>>
        ELSE LET more == ReadRepeats(bits, pos + 2) IN <<n + more[1], more[2]>>

\* Reads counts until they are all given; a zero says how many follow it.
RECURSIVE ReadCounts(_, _, _, _, _)
ReadCounts(bits, pos, probs, remaining, threshold) ==
    IF remaining <= 1 THEN [ok |-> remaining >= 0, probs |-> probs, pos |-> pos]
    ELSE LET most == 2 * threshold - 1 - remaining
             n == BitLength(threshold)
             short == LowNumber(BitsAt(bits, pos, n - 1))
             long == LowNumber(BitsAt(bits, pos, n))
             count == IF short < most THEN short ELSE IF long >= threshold THEN long - most ELSE long
             end == pos + (IF short < most THEN n - 1 ELSE n)
             left == remaining - Cells(count - 1)
             zeroes == ReadRepeats(bits, end)
         IN  IF left < 0 THEN [ok |-> FALSE, probs |-> probs, pos |-> end]
             ELSE IF count = 1
             THEN ReadCounts(bits, zeroes[2], probs \o Zeroes(1 + zeroes[1]), left, Halved(threshold, left))
             ELSE ReadCounts(bits, end, Append(probs, count - 1), left, Halved(threshold, left))

ReadTable(mode, bits) ==
    IF mode = "rle"
    THEN [rest |-> From(bits, ByteBits)]
         @@ Build(OnlyOne(LowNumber(BitsAt(bits, 0, ByteBits))), 0)
    ELSE LET log == LowNumber(BitsAt(bits, 0, 4)) + 5
             read == ReadCounts(bits, 4, <<>>, 2^log + 1, 2^log)
         IN  [rest |-> From(bits, read.pos + ((ByteBits - (read.pos % ByteBits)) % ByteBits))]
             @@ (IF read.ok THEN Build(read.probs, log) ELSE [ok |-> FALSE, log |-> log, entries |-> <<>>])

ReadTables ==
    /\ phase = "read tables"
    /\ \E ll \in {ReadTable(tables["ll"].mode, written)} :
       \E of \in {ReadTable(tables["of"].mode, ll.rest)} :
       \E ml \in {ReadTable(tables["ml"].mode, of.rest)} :
       LET got == [kind \in Kinds |-> CASE kind = "ll" -> ll [] kind = "of" -> of [] kind = "ml" -> ml]
           bits == Forward(ml.rest)
           first == ll.log + of.log
           fails == (\E kind \in Kinds : ~got[kind].ok) \/ ~HasMark(ml.rest)
                    \/ Len(bits) < first + ml.log
       IN  /\ theirs' = [kind \in Kinds |-> [log |-> got[kind].log, entries |-> got[kind].entries]]
           /\ phase' = IF fails THEN "failed" ELSE "decode"
           /\ stream' = From(bits, first + ml.log)
           /\ states' = [kind \in Kinds |->
                 NumberOf(CASE kind = "ll" -> BitsAt(bits, 0, ll.log)
                            [] kind = "of" -> BitsAt(bits, ll.log, of.log)
                            [] kind = "ml" -> BitsAt(bits, first, ml.log))]
    /\ UNCHANGED <<section, tables, k, updates, written, decoded>>

\* One sequence: three codes from the states, their extra bits, the next states.
DecodeSequence ==
    /\ phase = "decode" /\ Len(decoded) < Len(section)
    /\ LET entry == [kind \in Kinds |-> theirs[kind].entries[states[kind] + 1]]
           code == [kind \in Kinds |-> entry[kind].symbol]
           n == [kind \in Kinds |-> ExtraBits(kind, code[kind])]
           last == Len(decoded) + 1 = Len(section)
           m == [kind \in Kinds |-> IF last THEN 0 ELSE entry[kind].bits]
           at == n["of"] + n["ml"] + n["ll"]
           extra(kind, pos) == Start(kind, code[kind]) + NumberOf(BitsAt(stream, pos, n[kind]))
           state(kind, pos) == entry[kind].start + NumberOf(BitsAt(stream, pos, m[kind]))
           used == at + m["ll"] + m["ml"] + m["of"]
       IN  /\ phase' = IF used > Len(stream) THEN "failed" ELSE IF last THEN "done" ELSE phase
           /\ decoded' = Append(decoded, [kind \in Kinds |->
                 CASE kind = "of" -> extra(kind, 0) [] kind = "ml" -> extra(kind, n["of"])
                   [] kind = "ll" -> extra(kind, n["of"] + n["ml"])])
           /\ states' = IF last THEN states ELSE [kind \in Kinds |->
                 CASE kind = "ll" -> state(kind, at) [] kind = "ml" -> state(kind, at + m["ll"])
                   [] kind = "of" -> state(kind, at + m["ll"] + m["ml"])]
           /\ stream' = From(stream, used)
    /\ UNCHANGED <<section, tables, k, updates, written, theirs>>

Next == BuildTables \/ LastState \/ StepBack \/ Write \/ ReadTables \/ DecodeSequence

Spec == Init /\ [][Next]_vars

-----------------------------------------------------------------------------
\* The decoder gets the sequences the encoder wrote, and uses up the bits.
SequencesComeBack ==
    /\ phase \notin {"failed", "panicked"}
    /\ phase = "done" => decoded = section /\ stream = <<>>

\* For each code and each state to get to, there is exactly one state of the
\* code that leads there (find_source_state, compress.rs:666).
OneSourceEach ==
    (phase = "encode" /\ k = 0) =>
        \A kind \in Kinds : \A c \in {CodeOf(i, kind) : i \in 1..Len(section)} :
            \A target \in 0..(2^tables[kind].log - 1) :
                Cardinality({p \in StatesOf(tables[kind], c) :
                               Leads(tables[kind].entries[p + 1], target)}) = 1

\* The decoder builds the encoder's tables from their descriptions (fse.rs:127).
TablesAgree ==
    (phase = "decode" /\ decoded = <<>>) => \A kind \in Kinds : theirs[kind].entries = tables[kind].entries
=============================================================================
