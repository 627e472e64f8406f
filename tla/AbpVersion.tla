------------------------------ MODULE AbpVersion ------------------------------
(***************************************************************************)
(* Version numbers and dependency constraints of abp                       *)
(* (src/crates/abp/src/format.rs): Version::parse, Version::compare,       *)
(* compare_version_strings, Dependency::satisfied_by.                      *)
(*                                                                         *)
(* A version is a sequence of characters, "epoch:version-release" with     *)
(* both ends optional; a dependency's constraint is a pair of an operator  *)
(* and a version.  Letters are those of ASCII, and each machine integer    *)
(* holds numbers up to a bound, which TLC keeps small.                     *)
(***************************************************************************)
EXTENDS Naturals, Sequences

CONSTANTS U32Max,   \* largest epoch and release, 2^32 - 1
          U64Max    \* largest number of a segment, 2^64 - 1

VARIABLE versions   \* the versions a comparison is about: three of them, or none

ASSUME WidthAssumption == U32Max \in Nat /\ U64Max \in Nat

DigitSeq == <<"0", "1", "2", "3", "4", "5", "6", "7", "8", "9">>
LetterSeq == <<"A", "B", "C", "D", "E", "F", "G", "H", "I", "J", "K", "L", "M",
               "N", "O", "P", "Q", "R", "S", "T", "U", "V", "W", "X", "Y", "Z",
               "a", "b", "c", "d", "e", "f", "g", "h", "i", "j", "k", "l", "m",
               "n", "o", "p", "q", "r", "s", "t", "u", "v", "w", "x", "y", "z">>
Digits == {DigitSeq[i] : i \in DOMAIN DigitSeq}
Letters == {LetterSeq[i] : i \in DOMAIN LetterSeq}
Alphanumeric == Digits \cup Letters
Separators == {".", ":", "-", "_"}

Place(c, seq) == CHOOSE i \in DOMAIN seq : seq[i] = c

\* The end of the run of characters of C that starts at i.
RunEnd(s, i, C) ==
    CHOOSE j \in i..(Len(s) + 1) :
        /\ \A k \in i..(j - 1) : s[k] \in C
        /\ j <= Len(s) => s[j] \notin C

\* str::parse to an unsigned integer, unwrap_or(0): no digits, another
\* character or a number too large all give 0.
Number(s, max) ==
    LET value[n \in 0..Len(s)] ==
            IF n = 0 THEN 0 ELSE 10 * value[n - 1] + (Place(s[n], DigitSeq) - 1)
    IN  IF \A i \in DOMAIN s : s[i] \in Digits
        THEN IF value[Len(s)] <= max THEN value[Len(s)] ELSE 0
        ELSE 0

Order(x, y) == IF x < y THEN "Less" ELSE IF x > y THEN "Greater" ELSE "Equal"

\* Ordering::then.
Then(first, second) == IF first = "Equal" THEN second ELSE first

\* String comparison of two runs of letters.
OrderOfLetters(x, y) ==
    LET differ == {i \in DOMAIN x \cap DOMAIN y : x[i] # y[i]}
        k == CHOOSE i \in differ : \A j \in differ : i <= j
    IN  IF differ = {} THEN Order(Len(x), Len(y))
        ELSE Order(Place(x[k], LetterSeq), Place(y[k], LetterSeq))

-----------------------------------------------------------------------------
\* (mutant: what follows the end of the shorter one does not count)
AtEnd_Prefix(x, i, y, j) == "Equal"

\* One of two versions is at its end: it is the older one if the other is not.
AtEnd(x, i, y, j) == Order(IF i > Len(x) THEN 0 ELSE 1, IF j > Len(y) THEN 0 ELSE 1)

\* Where a run that starts at i leaves the iterator.  take_while() on a borrowed
\* iterator has to take the character it stops at, so that one is lost.
Behind(s, i, C) == LET e == RunEnd(s, i, C) IN IF e > Len(s) THEN e ELSE e + 1

Run(s, i, C) == SubSeq(s, i, RunEnd(s, i, C) - 1)

CompareVersionStrings(x, y) ==
    LET cmp[at \in (1..(Len(x) + 1)) \X (1..(Len(y) + 1))] ==
          LET m == RunEnd(x, at[1], Separators)
              n == RunEnd(y, at[2], Separators)
          IN  IF m > Len(x) \/ n > Len(y) THEN AtEnd(x, m, y, n)
              ELSE IF x[m] \in Digits /\ y[n] \in Digits
                   THEN Then(Order(Number(Run(x, m, Digits), U64Max),
                                   Number(Run(y, n, Digits), U64Max)),
                             cmp[<<Behind(x, m, Digits), Behind(y, n, Digits)>>])
              ELSE IF x[m] \in Letters /\ y[n] \in Letters
                   THEN Then(OrderOfLetters(Run(x, m, Letters), Run(y, n, Letters)),
                             cmp[<<Behind(x, m, Letters), Behind(y, n, Letters)>>])
              ELSE IF x[m] \in Digits THEN "Greater" ELSE "Less"
    IN  cmp[<<1, 1>>]

\* Version::parse: the epoch ends at the first colon, the release starts
\* behind the last hyphen of the rest.
Parse(s) ==
    LET colons == {i \in DOMAIN s : s[i] = ":"}
        colon == CHOOSE i \in colons : \A j \in colons : i <= j
        rest == IF colons = {} THEN s ELSE SubSeq(s, colon + 1, Len(s))
        hyphens == {i \in DOMAIN rest : rest[i] = "-"}
        hyphen == CHOOSE i \in hyphens : \A j \in hyphens : i >= j
    IN  [epoch |-> IF colons = {} THEN 0 ELSE Number(SubSeq(s, 1, colon - 1), U32Max),
         version |-> IF hyphens = {} THEN rest ELSE SubSeq(rest, 1, hyphen - 1),
         release |-> IF hyphens = {} THEN 0
                     ELSE Number(SubSeq(rest, hyphen + 1, Len(rest)), U32Max)]

\* Version::compare.
Compare(s, t) ==
    LET x == Parse(s)  y == Parse(t)
    IN  Then(Order(x.epoch, y.epoch),
             Then(CompareVersionStrings(x.version, y.version),
                  Order(x.release, y.release)))

\* Dependency::satisfied_by.
SatisfiedByVersion(constraint, s) ==
    LET o == Compare(s, constraint.version)
    IN  CASE constraint.op = "any" -> TRUE
          [] constraint.op = "=" -> o = "Equal"
          [] constraint.op = "<" -> o = "Less"
          [] constraint.op = "<=" -> o # "Greater"
          [] constraint.op = ">" -> o = "Greater"
          [] constraint.op = ">=" -> o # "Less"

-----------------------------------------------------------------------------
(* What the comparison should be                                           *)

\* The segments of a version: its maximal runs of digits or of letters.
SameKind(c, d) == {c, d} \subseteq Digits \/ {c, d} \subseteq Letters
Kind(c) == IF c \in Digits THEN Digits ELSE Letters
Starts(s) == {i \in DOMAIN s : /\ s[i] \in Alphanumeric
                               /\ i = 1 \/ ~SameKind(s[i - 1], s[i])}
Segments(s) ==
    LET from[i \in 1..(Len(s) + 1)] ==
            IF i > Len(s) THEN <<>>
            ELSE IF i \in Starts(s) THEN <<Run(s, i, Kind(s[i]))>> \o from[i + 1]
            ELSE from[i + 1]
    IN  from[1]

\* The number a segment stands for, however large.
Value(s) == LET value[n \in 0..Len(s)] ==
                    IF n = 0 THEN 0 ELSE 10 * value[n - 1] + (Place(s[n], DigitSeq) - 1)
            IN  value[Len(s)]

OrderOfSegments(x, y) ==
    CASE x[1] \in Digits /\ y[1] \in Digits -> Order(Value(x), Value(y))
      [] x[1] \in Digits /\ y[1] \in Letters -> "Greater"
      [] x[1] \in Letters /\ y[1] \in Digits -> "Less"
      [] OTHER -> OrderOfLetters(x, y)

\* Segment by segment; a version that ends first is the older one.
ReferenceOrder(s, t) ==
    LET x == Segments(s)  y == Segments(t)
        differ == {i \in DOMAIN x \cap DOMAIN y : OrderOfSegments(x[i], y[i]) # "Equal"}
        k == CHOOSE i \in differ : \A j \in differ : i <= j
    IN  IF differ = {} THEN Order(Len(x), Len(y)) ELSE OrderOfSegments(x[k], y[k])

\* Versions whose segments are kept apart by separators, as in 1.0.rc.1, and
\* whose numbers fit their type; no epoch, no release.
Ordinary(s) ==
    /\ \A i \in DOMAIN s : s[i] \notin {":", "-"}
    /\ \A i \in 1..(Len(s) - 1) : {s[i], s[i + 1]} \subseteq Alphanumeric =>
          SameKind(s[i], s[i + 1])
    /\ \A i \in DOMAIN Segments(s) :
          Segments(s)[i][1] \in Digits => Value(Segments(s)[i]) <= U64Max

-----------------------------------------------------------------------------
(* Correctness                                                             *)

\* Ordinary versions compare segment by segment (format.rs: "Compare segment
\* (numeric or alpha)"), although compare_version_strings loses a character
\* behind every segment: here it is the separator.  (Where it is not, as in 1.0a
\* and 1.0b, versions that differ compare equal.)
OrdinaryVersionsCompare ==
    versions # <<>> /\ Ordinary(versions[1]) /\ Ordinary(versions[2]) =>
        Compare(versions[1], versions[2]) = ReferenceOrder(versions[1], versions[2])

\* Whatever the strings are, lost characters and overflowing numbers included,
\* Version::compare is a total preorder: one way round and the other agree, and
\* what is not greater goes on.  Upgrades cannot go round in circles.
VersionsArePreordered ==
    versions # <<>> =>
        LET cmp(i, j) == Compare(versions[i], versions[j])
        IN  /\ cmp(1, 2) = "Less" <=> cmp(2, 1) = "Greater"
            /\ cmp(1, 2) # "Greater" /\ cmp(2, 3) # "Greater" => cmp(1, 3) # "Greater"

\* Versions are compared consistently (format.rs:789).
VersionsAreOrdered == OrdinaryVersionsCompare /\ VersionsArePreordered
=============================================================================
