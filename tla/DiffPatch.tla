------------------------------ MODULE DiffPatch ------------------------------
(***************************************************************************)
(* diff and patch (src/src/applets/misc/diff.rs, file/patch.rs).           *)
(*                                                                         *)
(* diff fills a table of common subsequences and traces back through it,   *)
(* a line at a time.  patch applies hunks one after the other to a file    *)
(* that may have got further lines since, or blanks in its lines; it looks *)
(* for the place of each near the expected one.  The unified diff that it  *)
(* reads comes from elsewhere: diff writes the normal format only.         *)
(***************************************************************************)
EXTENDS Integers, Sequences, SequencesExt, FiniteSets

CONSTANTS Files,      \* sequences of lines
          Empty,      \* the line without a byte
          Strange,    \* a line of no file: what was put in front since
          Shifts,     \* how many of those
          Indented(_),\* the line with blanks in front
          Trimmed(_), \* the line without blanks at its ends
          Contexts    \* lines of context in a unified diff

VARIABLES
  a, b,       \* lines1, lines2
  i, j,
  changes,    \* from the end: [op |-> -1 | 0 | 1, line]
  shift, context, reverse,  \* how patch will be called
  indented,   \* whether the lines got blanks since
  phase,      \* "trace", "patch", "done"
  hunks,      \* still to be applied: [oldStart, oldCount, newStart, newCount, lines]
  lines, offset, failedHunks
vars == <<a, b, i, j, changes, shift, context, reverse, indented, phase, hunks, lines, offset, failedHunks>>

Init ==
    /\ a \in Files /\ b \in Files /\ i = Len(a) /\ j = Len(b) /\ changes = <<>>
    /\ shift = 0 /\ context = 0 /\ reverse = FALSE /\ indented = FALSE
    /\ phase = "trace" /\ hunks = <<>> /\ lines = <<>> /\ offset = 0 /\ failedHunks = 0

-----------------------------------------------------------------------------
(* diff                                                                    *)

Larger(m, n) == IF m >= n THEN m ELSE n
\* lcs[k][l]: the most that the first k lines and the first l have in common.
Lcs == LET lcs[k \in 0..Len(a), l \in 0..Len(b)] ==
             IF k = 0 \/ l = 0 THEN 0
             ELSE IF a[k] = b[l] THEN lcs[k - 1, l - 1] + 1
             ELSE Larger(lcs[k - 1, l], lcs[k, l - 1])
       IN  lcs

TakesAddition == j > 0 /\ (i > 0 => Lcs[i, j - 1] >= Lcs[i - 1, j])

Found(op, line, k, l) ==
    /\ changes' = <<[op |-> op, line |-> line]>> \o changes /\ i' = k /\ j' = l
    /\ UNCHANGED <<a, b, shift, context, reverse, indented, phase, hunks, lines, offset, failedHunks>>
Matches == i > 0 /\ j > 0 /\ a[i] = b[j]
Match == phase = "trace" /\ Matches /\ Found(0, a[i], i - 1, j - 1)
Addition == phase = "trace" /\ ~Matches /\ TakesAddition /\ Found(1, b[j], i, j - 1)
Deletion == phase = "trace" /\ ~Matches /\ ~TakesAddition /\ i > 0 /\ Found(-1, a[i], i - 1, j)

\* The maximal stretches of positions with P: pairs of the first and the last.
Stretches(in) == {<<p, q>> \in in \X in :
                    p <= q /\ p..q \subseteq in /\ p - 1 \notin in /\ q + 1 \notin in}
InOrder(stretches) == SetToSortSeq(stretches, LAMBDA s, t : s[1] < t[1])
Count(seq, ops) == Cardinality({p \in DOMAIN seq : seq[p].op \in ops})

\* What diff prints of a stretch of changes: ranges of lines; that of an
\* addition or a deletion alone has the other place as 1, whatever it is.
Printed(s) ==
    LET before == SubSeq(changes, 1, s[1] - 1)
        part == SubSeq(changes, s[1], s[2])
        Ranges(ops) == [first |-> Count(before, ops \cup {0}) + 1,
                        count |-> Count(part, ops)]
        del == Ranges({-1})  add == Ranges({1})
    IN  [del |-> IF del.count = 0 THEN [del EXCEPT !.first = 1] ELSE del,
         add |-> IF add.count = 0 THEN [add EXCEPT !.first = 1] ELSE add,
         out |-> SelectSeq(part, LAMBDA c : c.op = -1), in |-> SelectSeq(part, LAMBDA c : c.op = 1)]
Script == LET ss == InOrder(Stretches({p \in DOMAIN changes : changes[p].op # 0}))
          IN  [n \in DOMAIN ss |-> Printed(ss[n])]

-----------------------------------------------------------------------------
(* patch                                                                   *)

\* A unified diff with so many lines of context.
Unified(c) ==
    LET near == {p \in DOMAIN changes : \E q \in DOMAIN changes :
                   changes[q].op # 0 /\ q - c <= p /\ p <= q + c}
        ss == InOrder(Stretches(near))
        HunkOf(s) ==
            LET before == SubSeq(changes, 1, s[1] - 1)
                part == SubSeq(changes, s[1], s[2])
                Start(ops) == Count(before, ops) + IF Count(part, ops) = 0 THEN 0 ELSE 1
            IN  [oldStart |-> Start({0, -1}), oldCount |-> Count(part, {0, -1}),
                 newStart |-> Start({0, 1}), newCount |-> Count(part, {0, 1}), lines |-> part]
    IN  [n \in DOMAIN ss |-> HunkOf(ss[n])]

ReverseHunk(h) ==
    [oldStart |-> h.newStart, oldCount |-> h.newCount, newStart |-> h.oldStart,
     newCount |-> h.oldCount,
     lines |-> [n \in DOMAIN h.lines |-> [h.lines[n] EXCEPT !.op = -@]]]

\* An empty file is one empty line, and an empty last line is not written.
AsLines(file) == IF file = <<>> THEN <<Empty>> ELSE file
AsFile(ls) == IF ls # <<>> /\ Last(ls) = Empty THEN Front(ls) ELSE ls

Input(n, r, blanks) ==
    LET file == IF r THEN b ELSE a
    IN  [k \in 1..n |-> Strange] \o [k \in DOMAIN file |-> IF blanks THEN Indented(file[k]) ELSE file[k]]
Traced ==
    /\ phase = "trace" /\ i = 0 /\ j = 0 /\ phase' = "patch"
    /\ shift' \in Shifts /\ context' \in Contexts /\ reverse' \in BOOLEAN
    /\ indented' \in {FALSE, context' = 1}
    /\ hunks' = Unified(context') /\ lines' = AsLines(Input(shift', reverse', indented'))
    /\ UNCHANGED <<a, b, i, j, changes, offset, failedHunks>>

\* (mutant: the last line is not compared)
VerifyContext_Short(at, h) ==
    LET old == SelectSeq(h.lines, LAMBDA l : l.op # 1)
    IN  /\ at + Len(old) <= Len(lines)
        /\ \A n \in 1..Len(old) - 1 : Trimmed(lines[at + n]) = Trimmed(old[n].line)

\* The lines of context and those to be removed are there, from position at, whatever
\* blanks are at their ends.
VerifyContext(at, h) ==
    LET old == SelectSeq(h.lines, LAMBDA l : l.op # 1)
    IN  \A n \in DOMAIN old :
            at + n <= Len(lines) /\ Trimmed(lines[at + n]) = Trimmed(old[n].line)

\* Where it is looked for, in this order.
Distances == <<0, 1, -1, 2, -2, 3, -3, 4, -4, 6, -6, 9, -9>>

Target(h) == IF h.oldStart = 0 THEN 0 ELSE h.oldStart - 1 + offset
\* The positions in the file where the hunk fits, in the order of the search.
Places(h) == SelectSeq([n \in DOMAIN Distances |-> Target(h) + Distances[n]],
                       LAMBDA p : p \in 0..Len(lines) - 1 /\ VerifyContext(p, h))

Moved(h) == offset + Count(h.lines, {1}) - Count(h.lines, {-1})

LinesOf(seq) == [n \in DOMAIN seq |-> seq[n].line]
\* What stands there afterwards: lines of context remain as the file has them.
Patched(h, at) ==
    FlattenSeq([n \in DOMAIN h.lines |->
        CASE h.lines[n].op = 1 -> <<h.lines[n].line>>
          [] h.lines[n].op = 0 -> <<lines[at + Count(SubSeq(h.lines, 1, n), {0, -1})]>>
          [] OTHER -> <<>>])
\* A hunk without old lines is not looked for: its lines are inserted.
Insert(h) ==
    /\ h.oldCount = 0
    /\ lines' = SubSeq(lines, 1, Target(h)) \o LinesOf(h.lines) \o SubSeq(lines, Target(h) + 1, Len(lines))
    /\ offset' = offset + h.newCount /\ UNCHANGED failedHunks
Replace(h) ==
    /\ h.oldCount > 0 /\ Places(h) # <<>>
    /\ lines' = SubSeq(lines, 1, Head(Places(h))) \o Patched(h, Head(Places(h)))
                \o SubSeq(lines, Head(Places(h)) + h.oldCount + 1, Len(lines))
    /\ offset' = Moved(h) /\ UNCHANGED failedHunks
Fails(h) ==
    /\ h.oldCount > 0 /\ Places(h) = <<>>
    /\ failedHunks' = failedHunks + 1 /\ UNCHANGED <<lines, offset>>

ApplyHunk ==
    /\ phase = "patch" /\ hunks # <<>> /\ hunks' = Tail(hunks)
    /\ LET h == IF reverse THEN ReverseHunk(Head(hunks)) ELSE Head(hunks)
       IN  Insert(h) \/ Replace(h) \/ Fails(h)
    /\ UNCHANGED <<a, b, i, j, changes, shift, context, reverse, indented, phase>>

Finish ==
    /\ phase = "patch" /\ hunks = <<>> /\ phase' = "done"
    /\ UNCHANGED <<a, b, i, j, changes, shift, context, reverse, indented, hunks, lines, offset, failedHunks>>

Next == Match \/ Addition \/ Deletion \/ Traced \/ ApplyHunk \/ Finish
Spec == Init /\ [][Next]_vars

-----------------------------------------------------------------------------
(* Properties                                                              *)

\* What diff prints leads from the first file to the second, in the order of
\* its hunks, where a line stands in the second when it is only added.
Rebuilt ==
    LET Follow(part, h) ==  \* part: the second file so far, and how much of the first is used
            LET upTo == IF h.del.count > 0 THEN h.del.first - 1
                        ELSE part.used + h.add.first - 1 - Len(part.made)
            IN  [made |-> part.made \o SubSeq(a, part.used + 1, upTo) \o LinesOf(h.in),
                 used |-> upTo + h.del.count]
        end == FoldLeft(Follow, [made |-> <<>>, used |-> 0], Script)
    IN  end.made \o SubSeq(a, end.used + 1, Len(a))
Traces == phase = "trace" /\ i = 0 /\ j = 0
ScriptIsRight ==
    Traces =>
        /\ Rebuilt = b
        /\ \A n \in DOMAIN Script : LET h == Script[n] IN
              h.del.count > 0 => LinesOf(h.out) = SubSeq(a, h.del.first, h.del.first + h.del.count - 1)

\* No script is shorter: the files have no more lines in common, in their order,
\* than are kept.
Pick(file, k) ==
    {LET kept == SelectSeq([n \in DOMAIN file |-> n], LAMBDA n : n \in s)
     IN  [n \in 1..k |-> file[kept[n]]] : s \in {t \in SUBSET DOMAIN file : Cardinality(t) = k}}
ScriptIsShortest ==
    Traces => LET more == Count(changes, {0}) + 1 IN Pick(a, more) \cap Pick(b, more) = {}

\* patch makes the second file of the first, and with -R the first of the
\* second, hunk after hunk at the right place among like lines.  Not so for
\* files that end in an empty line: it is lost in writing.
Ordinary(file) == file # <<>> => Last(file) # Empty
PatchIsTheEdit ==
    phase = "done" /\ shift = 0 /\ ~indented /\ Ordinary(a) /\ Ordinary(b) =>
        failedHunks = 0 /\ AsFile(lines) = (IF reverse THEN a ELSE b)

\* It does so also when up to four lines came in front, if no two lines are alike, and
\* when blanks came in front of the lines: what it leaves keeps them.
Distinct(file) == Cardinality({Trimmed(line) : line \in ToSet(file)}) = Len(file)
Meant ==
    LET side == SelectSeq(changes, LAMBDA c : c.op # (IF reverse THEN 1 ELSE -1))
    IN  [n \in DOMAIN side |-> IF side[n].op = 0 /\ indented THEN Indented(side[n].line)
                              ELSE side[n].line]
PatchFindsItsPlace ==
    /\ phase = "done" /\ shift \in 0..4
    /\ a # <<>> /\ b # <<>> /\ Distinct(a) /\ Distinct(b) /\ Ordinary(a) /\ Ordinary(b)
    => failedHunks = 0 /\ AsFile(lines) = [n \in 1..shift |-> Strange] \o Meant
=============================================================================
