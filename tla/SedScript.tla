------------------------------ MODULE SedScript ------------------------------
(***************************************************************************)
(* The commands of sed (src/src/applets/text/sed.rs): what run_program     *)
(* makes of the lines, with pattern space, hold space, ranges and jumps.   *)
(*                                                                         *)
(* Scripts are parsed; a character is a number, NewLine is one of them.    *)
(* Of the regular expressions (module Regex) there are words and c*.       *)
(* Well-known scripts must compute what they are known for.                *)
(***************************************************************************)
EXTENDS Integers, Sequences, SequencesExt, FiniteSets, FiniteSetsExt, TLC

CONSTANTS Inputs        \* sequences of lines

VARIABLES
    idiom, lines,
    next,       \* how many lines were read
    ps, hold,   \* pattern space and hold space
    pc,         \* the command that comes; 0 between two cycles
    active,     \* the commands whose range is open
    tested,     \* tflag: a substitution since the cycle began or since `t'
    queue,      \* append_q: what `a' leaves for the end of the cycle
    ending,     \* "no", "quit": no further cycle, "done"
    out         \* the lines written

vars == <<idiom, lines, next, ps, hold, pc, active, tested, queue, ending, out>>

NewLine == 0
Amp == 99               \* & in a replacement
Number(n) == <<100 + n>>
Text == <<9>>   \* of a, i and c

-----------------------------------------------------------------------------
(* Scripts.                                                                *)

Line(n) == [is |-> "line", n |-> n]
LastLine == [is |-> "last"]
Has(word) == [is |-> "has", re |-> [of |-> word, star |-> FALSE]]
Cmd(c) == [cmd |-> c, a1 |-> <<>>, a2 |-> <<>>, negate |-> FALSE]
At(a, c) == [c EXCEPT !.a1 = <<a>>]
From(a, b, c) == [c EXCEPT !.a1 = <<a>>, !.a2 = <<b>>]
Not(c) == [c EXCEPT !.negate = TRUE]
\* b, t and { say where they lead: the label, or the closing brace.
To(c, target) == [target |-> target] @@ Cmd(c)
\* s: nth is the first match that is replaced, with `global' also those behind it.
\* Amp in `new' stands for the match.
S(word, star, new, nth, global) ==
    [re |-> [of |-> word, star |-> star], new |-> new, nth |-> nth, global |-> global,
     print |-> FALSE] @@ Cmd("s")
Every(word, new) == S(word, FALSE, new, 1, TRUE)
Swapped == 1 :> 2 @@ 2 :> 1     \* of y

Script(name) ==
    CASE name = "reverse" -> <<Not(At(Line(1), Cmd("G"))), Cmd("h"), Not(At(LastLine, Cmd("d")))>>
      [] name = "join" -> <<Cmd(":"), Cmd("N"), Not(At(LastLine, To("b", 1))),
                            Every(<<NewLine>>, <<3>>)>>
      [] name = "pairs" -> <<Cmd("N"), S(<<NewLine>>, FALSE, <<3>>, 1, FALSE)>>
      [] name = "odd" -> <<Cmd("n"), Cmd("d")>>
      [] name = "last two" -> <<Not(At(LastLine, To("{", 4))), Cmd("h"), Cmd("d"), Cmd("}"),
                                Cmd("x"), Cmd("G")>>
      [] name = "head" -> <<At(Line(2), To("{", 4)), Cmd("a"), Cmd("q"), Cmd("}")>>
      [] name = "frame" -> <<Cmd("a"), Cmd("i"), At(LastLine, Cmd("="))>>
      [] name = "cut out" -> <<From(Has(<<1>>), Has(<<2>>), Cmd("d"))>>
      [] name = "cut to" -> <<From(Line(0), Has(<<1>>), Cmd("d"))>>
      [] name = "cut numbered" -> <<From(Has(<<1>>), Line(2), Cmd("d"))>>
      [] name = "replace" -> <<From(Has(<<1>>), Has(<<2>>), Cmd("c"))>>
      [] name = "count" -> <<At(LastLine, Cmd("="))>>
      [] name = "all" -> <<Cmd(":"), S(<<1>>, FALSE, <<2>>, 1, FALSE), To("t", 1)>>
      [] name = "second" -> <<S(<<1>>, FALSE, <<Amp, 3, Amp>>, 2, FALSE)>>
      [] name = "even" -> <<Cmd("n"), Cmd("p")>>
      [] name = "changed" -> <<[S(<<1>>, FALSE, <<2>>, 1, FALSE) EXCEPT !.print = TRUE]>>
      [] name = "swap" -> <<Cmd("y"), Cmd("p")>>
      [] name = "gather" -> <<Cmd("H"), Not(At(LastLine, Cmd("d"))), Cmd("g"),
                              Every(<<NewLine>>, <<3>>)>>
      [] name = "runs" -> <<S(<<1>>, TRUE, <<3>>, 1, FALSE)>>
      [] name = "choose" -> <<Not(At(Has(<<1>>), To("{", 5))), S(<<2>>, FALSE, <<1>>, 1, FALSE),
                              To("t", 6), Cmd("d"), Cmd("}")>>

Idioms == {"reverse", "join", "pairs", "odd", "even", "last two", "head", "frame", "cut out",
           "cut to", "cut numbered", "replace", "count", "all", "second", "changed", "swap",
           "gather", "runs", "choose"}

script == Script(idiom)
autoprint == idiom \notin {"count", "changed", "even"}     \* sed -n
Total == Len(lines)
AtLast == next = Total

-----------------------------------------------------------------------------
(* substitute                                                              *)

\* The first and, from there, the longest match from position `from' on.
Fits(re, text, b, e) ==
    LET part == SubSeq(text, b, e - 1)
    IN  IF re.star THEN \A k \in DOMAIN part : part[k] = re.of[1] ELSE part = re.of
Search(re, text, from) ==
    LET found == {m \in (from..(Len(text) + 1)) \X (from..(Len(text) + 1)) :
                    m[1] <= m[2] /\ Fits(re, text, m[1], m[2])}
    IN  IF found = {} THEN <<>>
        ELSE CHOOSE m \in found : \A o \in found : m[1] < o[1] \/ (m[1] = o[1] /\ m[2] >= o[2])

Matches(re, text) == Search(re, text, 1) # <<>>

\* apply_repl
Replaced(new, match) ==
    FlattenSeq([k \in DOMAIN new |-> IF new[k] = Amp THEN match ELSE <<new[k]>>])

\* The text from `from' on, after `count' matches in front of it, and whether it changed.
RECURSIVE Substituted(_, _, _, _)
Substituted(c, text, from, count) ==
    LET m == Search(c.re, text, from)
        match == SubSeq(text, m[1], m[2] - 1)
        due == IF c.global THEN count + 1 >= c.nth ELSE count + 1 = c.nth
        \* Behind an empty match a character is passed over.
        empty == m[1] = m[2]
        on == IF empty THEN m[2] + 1 ELSE m[2]
        passed == IF empty /\ m[2] <= Len(text) THEN <<text[m[2]]>> ELSE <<>>
        rest == IF (empty /\ m[2] > Len(text)) \/ (~c.global /\ count + 1 >= c.nth)
                THEN <<SubSeq(text, on, Len(text)), FALSE>>
                ELSE Substituted(c, text, on, count + 1)
    IN  IF m = <<>> THEN <<SubSeq(text, from, Len(text)), FALSE>>
        ELSE <<SubSeq(text, from, m[1] - 1) \o (IF due THEN Replaced(c.new, match) ELSE match)
                 \o passed \o rest[1],
               due \/ rest[2]>>

-----------------------------------------------------------------------------
(* Addresses.                                                              *)

Meets(a, text) ==
    CASE a.is = "line" -> a.n = next
      [] a.is = "last" -> AtLast
      [] OTHER -> Matches(a.re, text)

\* compute_selection: whether the command is for this line, and whether its range
\* is open afterwards.
\* (mutant: a range that begins on its last line stays open)
Selection_Late(k) ==
    LET c == script[k]
        over == IF c.a2[1].is = "line" THEN next >= c.a2[1].n ELSE Meets(c.a2[1], ps)
    IN  CASE c.a1 = <<>> -> [on |-> TRUE, open |-> FALSE]
          [] c.a1 # <<>> /\ c.a2 = <<>> -> [on |-> Meets(c.a1[1], ps), open |-> FALSE]
          [] c.a2 # <<>> /\ k \in active -> [on |-> TRUE, open |-> ~over]
          [] OTHER -> [on |-> Meets(c.a1[1], ps), open |-> Meets(c.a1[1], ps)]

Selection(k) ==
    LET c == script[k]
        over == IF c.a2[1].is = "line" THEN next >= c.a2[1].n ELSE Meets(c.a2[1], ps)
        single == c.a2[1].is = "line" /\ c.a2[1].n <= next
    IN  CASE c.a1 = <<>> -> [on |-> TRUE, open |-> FALSE]
          [] c.a1 # <<>> /\ c.a2 = <<>> -> [on |-> Meets(c.a1[1], ps), open |-> FALSE]
          [] c.a2 # <<>> /\ k \in active -> [on |-> TRUE, open |-> ~over]
          [] OTHER -> [on |-> Meets(c.a1[1], ps), open |-> Meets(c.a1[1], ps) /\ ~single]

-----------------------------------------------------------------------------
(* Cycles.                                                                 *)

Init ==
    /\ idiom \in Idioms /\ lines \in Inputs
    /\ next = 0 /\ ps = <<>> /\ hold = <<>> /\ pc = 0 /\ tested = FALSE /\ queue = <<>>
    /\ ending = "no" /\ out = <<>>
    /\ active = {k \in DOMAIN script : script[k].a1 = <<Line(0)>> /\ script[k].a2 # <<>>}

NextCycle ==
    /\ pc = 0 /\ ending # "done"
    /\ IF AtLast \/ ending = "quit"
       THEN ending' = "done" /\ UNCHANGED <<next, ps, pc, tested>>
       ELSE /\ next' = next + 1 /\ ps' = lines[next + 1] /\ pc' = 1 /\ tested' = FALSE
            /\ UNCHANGED ending
    /\ UNCHANGED <<idiom, lines, hold, active, queue, out>>

\* The end of a cycle: what is left is written unless it was deleted, then the queue.
Over(deleted, quit, written) ==
    /\ pc' = 0 /\ queue' = <<>>
    /\ out' = out \o written \o (IF autoprint /\ ~deleted THEN <<ps>> ELSE <<>>) \o queue
    /\ ending' = IF quit THEN "quit" ELSE ending

\* The line after the last command ends the cycle.
EndOfScript ==
    /\ pc > Len(script)
    /\ Over(FALSE, FALSE, <<>>)
    /\ UNCHANGED <<idiom, lines, next, ps, hold, active, tested>>

Here(c) == pc \in 1..Len(script) /\ script[pc].cmd = c
Selected == Selection(pc).on # script[pc].negate
Ranges == active' = IF Selection(pc).open THEN active \cup {pc} ELSE active \ {pc}

\* A command that is not for this line; the block is passed over.
Skip ==
    /\ pc \in 1..Len(script) /\ ~Selected /\ Ranges
    /\ pc' = IF script[pc].cmd = "{" THEN script[pc].target ELSE pc + 1
    /\ UNCHANGED <<idiom, lines, next, ps, hold, tested, queue, ending, out>>

Do(c) == Here(c) /\ Selected /\ Ranges
On == pc' = pc + 1
Same == UNCHANGED <<idiom, lines>>

\* d, c, q and N without a line end the cycle.
Delete ==
    /\ Do("d") /\ Over(TRUE, FALSE, <<>>)
    /\ Same /\ UNCHANGED <<next, ps, hold, tested>>
Change ==
    /\ Do("c")
    /\ LET inMiddle == script[pc].a2 # <<>> /\ pc \in active'
       IN  Over(TRUE, FALSE, IF inMiddle THEN <<>> ELSE <<Text>>)
    /\ Same /\ UNCHANGED <<next, ps, hold, tested>>
Quit ==
    /\ Do("q") /\ Over(FALSE, TRUE, <<>>)
    /\ Same /\ UNCHANGED <<next, ps, hold, tested>>

Printed == IF autoprint THEN <<ps>> ELSE <<>>

\* n: the next line; without one sed quits, what it has being written already.
ReadNext ==
    /\ Do("n")
    /\ IF AtLast
       THEN Over(TRUE, TRUE, Printed) /\ UNCHANGED <<next, ps>>
       ELSE /\ On /\ out' = out \o Printed /\ next' = next + 1 /\ ps' = lines[next + 1]
            /\ UNCHANGED <<queue, ending>>
    /\ Same /\ UNCHANGED <<hold, tested>>
ReadMore ==
    /\ Do("N")
    /\ IF AtLast
       THEN Over(FALSE, TRUE, <<>>) /\ UNCHANGED <<next, ps>>
       ELSE /\ On /\ next' = next + 1 /\ ps' = ps \o <<NewLine>> \o lines[next + 1]
            /\ UNCHANGED <<queue, ending, out>>
    /\ Same /\ UNCHANGED <<hold, tested>>

Substitute ==
    /\ Do("s") /\ On
    /\ LET new == Substituted(script[pc], ps, 1, 0)
       IN  /\ ps' = (IF new[2] THEN new[1] ELSE ps) /\ tested' = (tested \/ new[2])
           /\ out' = IF new[2] /\ script[pc].print THEN Append(out, new[1]) ELSE out
    /\ Same /\ UNCHANGED <<next, hold, queue, ending>>

Transliterate ==
    /\ Do("y") /\ On
    /\ ps' = [k \in DOMAIN ps |-> IF ps[k] \in DOMAIN Swapped THEN Swapped[ps[k]] ELSE ps[k]]
    /\ Same /\ UNCHANGED <<next, hold, tested, queue, ending, out>>

\* b and t; t forgets that there was a substitution.
Jumps == script[pc].cmd = "b" \/ tested
Jump ==
    /\ (Do("b") \/ Do("t"))
    /\ pc' = IF Jumps THEN script[pc].target ELSE pc + 1
    /\ tested' = (tested /\ script[pc].cmd = "b")
    /\ Same /\ UNCHANGED <<next, ps, hold, queue, ending, out>>

Hold ==
    /\ \E c \in {"g", "G", "h", "H", "x"} :
         /\ Do(c)
         /\ ps' = CASE c \in {"g", "x"} -> hold
                    [] c = "G" -> ps \o <<NewLine>> \o hold
                    [] OTHER -> ps
         /\ hold' = CASE c \in {"h", "x"} -> ps
                      [] c = "H" -> hold \o <<NewLine>> \o ps
                      [] OTHER -> hold
    /\ On /\ Same /\ UNCHANGED <<next, tested, queue, ending, out>>

Write ==
    /\ \E c \in {"a", "i", "=", "p"} :
         /\ Do(c)
         /\ queue' = IF c = "a" THEN Append(queue, Text) ELSE queue
         /\ out' = CASE c = "i" -> Append(out, Text)
                     [] c = "=" -> Append(out, Number(next))
                     [] c = "p" -> Append(out, ps)
                     [] OTHER -> out
    /\ On /\ Same /\ UNCHANGED <<next, ps, hold, tested, ending>>

\* Labels and braces.
Mark ==
    /\ (Do(":") \/ Do("{") \/ Do("}")) /\ On
    /\ Same /\ UNCHANGED <<next, ps, hold, tested, queue, ending, out>>

Next ==
    \/ NextCycle \/ EndOfScript \/ Skip \/ Delete \/ Change \/ Quit \/ ReadNext \/ ReadMore
    \/ Substitute \/ Transliterate \/ Jump \/ Hold \/ Write \/ Mark
Spec == Init /\ [][Next]_vars

-----------------------------------------------------------------------------
(* What the scripts are for.                                               *)

Keep(chosen(_)) == LET at == SetToSortSeq({k \in 1..Total : chosen(k)}, LAMBDA x, y : x < y)
                   IN  [n \in DOMAIN at |-> lines[at[n]]]
Joined(ls, by) == FlattenSeq([k \in DOMAIN ls |-> IF k = 1 THEN ls[1] ELSE <<by>> \o ls[k]])
MapLines(f(_)) == [k \in 1..Total |-> f(lines[k])]
Places(l, c) == {k \in DOMAIN l : l[k] = c}

\* The stretches from a line with 1 to the next one with 2, or to the end.
RECURSIVE Stretches(_)
Stretches(from) ==
    LET begins == {k \in from..Total : Contains(lines[k], 1)}
        ends == {k \in (Min(begins) + 1)..Total : Contains(lines[k], 2)}
        end == IF ends = {} THEN Total + 1 ELSE Min(ends)
    IN  IF begins = {} THEN {} ELSE {<<Min(begins), end>>} \cup Stretches(end + 1)
Within(k) == \E s \in Stretches(1) : k \in s[1]..s[2]
ClosedAt(k) == \E s \in Stretches(1) : k = s[2]

Expected ==
    CASE idiom = "reverse" -> <<Joined(Reverse(lines), NewLine)>>
      [] idiom = "join" -> <<Joined(lines, 3)>>
      [] idiom = "pairs" -> [n \in 1..((Total + 1) \div 2) |->
             IF 2 * n > Total THEN lines[Total] ELSE Joined(SubSeq(lines, 2 * n - 1, 2 * n), 3)]
      [] idiom = "odd" -> Keep(LAMBDA k : k % 2 = 1)
      [] idiom = "last two" -> 
             <<(IF Total > 1 THEN lines[Total - 1] ELSE <<>>) \o <<NewLine>> \o lines[Total]>>
      [] idiom = "head" -> IF Total < 2 THEN lines ELSE <<lines[1], lines[2], Text>>
      [] idiom = "frame" -> FlattenSeq([k \in 1..Total |->
             <<Text>> \o (IF k = Total THEN <<Number(k)>> ELSE <<>>) \o <<lines[k], Text>>])
      [] idiom = "cut to" -> Keep(LAMBDA k : \E j \in 1..(k - 1) : Contains(lines[j], 1))
      [] idiom = "all" -> MapLines(LAMBDA l : [k \in DOMAIN l |-> IF l[k] = 1 THEN 2 ELSE l[k]])
      [] idiom = "second" -> MapLines(LAMBDA l :
             LET twice(k) == l[k] = 1 /\ Cardinality({j \in Places(l, 1) : j <= k}) = 2
             IN  FlattenSeq([k \in DOMAIN l |-> IF twice(k) THEN <<1, 3, 1>> ELSE <<l[k]>>]))
      [] idiom = "cut out" -> Keep(LAMBDA k : ~Within(k))
      [] idiom = "cut numbered" ->
             Keep(LAMBDA k : ~Contains(lines[k], 1) /\ ~(k = 2 /\ Contains(lines[1], 1)))
      [] idiom = "replace" -> FlattenSeq([k \in 1..Total |->
             IF ClosedAt(k) THEN <<Text>> ELSE IF Within(k) THEN <<>> ELSE <<lines[k]>>])
      [] idiom = "even" -> Keep(LAMBDA k : k % 2 = 0)
      [] idiom = "changed" -> FlattenSeq([k \in 1..Total |->
             LET l == lines[k]
             IN  IF Contains(l, 1) THEN <<[l EXCEPT ![Min(Places(l, 1))] = 2]>> ELSE <<>>])
      [] idiom = "swap" -> FlattenSeq([k \in 1..Total |->
             LET l == [n \in DOMAIN lines[k] |-> CASE lines[k][n] = 1 -> 2 [] lines[k][n] = 2 -> 1
                                                    [] OTHER -> lines[k][n]]
             IN  <<l, l>>])
      [] idiom = "gather" -> <<FlattenSeq([k \in 1..Total |-> <<3>> \o lines[k]])>>
      [] idiom = "count" -> <<Number(Total)>>
      [] idiom = "runs" -> MapLines(LAMBDA l :
             LET end == Max({k \in 0..Len(l) : \A j \in 1..k : l[j] = 1})
             IN  <<3>> \o SubSeq(l, end + 1, Len(l)))
      [] idiom = "choose" -> FlattenSeq([k \in 1..Total |->
             LET l == lines[k]
             IN  CASE Contains(l, 1) -> <<l>>
                   [] ~Contains(l, 1) /\ Contains(l, 2) -> <<[l EXCEPT ![Min(Places(l, 2))] = 1]>>
                   [] OTHER -> <<>>])

\* The scripts write what they are known to write, for every input (sed.rs:3, "POSIX.1-2017
\* compliant").  None queues text and then reads a line, or has empty matches behind others.
IdiomsWork == ending = "done" => out = IF lines = <<>> THEN <<>> ELSE Expected

=============================================================================
