-------------------------------- MODULE Regex --------------------------------
(***************************************************************************)
(* The regular expressions of grep and sed (src/src/applets/regex.rs).     *)
(*                                                                         *)
(* A pattern is parsed and compiled to a program; a machine runs all its   *)
(* threads over the text at once, a position at a step, in the order in    *)
(* which a backtracking matcher would try them, each program counter once. *)
(* Bytes are numbers; jumps are relative here, and positions from 0.       *)
(***************************************************************************)
EXTENDS Integers, Sequences, SequencesExt, FiniteSets, TLC

CONSTANTS Patterns,   \* syntax trees that a pattern can stand for
          Texts,      \* sequences of bytes
          WordBytes,  \* is_word
          Froms       \* where a search begins

VARIABLES
  ast, prog, text, from,
  mode,      \* "search", "-x", "-w"
  pos,
  threads,   \* clist: [pc, saves], by priority; saves: the slots set so far
  seen,      \* program counters in threads
  matched,   \* slots of the best match, or <<>>
  phase      \* "run", "done"
vars == <<ast, prog, text, from, mode, pos, threads, seen, matched, phase>>

Unset == -1
Node(op, arg, of) == [op |-> op, arg |-> arg, of |-> of]
Token(t, arg) == [t |-> t, arg |-> arg]
Of1(a) == a.of[1]

-----------------------------------------------------------------------------
(* The parser: from tokens, whichever of the two syntaxes they come in.  A  *)
(* result is a tree, the next token and how many groups there were.         *)

RECURSIVE Branches(_, _, _, _), Items(_, _, _, _, _), Quantified(_, _, _)

IsAt(toks, p, kinds) == p <= Len(toks) /\ toks[p].t \in kinds
BranchEnds(toks, p) == p > Len(toks) \/ IsAt(toks, p, {"|", ")"})
Joined(items) == IF items = <<>> THEN Node("empty", <<>>, <<>>)
                 ELSE IF Len(items) = 1 THEN items[1] ELSE Node("cat", <<>>, items)
Alternatives(asts) == IF Len(asts) = 1 THEN asts[1] ELSE Node("alt", <<>>, asts)

\* alt
Branches(toks, p, gc, ere) ==
    LET b == Items(toks, p, gc, <<>>, ere)
    IN  IF ~IsAt(toks, b.next, {"|"}) THEN [asts |-> <<b.ast>>, next |-> b.next, gc |-> b.gc]
        ELSE LET r == Branches(toks, b.next + 1, b.gc, ere)
             IN  [r EXCEPT !.asts = <<b.ast>> \o @]

DollarIsAnchor(toks, p, ere) == ere \/ BranchEnds(toks, p + 1)

\* atom
Atom(toks, p, gc, ere) ==
    CASE toks[p].t = "(" ->
           LET inner == Branches(toks, p + 1, gc + 1, ere)
           IN  [ast |-> Node("group", <<gc + 1>>, <<Alternatives(inner.asts)>>),
                next |-> inner.next + 1, gc |-> inner.gc]
      [] toks[p].t = "." -> [ast |-> Node("any", <<>>, <<>>), next |-> p + 1, gc |-> gc]
      [] OTHER -> [ast |-> Node("lit", toks[p].arg, <<>>), next |-> p + 1, gc |-> gc]

\* quant: any number of them
Quantified(toks, p, a) ==
    IF ~IsAt(toks, p, {"star", "plus", "quest", "repeat"}) THEN [ast |-> a, next |-> p]
    ELSE Quantified(toks, p + 1, Node(toks[p].t, toks[p].arg, <<a>>))

\* concat
Items(toks, p, gc, items, ere) ==
    CASE BranchEnds(toks, p) -> [ast |-> Joined(items), next |-> p, gc |-> gc]
      [] IsAt(toks, p, {"^"}) /\ (ere \/ items = <<>>) ->
           Items(toks, p + 1, gc, Append(items, Node("start", <<>>, <<>>)), ere)
      [] IsAt(toks, p, {"$"}) /\ DollarIsAnchor(toks, p, ere) ->
           Items(toks, p + 1, gc, Append(items, Node("end", <<>>, <<>>)), ere)
      [] OTHER -> LET a == Atom(toks, p, gc, ere)
                      q == Quantified(toks, a.next, a.ast)
                  IN  Items(toks, q.next, a.gc, Append(items, q.ast), ere)

Parse(toks, ere) == Alternatives(Branches(toks, 1, 0, ere).asts)

-----------------------------------------------------------------------------
(* The compiler                                                            *)

Inst(op, x, y) == [op |-> op, x |-> x, y |-> y]
Times(n, code) == FlattenSeq([k \in 1..n |-> code])

RECURSIVE Emit(_), EmitAlt(_)
EmitAlt(branches) ==
    LET first == Emit(branches[1])
    IN  IF Len(branches) = 1 THEN first
        ELSE LET rest == EmitAlt(Tail(branches))
             IN  <<Inst("split", 1, Len(first) + 2)>> \o first \o <<Inst("jmp", Len(rest) + 1, 0)>> \o rest

EmitStar(x) == <<Inst("split", 1, Len(x) + 2)>> \o x \o <<Inst("jmp", -(Len(x) + 1), 0)>>
EmitQuest(x) == <<Inst("split", 1, Len(x) + 1)>> \o x
\* (mutant: out first)
EmitPlus_Lazy(x) == x \o <<Inst("split", 1, -Len(x))>>

EmitPlus(x) == x \o <<Inst("split", -Len(x), 1)>>

Emit(a) ==
    CASE a.op = "empty" -> <<>>
      [] a.op = "lit" -> <<Inst("char", a.arg[1], 0)>>
      [] a.op \in {"any", "start", "end"} -> <<Inst(a.op, 0, 0)>>
      [] a.op = "cat" -> FlattenSeq([k \in DOMAIN a.of |-> Emit(a.of[k])])
      [] a.op = "alt" -> EmitAlt(a.of)
      [] a.op = "group" ->
           <<Inst("save", 2 * a.arg[1], 0)>> \o Emit(Of1(a)) \o <<Inst("save", 2 * a.arg[1] + 1, 0)>>
      [] a.op = "star" -> EmitStar(Emit(Of1(a)))
      [] a.op = "plus" -> EmitPlus(Emit(Of1(a)))
      [] a.op = "quest" -> EmitQuest(Emit(Of1(a)))
      [] a.op = "repeat" ->
           LET x == Emit(Of1(a))
           IN  Times(a.arg[1], x) \o (IF a.arg[2] = Unset THEN EmitStar(x)
                                      ELSE Times(a.arg[2] - a.arg[1], EmitQuest(x)))

Compile(a) == <<Inst("save", 0, 0)>> \o Emit(a) \o <<Inst("save", 1, 0), Inst("match", 0, 0)>>

-----------------------------------------------------------------------------
(* The machine                                                             *)

Init ==
    /\ ast \in Patterns /\ prog = Compile(ast) /\ text \in Texts
    /\ mode \in {"search", "-x", "-w"} /\ from \in Froms /\ from <= Len(text) /\ (mode # "search" => from = 0)
    /\ pos = from /\ threads = <<>> /\ seen = {} /\ matched = <<>> /\ phase = "run"

\* add_thread, from a stack: the threads that pc leads to without a byte.
RECURSIVE AddThread(_, _, _)
AddThread(into, stack, p) ==
    IF stack = <<>> THEN into
    ELSE LET top == Head(stack)
             now == [into EXCEPT !.seen = @ \cup {top.pc}]
             To(d) == [top EXCEPT !.pc = @ + d]
             inst == prog[top.pc]
         IN  IF top.pc \in into.seen THEN AddThread(into, Tail(stack), p)
             ELSE CASE inst.op = "jmp" -> AddThread(now, <<To(inst.x)>> \o Tail(stack), p)
                    [] inst.op = "split" ->
                         AddThread(now, <<To(inst.x), To(inst.y)>> \o Tail(stack), p)
                    [] inst.op = "save" ->
                         AddThread(now, <<[To(1) EXCEPT !.saves = (inst.x :> p) @@ top.saves]>> \o Tail(stack), p)
                    [] inst.op \in {"start", "end"} ->
                         AddThread(now, (IF p = (IF inst.op = "start" THEN 0 ELSE Len(text))
                                         THEN <<To(1)>> ELSE <<>>) \o Tail(stack), p)
                    [] OTHER -> AddThread([now EXCEPT !.list = Append(@, top)], Tail(stack), p)

\* accept, for a match from..to
Accept(s, e) ==
    /\ mode = "-x" => s = 0 /\ e = Len(text)
    /\ mode = "-w" => /\ s > 0 => text[s] \notin WordBytes
                      /\ e < Len(text) => text[e + 1] \notin WordBytes

Consumes(inst) == \/ inst.op = "char" /\ pos < Len(text) /\ text[pos + 1] = inst.x
                  \/ inst.op = "any" /\ pos < Len(text)

\* One thread at this position.
Advance(acc, th) ==
    IF acc.cut THEN acc
    ELSE IF Consumes(prog[th.pc])
    THEN [acc EXCEPT !.next = AddThread(acc.next, <<[th EXCEPT !.pc = @ + 1]>>, pos + 1)]
    ELSE IF prog[th.pc].op = "match" /\ Accept(th.saves[0], pos)
    THEN [acc EXCEPT !.best = th.saves, !.cut = TRUE]
    ELSE acc

Anchored == mode = "-x"
Seeded ==
    IF matched = <<>> /\ (Anchored => pos = from)
    THEN AddThread([list |-> threads, seen |-> seen], <<[pc |-> 1, saves |-> <<>>]>>, pos)
    ELSE [list |-> threads, seen |-> seen]

\* exec, a position at a step
Step ==
    /\ phase = "run"
    /\ LET all == Seeded.list
           run == FoldLeft(Advance, [next |-> [list |-> <<>>, seen |-> {}], best |-> matched, cut |-> FALSE], all)
           over == all = <<>> /\ (matched # <<>> \/ Anchored)
       IN  /\ matched' = IF over THEN matched ELSE run.best
           /\ IF over \/ pos >= Len(text)
              THEN phase' = "done" /\ UNCHANGED <<pos, threads, seen>>
              ELSE pos' = pos + 1 /\ threads' = run.next.list /\ seen' = run.next.seen /\ UNCHANGED phase
    /\ UNCHANGED <<ast, prog, text, from, mode>>

Next == Step
Spec == Init /\ [][Next]_vars

-----------------------------------------------------------------------------
(* Properties                                                              *)

\* How a tree is written.
RECURSIVE Written(_)
Between(toks, seqs) ==
    FoldLeft(LAMBDA acc, s : IF acc = <<>> THEN <<s>> ELSE Append(Append(acc, toks), s), <<>>, seqs)
Written(a) ==
    CASE a.op = "empty" -> <<>>
      [] a.op = "lit" -> <<Token("lit", a.arg)>>
      [] a.op = "any" -> <<Token(".", <<>>)>>
      [] a.op = "start" -> <<Token("^", <<>>)>>
      [] a.op = "end" -> <<Token("$", <<>>)>>
      [] a.op = "cat" -> FlattenSeq([k \in DOMAIN a.of |-> Written(a.of[k])])
      [] a.op = "alt" ->
           FlattenSeq(Between(<<Token("|", <<>>)>>, [k \in DOMAIN a.of |-> Written(a.of[k])]))
      [] a.op = "group" -> <<Token("(", <<>>)>> \o Written(Of1(a)) \o <<Token(")", <<>>)>>
      [] OTHER -> Written(Of1(a)) \o <<Token(a.op, a.arg)>>

\* The parser reads what was written, in both syntaxes: |, concatenation and
\* repetition bind in this order, and anchors are told from bytes.
ParsesAsWritten == pos = from => \A ere \in BOOLEAN : Parse(Written(ast), ere) = ast

\* What a backtracking matcher finds from position p: ends and groups, in the
\* order it finds them.  A loop does not go on after an empty round.
RECURSIVE Finds(_, _), Loop(_, _), FindsAll(_, _)
FindsAll(as, st) ==
    IF as = <<>> THEN <<st>>
    ELSE FlattenSeq(LET f == Finds(Head(as), st) IN [k \in DOMAIN f |-> FindsAll(Tail(as), f[k])])
Loop(a, st) ==
    LET f == SelectSeq(Finds(a, st), LAMBDA x : x.at > st.at)
    IN  FlattenSeq([k \in DOMAIN f |-> Loop(a, f[k])]) \o <<st>>
Finds(a, st) ==
    CASE a.op = "empty" -> <<st>>
      [] a.op \in {"lit", "any"} ->
           IF st.at < Len(text) /\ (a.op = "any" \/ text[st.at + 1] = a.arg[1])
           THEN <<[st EXCEPT !.at = @ + 1]>> ELSE <<>>
      [] a.op = "start" -> IF st.at = 0 THEN <<st>> ELSE <<>>
      [] a.op = "end" -> IF st.at = Len(text) THEN <<st>> ELSE <<>>
      [] a.op = "cat" -> FindsAll(a.of, st)
      [] a.op = "alt" -> FlattenSeq([k \in DOMAIN a.of |-> Finds(a.of[k], st)])
      [] a.op = "group" ->
           LET f == Finds(Of1(a), [st EXCEPT !.saves = (2 * a.arg[1] :> st.at) @@ @])
           IN  [k \in DOMAIN f |-> [f[k] EXCEPT !.saves = (2 * a.arg[1] + 1 :> f[k].at) @@ @]]
      [] a.op = "star" -> Loop(Of1(a), st)
      [] a.op = "plus" ->
           LET f == Finds(Of1(a), st)
           IN  FlattenSeq([k \in DOMAIN f |-> IF f[k].at = st.at THEN <<f[k]>> ELSE Loop(Of1(a), f[k])])
      [] a.op = "quest" -> Finds(Of1(a), st) \o <<st>>
      [] a.op = "repeat" ->
           FindsAll([k \in 1..a.arg[1] |-> Of1(a)]
                    \o (IF a.arg[2] = Unset THEN <<Node("star", <<>>, a.of)>>
                        ELSE [k \in 1..a.arg[2] - a.arg[1] |-> Node("quest", <<>>, a.of)]), st)
FindsFrom(s) == Finds(ast, [at |-> s, saves |-> 0 :> s])

\* "reproduces the exact leftmost-greedy submatch results of a classic
\* backtracker" (regex.rs:16): the span and every group, from the first position
\* that has a match.
Backtracked ==
    LET starts == {s \in from..Len(text) : FindsFrom(s) # <<>>}
    IN  IF starts = {} THEN <<>>
        ELSE LET first == Head(FindsFrom(CHOOSE s \in starts : \A t \in starts : s <= t))
             IN  (1 :> first.at) @@ first.saves
SearchIsBacktracking == phase = "done" /\ mode = "search" => matched = Backtracked

\* grep -x: whether the whole line can be matched in any way.
WholeLineIsExact ==
    phase = "done" /\ mode = "-x" =>
        ((matched # <<>>) <=> \E k \in DOMAIN FindsFrom(0) : FindsFrom(0)[k].at = Len(text))

\* grep -w: what is found is a word.  Not every word is found: a thread that
\* began within a word may take the place of one that did not.
WordsAreWords ==
    phase = "done" /\ mode = "-w" /\ matched # <<>> =>
        LET s == matched[0]  e == matched[1]
        IN  /\ s > 0 => text[s] \notin WordBytes
            /\ e < Len(text) => text[e + 1] \notin WordBytes
            /\ \E k \in DOMAIN FindsFrom(s) : FindsFrom(s)[k].at = e

\* "each program counter is added to the thread list at most once per position"
\* (regex.rs:21), seeds included: so the work is bounded.
OneThreadEach ==
    LET all == Seeded.list IN Cardinality({all[k].pc : k \in DOMAIN all}) = Len(all)
=============================================================================
