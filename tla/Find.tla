--------------------------------- MODULE Find ---------------------------------
(***************************************************************************)
(* find (src/src/applets/file/find_cmd.rs): its expression is parsed from  *)
(* the arguments and evaluated for what a walk of the tree comes to, while *)
(* entries vanish, a directory cannot be read, or the output is gone.      *)
(*                                                                         *)
(* A path is a sequence of names, a name one of characters (ASCII codes).  *)
(* An argument is an operator or a predicate with its operand.             *)
(***************************************************************************)
EXTENDS Integers, Sequences, SequencesExt, FiniteSets

CONSTANT
    Scenarios   \* [tree, expr, sealed, depthFirst, maxDepth, faults]

VARIABLES
    scenario,
    spelled,    \* -a is written
    fs,         \* path -> "dir" or "file"
    expr,       \* what was parsed
    stack,      \* the directories that are open, with the names not yet looked at
    out,        \* what was printed, and the commands that were run
    status, abort, faults, phase

vars == <<scenario, spelled, fs, expr, stack, out, status, abort, faults, phase>>

Root == <<>>
Star == 42
Question == 63
OpenSet == 91
CloseSet == 93
Dash == 45
Bang == 33
Caret == 94

-----------------------------------------------------------------------------
(* Names.                                                                  *)

\* match_bracket: whether c is in the set that begins at pattern[i], and where the set
\* ends (0: it has no end).
MatchBracket(pattern, i, c) ==
    LET negated == i < Len(pattern) /\ pattern[i + 1] \in {Bang, Caret}
        first == IF negated THEN i + 2 ELSE i + 1
        IsRange(k) == k + 2 <= Len(pattern) /\ pattern[k + 1] = Dash /\ pattern[k + 2] # CloseSet
        f[k \in first..(Len(pattern) + 3), found \in BOOLEAN] ==
            IF k > Len(pattern) THEN [m |-> FALSE, next |-> 0]
            ELSE IF pattern[k] = CloseSet /\ k > first THEN [m |-> found # negated, next |-> k + 1]
            ELSE IF IsRange(k) THEN f[k + 3, found \/ c \in pattern[k]..pattern[k + 2]]
            ELSE f[k + 1, found \/ c = pattern[k]]
    IN  f[first, FALSE]

\* glob_match: p and s are where the pattern and the name are, starP and starS where
\* the last star and the end of its match.
RECURSIVE GlobFrom(_, _, _, _, _, _)
GlobFrom(pattern, name, p, s, starP, starS) ==
    LET c == IF p <= Len(pattern) THEN pattern[p] ELSE 0
        set == MatchBracket(pattern, p, name[s])
        next == IF c = OpenSet /\ set.next # 0 THEN set.next ELSE p + 1
        here == CASE c = Question -> TRUE
                  [] c = OpenSet /\ set.next # 0 -> set.m
                  [] OTHER -> c = name[s]
    IN  CASE s > Len(name) -> \A k \in p..Len(pattern) : pattern[k] = Star
          [] s <= Len(name) /\ c = Star -> GlobFrom(pattern, name, p + 1, s, p, s)
          [] s <= Len(name) /\ c # Star /\ here -> GlobFrom(pattern, name, next, s + 1, starP, starS)
          [] OTHER -> starP # 0 /\ GlobFrom(pattern, name, starP + 1, starS + 1, starP, starS + 1)
GlobMatch(pattern, name) == GlobFrom(pattern, name, 1, 1, 0, 0)

-----------------------------------------------------------------------------
(* Expressions.                                                            *)

Node(op, of) == [op |-> op, of |-> of, arg |-> <<>>]
Pred(op, arg) == [op |-> op, of |-> <<>>, arg |-> arg]
Out == Pred("-print", <<>>)
Actions == {"-print", "-exec"}
Token(op) == Node(op, <<>>)
Parsed(e, at) == [e |-> e, at |-> at]

RECURSIVE OrExpr(_, _), OrMore(_, _), AndExpr(_, _), AndMore(_, _), NotExpr(_, _)
Op(t, i) == IF i <= Len(t) THEN t[i].op ELSE "end"

Term(t, i) ==
    LET inner == OrExpr(t, i + 1)
    IN  CASE Op(t, i) = "(" ->
               Parsed(IF Op(t, inner.at) = ")" THEN inner.e ELSE Token("error"), inner.at + 1)
          [] Op(t, i) \in {")", "-a", "-o", "end"} -> Parsed(Token("error"), i + 1)
          [] OTHER -> Parsed(t[i], i + 1)

NotExpr_Loose(t, i) ==
    LET e == AndExpr(t, i + 1)
    IN  IF Op(t, i) = "!" THEN Parsed(Node("!", <<e.e>>), e.at) ELSE Term(t, i)
NotExpr(t, i) ==
    LET e == NotExpr(t, i + 1)
    IN  IF Op(t, i) = "!" THEN Parsed(Node("!", <<e.e>>), e.at) ELSE Term(t, i)

AndExpr(t, i) == AndMore(NotExpr(t, i), t)
AndMore(left, t) ==
    LET right == NotExpr(t, IF Op(t, left.at) = "-a" THEN left.at + 1 ELSE left.at)
    IN  IF Op(t, left.at) \in {"-o", ")", "end"} THEN left
        ELSE AndMore(Parsed(Node("-a", <<left.e, right.e>>), right.at), t)

OrExpr(t, i) == OrMore(AndExpr(t, i), t)
OrMore(left, t) ==
    LET right == AndExpr(t, left.at + 1)
    IN  IF Op(t, left.at) # "-o" THEN left
        ELSE OrMore(Parsed(Node("-o", <<left.e, right.e>>), right.at), t)

HasAction(t) == \E k \in DOMAIN t : t[k].op \in Actions
\* What find evaluates.
Whole(t) == LET r == OrExpr(t, 1)
                e == CASE t = <<>> -> Token("true")
                       [] t # <<>> /\ r.at = Len(t) + 1 -> r.e
                       [] OTHER -> Token("error")
            IN  IF HasAction(t) THEN e ELSE Node("-a", <<e, Out>>)

-----------------------------------------------------------------------------
(* What an expression means, and how it is written.  A name is meant as a  *)
(* sequence of items: *, ?, a character, or a set.                         *)

InSet(item, c) ==
    LET body == SubSeq(item, IF item[2] = Bang THEN 3 ELSE 2, Len(item) - 1)
        in == IF Len(body) = 3 /\ body[2] = Dash THEN c \in body[1]..body[3]
              ELSE \E k \in DOMAIN body : body[k] = c
    IN  in # (item[2] = Bang)
RECURSIVE Named(_, _)
Named(items, name) ==
    IF items = <<>> THEN name = <<>>
    ELSE IF items[1] = <<Star>>
    THEN \E k \in 0..Len(name) : Named(Tail(items), SubSeq(name, k + 1, Len(name)))
    ELSE /\ name # <<>>
         /\ IF Len(items[1]) = 1 THEN items[1][1] \in {Question, name[1]}
            ELSE InSet(items[1], name[1])
         /\ Named(Tail(items), Tail(name))

Rank(e) == CASE e.op = "-o" -> 1 [] e.op = "-a" -> 2 [] e.op = "!" -> 3 [] OTHER -> 4
RECURSIVE Written(_, _)
Written(e, need) ==
    LET x(k, n) == Written(e.of[k], n)
        text == CASE e.op = "-o" -> x(1, 1) \o <<Token("-o")>> \o x(2, 2)
                  [] e.op = "-a" -> x(1, 2) \o (IF spelled THEN <<Token("-a")>> ELSE <<>>) \o x(2, 3)
                  [] e.op = "!" -> <<Token("!")>> \o x(1, 3)
                  [] e.op = "named" -> <<Pred("-name", FlattenSeq(e.arg))>>
                  [] e.op = "true" -> <<>>
                  [] OTHER -> <<e>>
    IN  IF Rank(e) < need THEN <<Token("(")>> \o text \o <<Token(")")>> ELSE text

\* eval, for path p of that kind: the truth, whether the directory is pruned, and what
\* was done.
RECURSIVE Eval(_, _, _)
Eval(e, p, kind) ==
    LET a == Eval(e.of[1], p, kind)
        b == Eval(e.of[2], p, kind)
        both == [v |-> b.v, prune |-> a.prune \/ b.prune, acts |-> a.acts \o b.acts]
        name == IF p = Root THEN <<100>> ELSE Last(p)
        just(v) == [v |-> v, prune |-> FALSE, acts |-> <<>>]
        act(ok) == [v |-> ok, prune |-> FALSE, acts |-> <<[act |-> e.op, path |-> p, ok |-> ok]>>]
    IN  CASE e.op = "-a" -> IF a.v THEN both ELSE a
          [] e.op = "-o" -> IF a.v THEN a ELSE both
          [] e.op = "!" -> [a EXCEPT !.v = ~@]
          [] e.op = "true" -> just(TRUE)
          [] e.op = "-name" -> just(GlobMatch(e.arg, name))
          [] e.op = "named" -> just(Named(e.arg, name))
          [] e.op = "-type" -> just(e.arg = <<kind>>)
          [] e.op = "-prune" -> [just(TRUE) EXCEPT !.prune = TRUE]
          [] e.op = "-print" -> act(TRUE)
          [] e.op = "-exec" -> act(e.arg = <<"true">>)

-----------------------------------------------------------------------------
(* The walk.                                                               *)

Top == Last(stack)
Listing(dir, read, todo) == [dir |-> dir, read |-> read, todo |-> todo]
Gone == faults.gone

Init ==
    /\ scenario \in Scenarios /\ spelled \in BOOLEAN
    /\ fs = scenario.tree /\ expr = Token("true")
    /\ stack = <<Listing(Root, TRUE, {Root})>> /\ out = <<>>
    /\ status = 0 /\ abort = FALSE /\ phase = "parse"
    /\ faults = [left |-> scenario.faults, gone |-> FALSE]

Parse ==
    /\ phase = "parse"
    /\ expr' = Whole(Written(scenario.expr, 0))
    /\ phase' = "walk"
    /\ UNCHANGED <<scenario, spelled, fs, stack, out, status, abort, faults>>

\* The expression is evaluated for p; a failing write ends the walk, but not the
\* evaluation.
Evaluate(r) ==
    /\ out' = out \o SelectSeq(r.acts, LAMBDA x : x.act = "-exec" \/ ~Gone)
    /\ abort' = (Gone /\ \E k \in DOMAIN r.acts : r.acts[k].act = "-print")
    /\ status' = IF abort' \/ \E k \in DOMAIN r.acts : ~r.acts[k].ok THEN 1 ELSE status

\* process: lstat, then the expression, before or behind what is in a directory.
Process(p) ==
    LET kind == fs[p]
        r == Eval(expr, p, kind)
        rest == [stack EXCEPT ![Len(stack)].todo = @ \ {p}]
        descends == kind = "dir" /\ Len(p) < scenario.maxDepth
        deeper == Append(rest, Listing(p, FALSE, {}))
    IN  /\ phase = "walk" /\ ~abort /\ stack # <<>> /\ Top.read /\ p \in Top.todo
        /\ \/ /\ p \notin DOMAIN fs
              /\ status' = 1 /\ stack' = rest /\ UNCHANGED <<out, abort>>
           \/ /\ p \in DOMAIN fs /\ scenario.depthFirst /\ descends
              /\ stack' = deeper /\ UNCHANGED <<out, abort, status>>
           \/ /\ p \in DOMAIN fs /\ ~(scenario.depthFirst /\ descends)
              /\ Evaluate(r)
              /\ stack' = IF descends /\ ~r.prune /\ ~abort' THEN deeper ELSE rest
        /\ UNCHANGED <<scenario, spelled, fs, expr, faults, phase>>

\* descend
OpenDir ==
    /\ phase = "walk" /\ ~abort /\ stack # <<>> /\ ~Top.read
    /\ LET fails == Top.dir \notin DOMAIN fs \/ Top.dir \in scenario.sealed
           todo == {p \in DOMAIN fs : p # Root /\ Front(p) = Top.dir}
       IN  /\ stack' = Append(Front(stack), Listing(Top.dir, TRUE, IF fails THEN {} ELSE todo))
           /\ status' = IF fails THEN 1 ELSE status
    /\ UNCHANGED <<scenario, spelled, fs, expr, out, abort, faults, phase>>

CloseDir ==
    /\ phase = "walk" /\ ~abort /\ stack # <<>> /\ Top.read /\ Top.todo = {}
    /\ IF scenario.depthFirst /\ Len(stack) > 1 THEN Evaluate(Eval(expr, Top.dir, "dir"))
       ELSE UNCHANGED <<out, abort, status>>
    /\ stack' = Front(stack)
    /\ UNCHANGED <<scenario, spelled, fs, expr, faults, phase>>

Return ==
    /\ phase = "walk" /\ (abort \/ stack = <<>>)
    /\ phase' = "done"
    /\ UNCHANGED <<scenario, spelled, fs, expr, stack, out, status, abort, faults>>

\* Somebody removes a tree; the reader of the output goes away.
Vanish ==
    /\ phase = "walk" /\ faults.left > 0
    /\ \E q \in DOMAIN fs :
         fs' = [p \in {p \in DOMAIN fs : ~IsPrefix(q, p)} |-> fs[p]]
    /\ faults' = [faults EXCEPT !.left = @ - 1]
    /\ UNCHANGED <<scenario, spelled, expr, stack, out, status, abort, phase>>

OutputGoes ==
    /\ phase = "walk" /\ faults.left > 0 /\ ~Gone
    /\ faults' = [left |-> faults.left - 1, gone |-> TRUE]
    /\ UNCHANGED <<scenario, spelled, fs, expr, stack, out, status, abort, phase>>

Next == Parse \/ (\E p \in DOMAIN scenario.tree : Process(p)) \/ OpenDir \/ CloseDir \/ Return
        \/ Vanish \/ OutputGoes

-----------------------------------------------------------------------------
tree == scenario.tree
Meaning(p) ==
    LET HasActions == HasAction(Written(scenario.expr, 0))
    IN  Eval(IF HasActions THEN scenario.expr ELSE Node("-a", <<scenario.expr, Out>>), p, tree[p])
Above(p) == {q \in DOMAIN tree : IsStrictPrefix(q, p)}
\* The walk comes to p: neither too deep, nor in a directory that is pruned or not read.
Reached(p) ==
    /\ Len(p) <= scenario.maxDepth
    /\ \A q \in Above(p) : q \notin scenario.sealed /\ (Meaning(q).prune => scenario.depthFirst)
DoneFor(p) == SelectSeq(out, LAMBDA x : x.path = p)

\* What the expression says is done once for each entry in reach that nobody removed,
\* for what was removed at most once, and for nothing else.
EveryEntryOnce ==
    phase = "done" /\ ~Gone =>
        \A p \in DOMAIN tree :
            \/ DoneFor(p) = (IF Reached(p) THEN Meaning(p).acts ELSE <<>>)
            \/ p \notin DOMAIN fs /\ DoneFor(p) = <<>>

\* A directory comes before what is in it, with -depth behind it.
InOrder ==
    \A i, j \in DOMAIN out :
        IsStrictPrefix(out[i].path, out[j].path) => (i < j) # scenario.depthFirst

\* Status 0 means that all that is there was looked at and done (find_cmd.rs:56).
SuccessMeansAll ==
    phase = "done" /\ status = 0 =>
        \A p \in DOMAIN fs : Reached(p) =>
            /\ DoneFor(p) = Meaning(p).acts
            /\ \A k \in DOMAIN Meaning(p).acts : Meaning(p).acts[k].ok
            /\ p \in scenario.sealed =>
                 Len(p) = scenario.maxDepth \/ (Meaning(p).prune /\ ~scenario.depthFirst)
=============================================================================
