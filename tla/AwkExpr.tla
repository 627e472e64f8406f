------------------------------- MODULE AwkExpr -------------------------------
(***************************************************************************)
(* The expressions of awk as its parser reads them                         *)
(* (src/src/applets/text/awk.rs, parse_expr to parse_primary).             *)
(*                                                                         *)
(* Tokens are strings; a name, a number, an array and a function stand for *)
(* all of their kind.  A tree is an operator with its operands.  Trees are *)
(* written with no more parentheses than the precedences of POSIX demand,  *)
(* and must be read as they were meant.                                    *)
(***************************************************************************)
EXTENDS Integers, Sequences, SequencesExt, FiniteSets

CONSTANT Trees          \* what is written and read

VARIABLES tree,
          inPrint,      \* the expression stands in print, where > redirects
          read          \* what the parser made of it, and where it stopped

vars == <<tree, inPrint, read>>

Node(op, of) == [op |-> op, of |-> of]
Leaf(token) == Node(token, <<>>)
Bad == Leaf("error")
Result(e, at) == [e |-> e, at |-> at]

Names == {"x", "y"}
Arrays == {"a"}
AssignOps == {"=", "+="}

\* parse_or to parse_mul: one binary operator after the other, all to the left.
\* The empty operator is concatenation.
Binary == <<{"||"}, {"&&"}, {"in"}, {"~"}, {"<", "==", ">"}, {""}, {"+", "-"}, {"*", "/"}>>
StartsValue == Names \cup Arrays \cup {"1", "s", "f", "length", "$", "(", "!", "++", "--"}

-----------------------------------------------------------------------------
(* The parser.                                                             *)

RECURSIVE Lvalue(_), Plain(_)
Lvalue(e) == e.op \in Names \cup {"$", "[]"} \/ (e.op = "()" /\ Lvalue(e.of[1]))

RECURSIVE Assign(_, _, _), Level(_, _, _, _), More(_, _, _, _, _), Unary(_, _, _),
          Postfix(_, _, _, _), Primary(_, _, _), Args(_, _, _, _)

Peek(t, i) == IF i <= Len(t) THEN t[i] ELSE "end"

\* parse_assign and parse_ternary
Assign(t, i, noGt) ==
    LET c == Level(1, t, i, noGt)
        a == Assign(t, c.at + 1, noGt)
        b == Assign(t, a.at + 1, noGt)
        left == IF Peek(t, c.at) # "?" THEN c
                ELSE IF Peek(t, a.at) = ":" THEN Result(Node("?", <<c.e, a.e, b.e>>), b.at)
                ELSE Result(Bad, a.at)
        op == Peek(t, left.at)
        right == Assign(t, left.at + 1, noGt)
    IN  IF op \in AssignOps /\ Lvalue(left.e) THEN Result(Node(op, <<left.e, right.e>>), right.at)
        ELSE left

Level(n, t, i, noGt) ==
    IF n > Len(Binary) THEN Unary(t, i, noGt)
    ELSE LET left == Level(n + 1, t, i, noGt) IN More(n, left, t, left.at, noGt)

\* The loop of a level.
More_RightToLeft(n, left, t, i, noGt) ==
    LET op == Peek(t, i)
        right == Level(n, t, IF "" \in Binary[n] THEN i ELSE i + 1, noGt)
    IN  CASE "" \in Binary[n] /\ op \in StartsValue ->
                More(n, Result(Node("", <<left.e, right.e>>), right.at), t, right.at, noGt)
          [] op = "in" /\ op \in Binary[n] ->
                More(n, Result(Node("in", <<left.e, Leaf(t[i + 1])>>), i + 2), t, i + 2, noGt)
          [] op # "in" /\ op \in Binary[n] /\ ~(op = ">" /\ noGt) ->
                More(n, Result(Node(op, <<left.e, right.e>>), right.at), t, right.at, noGt)
          [] OTHER -> left
More(n, left, t, i, noGt) ==
    LET op == Peek(t, i)
        right == Level(n + 1, t, IF "" \in Binary[n] THEN i ELSE i + 1, noGt)
    IN  CASE "" \in Binary[n] /\ op \in StartsValue ->
                More(n, Result(Node("", <<left.e, right.e>>), right.at), t, right.at, noGt)
          [] op = "in" /\ op \in Binary[n] ->
                LET e == IF Peek(t, i + 1) \in Arrays THEN Node("in", <<left.e, Leaf(t[i + 1])>>)
                         ELSE Bad
                IN  More(n, Result(e, i + 2), t, i + 2, noGt)
          [] op # "in" /\ op \in Binary[n] /\ ~(op = ">" /\ noGt) ->
                More(n, Result(Node(op, <<left.e, right.e>>), right.at), t, right.at, noGt)
          [] OTHER -> left

\* parse_unary and parse_pow
Unary(t, i, noGt) ==
    LET x == Unary(t, i + 1, noGt)
        base == Primary(t, i, noGt)
        b == Postfix(base.e, t, base.at, noGt)
        power == Unary(t, b.at + 1, noGt)
    IN  CASE Peek(t, i) \in {"!", "-", "++", "--"} -> Result(Node(t[i] \o "_", <<x.e>>), x.at)
          [] Peek(t, i) \notin {"!", "-", "++", "--"} /\ Peek(t, b.at) = "^" ->
                Result(Node("^", <<b.e, power.e>>), power.at)
          [] OTHER -> b

Postfix(e, t, i, noGt) ==
    IF Peek(t, i) \in {"++", "--"} /\ Lvalue(e)
    THEN Postfix(Node("_" \o t[i], <<e>>), t, i + 1, noGt)
    ELSE Result(e, i)

\* parse_primary; parentheses allow > again, a subscript and arguments do not.
Primary(t, i, noGt) ==
    LET tok == Peek(t, i)
        field == Primary(t, i + 1, noGt)
        prefix == Unary(t, i + 1, noGt)
        inner == Assign(t, i + 1, FALSE)
        subs == Args(<<>>, t, i + 2, noGt)
        closing == IF tok \in Arrays THEN "]" ELSE ")"
    IN  CASE tok = "$" -> Result(Node("$", <<field.e>>), field.at)
          [] tok \in {"!", "-", "++", "--"} -> Result(Node(tok \o "_", <<prefix.e>>), prefix.at)
          [] tok = "(" -> Result(IF Peek(t, inner.at) = ")" THEN Node("()", <<inner.e>>) ELSE Bad,
                                 inner.at + 1)
          [] tok \in Arrays \cup {"f", "length"} /\ Peek(t, i + 1) \in {"[", "("} ->
                IF Peek(t, subs.at) = closing
                THEN Result(Node(IF tok \in Arrays THEN "[]" ELSE tok, subs.e), subs.at + 1)
                ELSE Result(Bad, subs.at)
          [] tok \in Names \cup {"1", "s", "length"} -> Result(Leaf(tok), i + 1)
          [] OTHER -> Result(Bad, i + 1)

Args(es, t, i, noGt) ==
    LET e == Assign(t, i, noGt)
    IN  IF Peek(t, e.at) = "," THEN Args(Append(es, e.e), t, e.at + 1, noGt)
        ELSE Result(Append(es, e.e), e.at)

-----------------------------------------------------------------------------
(* How POSIX has it written, from assignments down to primaries.           *)

Rank(op) ==
    CASE op \in AssignOps -> 0
      [] op = "?" -> 1
      [] \E n \in DOMAIN Binary : op \in Binary[n] ->
            1 + CHOOSE n \in DOMAIN Binary : op \in Binary[n]
      [] op \in {"!_", "-_"} -> 10
      [] op = "^" -> 11
      [] op \in {"++_", "--_", "_++", "_--"} -> 12
      [] op = "$" -> 13
      [] OTHER -> 14

Parens(text) == <<"(">> \o text \o <<")">>
Sign(op) == CASE op \in {"++_", "_++"} -> "++" [] op \in {"--_", "_--"} -> "--"
              [] op = "!_" -> "!" [] op = "-_" -> "-" [] OTHER -> op

\* What the k-th operand of e must at least be, to stand without parentheses.
\* (a < b < c is not in the grammar; 1 ^ -x is.)
Need(e, k) ==
    LET r == Rank(e.op)
    IN  CASE e.op \in AssignOps -> IF k = 1 THEN 13 ELSE 0
          [] e.op = "?" -> IF k = 1 THEN 2 ELSE 0
          [] r \in 2..9 -> IF k = 1 /\ r # 6 THEN r ELSE r + 1
          [] e.op = "^" -> IF k = 1 THEN 12 ELSE 10
          [] e.op \in {"!_", "-_"} -> 10
          [] e.op \in {"[]", "f"} -> 0
          [] OTHER -> 13

\* The text of e where nothing weaker than `need' may stand.  What would be taken for an
\* operator behind another operand is in parentheses, and so is ++x in ++x ^ 2, which
\* this parser reads as ++(x ^ 2).
RECURSIVE Written(_, _)
Written(e, need) ==
    LET x(k) == Written(e.of[k], Need(e, k))
        whole ==
          CASE e.op = "" -> x(1) \o (IF x(2)[1] \in {"-", "++", "--"} THEN Parens(x(2)) ELSE x(2))
            [] e.op = "^" -> (IF e.of[1].op \in {"++_", "--_"} THEN Parens(x(1)) ELSE x(1))
                             \o <<"^">> \o x(2)
            [] e.op = "?" -> x(1) \o <<"?">> \o x(2) \o <<":">> \o x(3)
            [] e.op \in {"!_", "-_", "++_", "--_", "$"} -> <<Sign(e.op)>> \o x(1)
            [] e.op \in {"_++", "_--"} -> x(1) \o <<Sign(e.op)>>
            [] e.op = "[]" -> <<"a", "[">> \o x(1) \o <<"]">>
            [] e.op = "f" -> <<"f", "(">> \o x(1) \o <<",">> \o x(2) \o <<")">>
            [] Len(e.of) = 2 -> x(1) \o <<e.op>> \o x(2)
            [] OTHER -> <<e.op>>
    IN  IF Rank(e.op) < need THEN Parens(whole) ELSE whole

\* Without the nodes that parentheses leave.
Plain(e) == IF e.op = "()" THEN Plain(e.of[1])
            ELSE Node(e.op, [k \in DOMAIN e.of |-> Plain(e.of[k])])

\* In print, > must stand in parentheses; in those of a call or a subscript it
\* should do without, which this parser does not accept.
RECURSIVE Bare(_, _)
Bare(e, need) ==
    Rank(e.op) >= need /\ (e.op = ">" \/ \E k \in DOMAIN e.of : Bare(e.of[k], Need(e, k)))

-----------------------------------------------------------------------------
source == Written(tree, 0) \o (IF inPrint THEN <<">", "s">> ELSE <<>>)

Init == tree \in Trees /\ inPrint \in {b \in BOOLEAN : b => ~Bare(tree, 0)} /\ read = Result(Bad, 0)
Parse ==
    /\ read.at = 0
    /\ read' = Assign(source, 1, inPrint)
    /\ UNCHANGED <<tree, inPrint>>
Next == Parse

\* An expression is read with the precedences and associativity of POSIX (awk.rs:9, "the
\* full expression grammar"), up to where it ends.
ReadAsMeant ==
    read.at # 0 =>
        /\ Plain(read.e) = tree
        /\ read.at = Len(source) + 1 - (IF inPrint THEN 2 ELSE 0)
=============================================================================
