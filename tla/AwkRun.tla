-------------------------------- MODULE AwkRun --------------------------------
(***************************************************************************)
(* awk's interpreter (src/src/applets/text/awk.rs, Interp and awk): values,*)
(* variables and frames of functions, arrays, record and fields,           *)
(* expressions, statements, and the rules run for each record.             *)
(*                                                                         *)
(* Programs are parsed (module AwkExpr); characters are ASCII codes,       *)
(* numbers are integers, regular expressions are words.  Well-known        *)
(* programs must compute what they are known for.                          *)
(***************************************************************************)
EXTENDS Integers, Sequences, SequencesExt, FiniteSets, FiniteSetsExt, TLC

CONSTANTS Inputs,       \* one or two files, sequences of lines
          MaxEdits

VARIABLES
    idiom, edits,   \* the program; "edits" is made of assignments to fields
    files,
    whole,          \* the last line of a file ends with a newline
    phase,          \* "begin", "main", "end", "done"
    file, records,  \* the file that is read, and what is left of it
    interp

vars == <<idiom, edits, files, whole, phase, file, records, interp>>

NewLine == 10
Blank == 32
Comma == 44
Digits == 48..57
One == <<49>>
A == <<97>>
X == <<120>>

-----------------------------------------------------------------------------
(* Values.                                                                 *)

Num(n) == [is |-> "num", n |-> n, s |-> <<>>]
Str(s) == [is |-> "str", n |-> 0, s |-> s]
StrNum(s) == [is |-> "strnum", n |-> 0, s |-> s]
Uninit == [is |-> "uninit", n |-> 0, s |-> <<>>]
Truth(b) == Num(IF b THEN 1 ELSE 0)

RECURSIVE NumToStr(_)
NumToStr(n) == IF n < 0 THEN <<45>> \o NumToStr(-n)
               ELSE IF n < 10 THEN <<48 + n>> ELSE Append(NumToStr(n \div 10), 48 + (n % 10))

\* The number that a string begins with; signs, points and exponents are left out.
Trim(s) == LET nonblank == {i \in DOMAIN s : s[i] \notin {Blank, NewLine}}
           IN  IF nonblank = {} THEN <<>> ELSE SubSeq(s, Min(nonblank), Max(nonblank))
StrToNum(s) ==
    LET t == Trim(s)
        digits == Max({k \in 0..Len(t) : \A i \in 1..k : t[i] \in Digits})
    IN  FoldLeft(LAMBDA n, c : 10 * n + c - 48, 0, SubSeq(t, 1, digits))
LooksNumeric(s) == Trim(s) # <<>> /\ \A i \in DOMAIN Trim(s) : Trim(s)[i] \in Digits

ToNum(v) == IF v.is = "num" THEN v.n ELSE StrToNum(v.s)
ToStr(v) == IF v.is = "num" THEN NumToStr(v.n) ELSE v.s
IsTrue(v) == IF v.is = "str" THEN v.s # <<>> ELSE ToNum(v) # 0
InputValue(s) == IF s = <<>> THEN Uninit ELSE IF LooksNumeric(s) THEN StrNum(s) ELSE Str(s)

Precedes(s, t) ==
    \E k \in 0..Len(s) :
        /\ k < Len(t) /\ SubSeq(s, 1, k) = SubSeq(t, 1, k)
        /\ k = Len(s) \/ s[k + 1] < t[k + 1]

\* cmp_values: as numbers unless one of them is a string.
Less(v, w) == IF "str" \in {v.is, w.is} THEN Precedes(ToStr(v), ToStr(w)) ELSE ToNum(v) < ToNum(w)
Compare(op, v, w) ==
    CASE op = "<" -> Less(v, w) [] op = ">" -> Less(w, v) [] op = "==" -> ~Less(v, w) /\ ~Less(w, v)

-----------------------------------------------------------------------------
(* Searching, splitting, replacing.                                        *)

\* The first place of word in s from position k, 0 when there is none.
Find(word, s, k) ==
    LET places == {i \in k..(Len(s) - Len(word) + 1) : SubSeq(s, i, i + Len(word) - 1) = word}
    IN  IF places = {} THEN 0 ELSE Min(places)

\* split_fields: blanks between two fields are one separator, other separators each one.
RECURSIVE SplitFields(_, _)
SplitFields(s, fs) ==
    LET t == IF fs = <<Blank>> THEN Trim(s) ELSE s
        cuts == {i \in DOMAIN t : t[i] \in (IF fs = <<Blank>> THEN {Blank, NewLine} ELSE {fs[1]})}
        rest == SubSeq(t, Min(cuts) + 1, Len(t))
    IN  IF t = <<>> THEN <<>>
        ELSE IF cuts = {} THEN <<t>>
        ELSE <<SubSeq(t, 1, Min(cuts) - 1)>>
             \o (IF fs # <<Blank>> /\ rest = <<>> THEN <<rest>> ELSE SplitFields(rest, fs))

\* split_records: by a character, or (RS = "") by empty lines, of which one at the end
\* makes an empty record.
RECURSIVE Paragraphs(_)
Paragraphs(data) ==
    LET skipped == Max({k \in 0..(Len(data) - 1) : \A j \in 1..k : data[j] = NewLine})
        d == SubSeq(data, skipped + 1, Len(data))
        end == Min({k \in 1..(Len(d) - 1) : d[k] = NewLine /\ d[k + 1] = NewLine} \cup {Len(d) + 1})
        text == SubSeq(d, 1, end - 1)
    IN  IF data = <<>> THEN <<>>
        ELSE <<IF text # <<>> /\ Last(text) = NewLine THEN Front(text) ELSE text>>
             \o Paragraphs(SubSeq(d, end + 1, Len(d)))

SplitRecords(data, rs) ==
    LET parts == SplitFields(data, rs)
    IN  CASE rs = <<>> -> Paragraphs(data)
          [] rs # <<>> /\ data # <<>> /\ Last(data) = rs[1] -> Front(parts)
          [] OTHER -> parts

\* regex_sub for a word, which cannot match nothing.
RECURSIVE RegexSub(_, _, _, _)
RegexSub(word, new, s, global) ==
    LET k == Find(word, s, 1)
        rest == SubSeq(s, k + Len(word), Len(s))
        more == IF global THEN RegexSub(word, new, rest, TRUE) ELSE [s |-> rest, n |-> 0]
    IN  IF k = 0 THEN [s |-> s, n |-> 0]
        ELSE [s |-> SubSeq(s, 1, k - 1) \o new \o more.s, n |-> 1 + more.n]

Joined(parts, sep) ==
    IF parts = <<>> THEN <<>>
    ELSE FoldLeft(LAMBDA s, p : s \o sep \o p, parts[1], Tail(parts))

-----------------------------------------------------------------------------
(* The interpreter's state.                                                *)

Get(f, k, default) == IF k \in DOMAIN f THEN f[k] ELSE default
Put(f, k, v) == (k :> v) @@ f

Interp ==
    [globals |-> ("FS" :> Str(<<Blank>>)) @@ ("OFS" :> Str(<<Blank>>))
                 @@ ("RS" :> Str(<<NewLine>>)),
     arrays |-> <<>>, frames |-> <<>>, record |-> <<>>, fields |-> <<>>, nr |-> 0, fnr |-> 0,
     out |-> <<>>, code |-> 0, active |-> {}]
Global(name, i) == ToStr(i.globals[name])

IsParam(name, i) ==
    i.frames # <<>> /\ \E k \in DOMAIN Last(i.frames).params : Last(i.frames).params[k] = name

GetVar(name, i) ==
    CASE name = "NF" -> Num(Len(i.fields))
      [] name = "NR" -> Num(i.nr)
      [] name = "FNR" -> Num(i.fnr)
      [] OTHER -> Get(IF IsParam(name, i) THEN Last(i.frames).vars ELSE i.globals, name, Uninit)

Resplit(i) == [i EXCEPT !.fields = SplitFields(i.record, Global("FS", i))]
RebuildRecord(i) == [i EXCEPT !.record = Joined(i.fields, Global("OFS", i))]
Padded(fields, n) == fields \o [k \in 1..(n - Len(fields)) |-> <<>>]

SetNf(n, i) ==
    RebuildRecord([i EXCEPT !.fields = IF n < Len(@) THEN SubSeq(@, 1, n) ELSE Padded(@, n)])
GetField(n, i) ==
    IF n = 0 THEN InputValue(i.record)
    ELSE IF n \in DOMAIN i.fields THEN InputValue(i.fields[n]) ELSE Uninit
SetField_NoRebuild(n, s, i) ==
    IF n = 0 THEN Resplit([i EXCEPT !.record = s])
    ELSE [i EXCEPT !.fields = [Padded(@, n) EXCEPT ![n] = s]]
SetField(n, s, i) ==
    IF n = 0 THEN Resplit([i EXCEPT !.record = s])
    ELSE RebuildRecord([i EXCEPT !.fields = [Padded(@, n) EXCEPT ![n] = s]])
SetRecord(s, i) == Resplit([i EXCEPT !.record = s])

SetVar(name, v, i) ==
    CASE name = "NF" -> SetNf(Max({0, ToNum(v)}), i)
      [] name = "NR" -> [i EXCEPT !.nr = ToNum(v)]
      [] name = "FNR" -> [i EXCEPT !.fnr = ToNum(v)]
      [] IsParam(name, i) -> [i EXCEPT !.frames[Len(i.frames)].vars = Put(@, name, v)]
      [] OTHER -> [i EXCEPT !.globals = Put(@, name, v)]

Array(name, i) == Get(IF IsParam(name, i) THEN Last(i.frames).arrays ELSE i.arrays, name, <<>>)
IsArray(name, i) == name \in DOMAIN (IF IsParam(name, i) THEN Last(i.frames).arrays ELSE i.arrays)
SetArray(name, a, i) ==
    IF IsParam(name, i) THEN [i EXCEPT !.frames[Len(i.frames)].arrays = Put(@, name, a)]
    ELSE [i EXCEPT !.arrays = Put(@, name, a)]

-----------------------------------------------------------------------------
(* Expressions and statements.                                             *)

Ex(op, name, of) == [op |-> op, name |-> name, of |-> of]
N(n) == Ex("number", "", <<n>>)
S(s) == Ex("string", "", <<s>>)
V(name) == Ex("var", name, <<>>)
F(e) == Ex("$", "", <<e>>)
At(a, e) == Ex("[]", a, <<e>>)
Op(op, x, y) == Ex(op, "", <<x, y>>)
Not(x) == Ex("!", "", <<x>>)
Inc(op, x) == Ex(op, "", <<x>>)
Cond(c, x, y) == Ex("?", "", <<c, x, y>>)
In(x, a) == Ex("in", a, <<x>>)
Matches(x, word) == Ex("~", "", <<x, S(word)>>)
Call(f, of) == Ex("call", f, of)
Fn(f, of) == Ex(f, "", of)

Stmt(op, of, in) == [op |-> op, of |-> of, in |-> in]
Do(e) == Stmt("expr", <<e>>, <<>>)
Write(of) == Stmt("print", of, <<>>)
If(c, then) == Stmt("if", <<c>>, <<then, <<>>>>)
DoWhile(body, c) == Stmt("do", <<c>>, <<<<>>, <<>>, body>>)
While(c, body) == Stmt("for", <<c>>, <<<<>>, <<>>, body>>)
For(init, c, post, body) == Stmt("for", <<c>>, <<<<Do(init)>>, <<Do(post)>>, body>>)
ForIn(v, a, body) == Stmt("for in", <<V(v), V(a)>>, <<body>>)
Return(e) == Stmt("return", <<e>>, <<>>)
Delete(a, of) == Stmt("delete", <<V(a)>> \o of, <<>>)
Jump(op) == Stmt(op, <<>>, <<>>)

Rule(when, of, do) == [when |-> when, of |-> of, do |-> do]
Always(do) == Rule("expr", <<N(1)>>, do)
When(e, do) == Rule("expr", <<e>>, do)
AtBegin(do) == Rule("begin", <<>>, do)
AtEnd(do) == Rule("end", <<>>, do)

\* The functions that the programs define: a loop with a local variable, and recursion.
Funcs ==
    ("loop" :> [params |-> <<"x", "i">>,
                body |-> <<For(Op("=", V("i"), N(0)), Op("<", V("i"), V("x")), Inc("_++", V("i")),
                               <<Do(Inc("_++", V("n")))>>), Return(V("i"))>>])
    @@ ("fact" :> [params |-> <<"x">>,
                   body |-> <<Return(Cond(Op("<", N(1), V("x")),
                                Op("*", V("x"), Call("fact", <<Op("-", V("x"), N(1))>>)), N(1)))>>])

-----------------------------------------------------------------------------
(* Evaluation.  An expression has a value and leaves an interpreter.  What *)
(* runs the parts of an expression or a statement is the argument `run'.   *)

R(v, i) == [v |-> v, i |-> i]
Flow(flow, v, i) == [flow |-> flow, v |-> v, i |-> i]

\* One after the other: the values, and the interpreter behind them.
EvalAll(run, es, i) ==
    FoldLeft(LAMBDA r, e : LET x == run["eval", e, r.i] IN [v |-> Append(r.v, x.v), i |-> x.i],
             [v |-> <<>>, i |-> i], es)

Arith(op, x, y) == CASE op \in {"+", "+="} -> x + y [] op = "-" -> x - y [] op = "*" -> x * y

\* The left side is evaluated for the old value and again for the place.
DoAssign(run, op, lhs, v, i) ==
    LET old == run["eval", lhs, i]
        new == IF op = "=" THEN v ELSE Num(Arith(op, ToNum(old.v), ToNum(v)))
        j == IF op = "=" THEN i ELSE old.i
        sub == run["eval", lhs.of[1], j]
    IN  CASE lhs.op = "var" -> R(new, SetVar(lhs.name, new, j))
          [] lhs.op = "$" -> R(new, SetField(ToNum(sub.v), ToStr(new), sub.i))
          [] lhs.op = "[]" -> R(new, SetArray(lhs.name,
                                       Put(Array(lhs.name, sub.i), ToStr(sub.v), new), sub.i))

DoSub(run, e, i) ==
    LET target == IF Len(e.of) = 3 THEN e.of[3] ELSE F(N(0))
        new == run["eval", e.of[2], i]
        old == run["eval", target, new.i]
        sub == RegexSub(e.of[1].of[1], ToStr(new.v), ToStr(old.v), e.op = "gsub")
    IN  R(Num(sub.n), IF sub.n = 0 THEN old.i ELSE DoAssign(run, "=", target, Str(sub.s), old.i).i)

CallBuiltin(run, e, i) ==
    LET r == EvalAll(run, e.of, i)
        s == ToStr(r.v[1])
        n(k) == ToNum(r.v[k])
        from == Max({1, n(2)})
        to == IF Len(e.of) = 3 THEN Min({Len(s) + 1, n(2) + n(3)}) ELSE Len(s) + 1
        parts == SplitFields(s, IF Len(e.of) = 3 THEN ToStr(r.v[3]) ELSE Global("FS", i))
    IN  CASE e.op = "length" ->
               (IF e.of = <<>> THEN R(Num(Len(i.record)), i)
                ELSE IF e.of[1].op = "var" /\ IsArray(e.of[1].name, i)
                THEN R(Num(Cardinality(DOMAIN Array(e.of[1].name, i))), i)
                ELSE R(Num(Len(s)), r.i))
          [] e.op = "substr" -> R(Str(SubSeq(s, from, to - 1)), r.i)
          [] e.op = "index" -> R(Num(IF r.v[2].s = <<>> THEN 0 ELSE Find(ToStr(r.v[2]), s, 1)), r.i)
          [] e.op = "split" ->
               R(Num(Len(parts)),
                 SetArray(e.of[2].name, [k \in {NumToStr(j) : j \in DOMAIN parts} |->
                                           InputValue(parts[StrToNum(k)])], r.i))
          [] e.op \in {"sub", "gsub"} -> DoSub(run, e, i)

\* Arguments are evaluated in the caller's frame; arrays are copied, and parameters
\* without an argument are local variables.
CallUser_NoFrame(run, name, args, i) ==
    LET r == EvalAll(run, args, i)
        params == Funcs[name].params
        bound == [i EXCEPT !.globals = [p \in {params[k] : k \in DOMAIN args} |->
                     r.v[CHOOSE k \in DOMAIN args : params[k] = p]] @@ r.i.globals]
        end == run["exec", Funcs[name].body, bound]
    IN  R(IF end.flow = "return" THEN end.v ELSE Uninit, end.i)
CallUser(run, name, args, i) ==
    LET r == EvalAll(run, args, i)
        params == Funcs[name].params
        Position(p) == CHOOSE k \in DOMAIN params : params[k] = p
        arrays == {k \in DOMAIN args : args[k].op = "var" /\ IsArray(args[k].name, i)}
        frame == [params |-> params,
                  arrays |-> [p \in {params[k] : k \in arrays} |->
                                Array(args[Position(p)].name, i)],
                  vars |-> [p \in {params[k] : k \in DOMAIN params} |->
                              IF Position(p) \in DOMAIN args THEN r.v[Position(p)] ELSE Uninit]]
        end == run["exec", Funcs[name].body, [r.i EXCEPT !.frames = Append(@, frame)]]
    IN  R(IF end.flow = "return" THEN end.v ELSE Uninit, [end.i EXCEPT !.frames = Front(@)])

\* What precedes the last operand is evaluated before it, but an assignment evaluates
\* its right side first.
Eval(run, e, i) ==
    LET x == run["eval", e.of[1], i]
        y == run["eval", e.of[2], x.i]
        right == run["eval", e.of[2], i]
        key == ToStr(x.v)
        step == IF e.op \in {"++_", "_++"} THEN 1 ELSE -1
        stepped == DoAssign(run, "=", e.of[1], Num(ToNum(x.v) + step), x.i)
    IN  CASE e.op = "number" -> R(Num(e.of[1]), i)
          [] e.op = "string" -> R(Str(e.of[1]), i)
          [] e.op = "regex" -> R(Truth(Find(e.of[1], i.record, 1) # 0), i)
          [] e.op = "var" -> R(GetVar(e.name, i), i)
          [] e.op = "$" -> R(GetField(ToNum(x.v), x.i), x.i)
          [] e.op = "[]" ->
               LET a == Array(e.name, x.i)
                   v == Get(a, key, Uninit)
               IN  R(v, SetArray(e.name, Put(a, key, v), x.i))
          [] e.op \in {"=", "+="} -> DoAssign(run, e.op, e.of[1], right.v, right.i)
          [] e.op \in {"+", "-", "*"} -> R(Num(Arith(e.op, ToNum(x.v), ToNum(y.v))), y.i)
          [] e.op = "!" -> R(Truth(~IsTrue(x.v)), x.i)
          [] e.op \in {"++_", "--_"} -> R(Num(ToNum(x.v) + step), stepped.i)
          [] e.op \in {"_++", "_--"} -> R(Num(ToNum(x.v)), stepped.i)
          [] e.op = "?" -> IF IsTrue(x.v) THEN y ELSE run["eval", e.of[3], x.i]
          [] e.op = "&&" -> IF IsTrue(x.v) THEN R(Truth(IsTrue(y.v)), y.i) ELSE R(Num(0), x.i)
          [] e.op = "||" -> IF IsTrue(x.v) THEN R(Num(1), x.i) ELSE R(Truth(IsTrue(y.v)), y.i)
          [] e.op = "~" -> R(Truth(Find(e.of[2].of[1], ToStr(x.v), 1) # 0), x.i)
          [] e.op \in {"<", "==", ">"} -> R(Truth(Compare(e.op, x.v, y.v)), y.i)
          [] e.op = "concat" -> R(Str(ToStr(x.v) \o ToStr(y.v)), y.i)
          [] e.op = "in" -> R(Truth(key \in DOMAIN Array(e.name, x.i)), x.i)
          [] e.op = "call" -> CallUser(run, e.name, e.of, i)
          [] OTHER -> CallBuiltin(run, e, i)

\* for (v in a), over the keys that there were.
Each(run, s, keys, i) ==
    LET Body(r, key) == run["exec", s.in[1], SetVar(s.of[1].name, InputValue(key), r.i)]
        end == FoldLeft(LAMBDA r, key : IF r.flow \in {"normal", "continue"} THEN Body(r, key) ELSE r,
                        Flow("normal", Uninit, i), keys)
    IN  IF end.flow \in {"break", "continue"} THEN Flow("normal", Uninit, end.i) ELSE end

\* while and for; do-while comes in behind its body.
Loop(run, s, i) ==
    LET c == run["eval", s.of[1], i]
    IN  IF IsTrue(c.v) THEN run["looped", s, run["exec", s.in[3], c.i]] ELSE Flow("normal", Uninit, c.i)

Looped(run, s, body) ==
    CASE body.flow = "break" -> Flow("normal", Uninit, body.i)
      [] body.flow \in {"normal", "continue"} -> Loop(run, s, run["exec", s.in[2], body.i].i)
      [] OTHER -> body

ExecStmt(run, s, i) ==
    LET r == EvalAll(run, s.of, i)
        key == run["eval", s.of[2], i]
        strings == [k \in DOMAIN s.of |-> ToStr(r.v[k])]
    IN  CASE s.op = "expr" -> Flow("normal", Uninit, r.i)
          [] s.op = "print" ->
               Flow("normal", Uninit, [r.i EXCEPT !.out = Append(@ \o
                 (IF s.of = <<>> THEN i.record ELSE Joined(strings, Global("OFS", i))), NewLine)])
          [] s.op = "if" -> run["exec", s.in[IF IsTrue(r.v[1]) THEN 1 ELSE 2], r.i]
          [] s.op = "for" -> Loop(run, s, run["exec", s.in[1], i].i)
          [] s.op = "do" -> Looped(run, s, run["exec", s.in[3], i])
          [] s.op = "for in" ->
               Each(run, s, SetToSortSeq(DOMAIN Array(s.of[2].name, i), Precedes), i)
          [] s.op = "exit" -> Flow("exit", Uninit, IF s.of = <<>> THEN i
                                                   ELSE [r.i EXCEPT !.code = ToNum(r.v[1])])
          [] s.op = "return" -> Flow("return", r.v[1], r.i)
          [] s.op = "delete" ->
               LET name == s.of[1].name
               IN  Flow("normal", Uninit,
                        IF Len(s.of) = 1 /\ ~IsArray(name, i) THEN i
                        ELSE IF Len(s.of) = 1 THEN SetArray(name, <<>>, i)
                        ELSE SetArray(name, [k \in DOMAIN Array(name, key.i) \ {ToStr(key.v)} |->
                                               Array(name, key.i)[k]], key.i))
          [] OTHER -> Flow(s.op, Uninit, i)     \* next, break, continue

Exec(run, stmts, i) ==
    FoldLeft(LAMBDA r, s : IF r.flow = "normal" THEN ExecStmt(run, s, r.i) ELSE r,
             Flow("normal", Uninit, i), stmts)

\* The interpreter: expressions, lists of statements, loops behind their bodies.  (Any is
\* the set of all values: expressions and interpreters are nested without a bound.)
Run[what \in Any, of \in Any, i \in Any] ==
    CASE what = "eval" -> Eval(Run, of, i)
      [] what = "exec" -> Exec(Run, of, i)
      [] what = "looped" -> Looped(Run, of, i)

-----------------------------------------------------------------------------
(* Programs.                                                               *)

Rec == F(N(0))
NF == V("NF")
NR == V("NR")
Re(word) == Ex("regex", "", <<word>>)
Length == Fn("length", <<>>)
WriteRec == Write(<<>>)
Set(x, e) == Do(Op("=", x, e))

Edits == <<Op("=", F(N(1)), S(X)), Op("=", F(N(3)), S(X)), Op("=", Rec, S(X \o <<Blank>> \o X)),
           Op("=", NF, N(1)), Op("=", NF, N(4)), Op("+=", F(N(2)), N(1)), Inc("_--", NF),
           Fn("gsub", <<S(A), S(<<Blank>> \o X), F(N(1))>>), Fn("sub", <<S(A), S(<<Blank>>)>>)>>

Program(name) ==
    CASE name = "squeeze" -> <<Always(<<Set(F(N(1)), F(N(1))), WriteRec>>)>>
      [] name = "nonblank" -> <<When(NF, <<WriteRec>>)>>
      [] name = "distinct" -> <<When(Not(Inc("_++", At("seen", Rec))), <<WriteRec>>)>>
      [] name = "sum" -> <<Always(<<Do(Op("+=", V("s"), F(N(1))))>>), AtEnd(<<Write(<<V("s")>>)>>)>>
      [] name = "last" -> <<AtEnd(<<Write(<<NR, Rec>>)>>)>>
      [] name = "backwards" ->
           <<Always(<<For(Op("=", V("i"), NF), Op(">", V("i"), N(0)), Inc("_--", V("i")),
                          <<Write(<<F(V("i"))>>)>>)>>)>>
      [] name = "range" -> <<Rule("range", <<Re(A), Re(One)>>, <<WriteRec>>)>>
      [] name = "groups" ->
           <<When(Op("&&", Op(">", NR, N(1)), Op("==", F(N(1)), V("key"))), <<Jump("next")>>),
             Always(<<WriteRec, Set(V("key"), F(N(1)))>>)>>
      [] name = "tally" ->
           <<Always(<<Do(Inc("++_", At("n", F(N(1)))))>>),
             AtEnd(<<ForIn("k", "n", <<Write(<<V("k"), At("n", V("k"))>>)>>)>>)>>
      [] name = "join" ->
           <<When(Op("==", NR, V("FNR")), <<Set(At("n", F(N(1))), F(N(2))), Jump("next")>>),
             When(In(F(N(1)), "n"), <<Write(<<Op("concat", Rec, At("n", F(N(1))))>>)>>)>>
      [] name = "factorial" -> <<Always(<<Write(<<Call("fact", <<NF>>)>>)>>)>>
      [] name = "locals" ->
           <<Always(<<Set(V("i"), N(7)), Set(V("y"), Call("loop", <<NF>>)),
                      Write(<<V("i"), V("y"), V("n")>>)>>)>>
      [] name = "substitute" ->
           <<Always(<<Do(Op("+=", V("n"), Fn("gsub", <<S(A), S(<<49, Blank>>)>>))), Write(<<NF, Rec>>)>>),
             AtEnd(<<Write(<<V("n")>>)>>)>>
      [] name = "quit" ->
           <<Always(<<WriteRec>>), When(Op("==", NR, N(2)), <<Stmt("exit", <<N(3)>>, <<>>)>>),
             AtEnd(<<Write(<<S(X)>>)>>)>>
      [] name = "separator" -> <<Always(<<Write(<<F(N(1))>>), Set(V("FS"), S(A))>>)>>
      [] name = "longest" ->
           <<When(Op(">", Length, V("n")), <<Set(V("n"), Length), Set(V("s"), Rec)>>),
             AtEnd(<<Write(<<V("s")>>)>>)>>
      [] name = "paragraphs" ->
           <<AtBegin(<<Set(V("RS"), S(<<>>))>>), Always(<<Set(F(N(1)), F(N(1))), WriteRec>>)>>
      [] name = "split" ->
           <<Always(<<Set(V("n"), Fn("split", <<Rec, V("w"), S(A)>>)), Write(<<V("n"), At("w", V("n"))>>)>>)>>
      [] name = "swap" ->
           <<Always(<<Set(V("t"), F(N(1))), Set(F(N(1)), F(N(2))), Set(F(N(2)), V("t")), WriteRec>>)>>
      [] name = "upside down" ->
           <<Always(<<Set(At("s", NR), Rec)>>),
             AtEnd(<<While(NR, <<Write(<<At("s", NR)>>), Delete("s", <<NR>>), Do(Inc("_--", NR))>>),
                                 Write(<<Fn("length", <<V("s")>>)>>)>>)>>
      [] name = "skip" ->
           <<Always(<<Set(V("i"), N(0)),
                      While(N(1), <<If(Op(">", Inc("++_", V("i")), NF), <<Jump("break")>>),
                                    If(Matches(F(V("i")), A), <<Jump("continue")>>),
                                    Write(<<F(V("i"))>>)>>)>>)>>
      [] name = "halves" ->
           <<When(Op("||", Matches(Rec, A), Matches(Rec, One)),
                  <<Set(V("i"), Fn("index", <<Rec, S(A)>>)), Write(<<Fn("substr", <<Rec, N(1), Op("-", V("i"), N(1))>>)>>),
                    Write(<<Fn("substr", <<Rec, Op("+", V("i"), N(1))>>)>>)>>)>>
      [] name = "begin" ->
           <<AtBegin(<<Write(<<S(A)>>), Jump("exit"), Write(<<S(A)>>)>>), Always(<<WriteRec>>),
             AtEnd(<<DoWhile(<<Write(<<NR>>)>>, N(0)), Delete("n", <<>>)>>)>>
      [] name = "edits" -> <<Always([k \in DOMAIN edits |-> Do(Edits[edits[k]])])>>

Idioms == {"squeeze", "nonblank", "distinct", "sum", "last", "backwards", "range", "groups", "tally", "join",
           "factorial", "locals", "substitute", "quit", "separator", "longest", "paragraphs", "split", "swap",
           "upside down", "skip", "halves", "begin"}

-----------------------------------------------------------------------------
(* The run: BEGIN, the records of each file, END.                          *)

rules == Program(idiom)
HasRule(kinds) == \E k \in DOMAIN rules : rules[k].when \in kinds

\* BEGIN and END: an exit leaves out the other rules of the kind.
RunAll(run, kind, i) ==
    FoldLeft(LAMBDA r, rule : IF rule.when # kind \/ r.flow = "exit" THEN r ELSE run["exec", rule.do, r.i],
             Flow("normal", Uninit, i), rules)

\* A range goes on until its last expression is true, which its first record may be.
InRange(k, last) == R(TRUE, [last.i EXCEPT !.active = IF IsTrue(last.v) THEN @ \ {k} ELSE @ \cup {k}])
Opens(run, k, rule, first) ==
    IF IsTrue(first.v) THEN InRange(k, run["eval", rule.of[2], first.i]) ELSE R(FALSE, first.i)

\* Whether a rule is for the record.
Selected(run, k, rule, i) ==
    CASE rule.when = "expr" ->
           LET r == run["eval", rule.of[1], i] IN R(IsTrue(r.v), r.i)
      [] rule.when = "range" /\ k \in i.active -> InRange(k, run["eval", rule.of[2], i])
      [] rule.when = "range" /\ k \notin i.active -> Opens(run, k, rule, run["eval", rule.of[1], i])
      [] OTHER -> R(FALSE, i)

Applied(run, rule, selected) ==
    IF selected.v THEN run["exec", rule.do, selected.i] ELSE Flow("normal", Uninit, selected.i)

RunRules(run, of, i) ==
    FoldLeft(LAMBDA r, k : IF r.flow \in {"next", "exit"} THEN r
                           ELSE Applied(run, of[k], Selected(run, k, of[k], r.i)),
             Flow("normal", Uninit, i), [k \in DOMAIN of |-> k])

Data(lines) ==
    LET all == FlattenSeq([k \in DOMAIN lines |-> Append(lines[k], NewLine)])
    IN  IF whole \/ all = <<>> THEN all ELSE Front(all)

lines == FlattenSeq(files)

Init ==
    /\ idiom \in Idioms \cup {"edits"} /\ files \in Inputs /\ whole \in BOOLEAN
    /\ idiom = "edits" => Len(lines) = 1
    /\ edits \in UNION {[1..n -> DOMAIN Edits] : n \in 0..(IF idiom = "edits" THEN MaxEdits ELSE 0)}
    /\ phase = "begin" /\ file = 0 /\ records = <<>> /\ interp = Interp

Begin ==
    /\ phase = "begin"
    /\ \E end \in {RunAll(Run, "begin", interp)} :
           /\ interp' = end.i
           /\ phase' = IF end.flow # "exit" /\ HasRule({"expr", "range", "end"})
                       THEN "main" ELSE "end"
    /\ UNCHANGED <<idiom, edits, files, whole, file, records>>

OpenFile ==
    /\ phase = "main" /\ records = <<>> /\ file < Len(files)
    /\ file' = file + 1
    /\ records' = SplitRecords(Data(files[file']), Global("RS", interp))
    /\ interp' = [interp EXCEPT !.fnr = 0]
    /\ UNCHANGED <<idiom, edits, files, whole, phase>>

Record ==
    /\ phase = "main" /\ records # <<>>
    /\ \E end \in {RunRules(Run, rules, SetRecord(records[1], [interp EXCEPT !.nr = @ + 1, !.fnr = @ + 1]))} :
           interp' = end.i /\ phase' = IF end.flow = "exit" THEN "end" ELSE "main"
    /\ records' = Tail(records)
    /\ UNCHANGED <<idiom, edits, files, whole, file>>

End ==
    /\ \/ phase = "end"
       \/ phase = "main" /\ records = <<>> /\ file = Len(files)
    /\ interp' = RunAll(Run, "end", interp).i
    /\ phase' = "done"
    /\ UNCHANGED <<idiom, edits, files, whole, file, records>>

Next == Begin \/ OpenFile \/ Record \/ End

-----------------------------------------------------------------------------
(* What the programs are known for, in terms of lines and words.           *)

Words(s) ==
    LET ends == {e \in (DOMAIN s) \X (DOMAIN s) :
                   /\ e[1] <= e[2] /\ \A k \in e[1]..e[2] : s[k] # Blank
                   /\ e[1] > 1 => s[e[1] - 1] = Blank
                   /\ e[2] < Len(s) => s[e[2] + 1] = Blank}
    IN  LET sorted == SetToSortSeq(ends, LAMBDA d, e : d[1] < e[1])
        IN  [k \in DOMAIN sorted |-> SubSeq(s, sorted[k][1], sorted[k][2])]
Word(s, k) == IF k \in DOMAIN Words(s) THEN Words(s)[k] ELSE <<>>
Spaced(ws) == Joined(ws, <<Blank>>)
EachOf(f(_), of) == [k \in DOMAIN of |-> f(of[k])]
Has(s, c) == \E k \in DOMAIN s : s[k] = c
IsNumber(w) == w # <<>> /\ \A k \in DOMAIN w : w[k] \in Digits
Value(w) == IF IsNumber(w) THEN StrToNum(w) ELSE 0
SameKey(u, w) == u = w \/ (IsNumber(u) /\ IsNumber(w) /\ Value(u) = Value(w))
OrNothing(n) == IF lines = <<>> THEN <<>> ELSE NumToStr(n)
SumOf(f(_), of) == FoldLeft(LAMBDA n, x : n + f(x), 0, of)
Kept(good(_)) == LET ks == SetToSortSeq({k \in DOMAIN lines : good(k)}, <)
                 IN  [k \in DOMAIN ks |-> lines[ks[k]]]
\* Parts between the characters c.
Parts(s, c) ==
    LET cuts == SetToSortSeq({0, Len(s) + 1} \cup {k \in DOMAIN s : s[k] = c}, <)
    IN  IF s = <<>> THEN <<>>
        ELSE [k \in 1..(Len(cuts) - 1) |-> SubSeq(s, cuts[k] + 1, cuts[k + 1] - 1)]
Fact(n) == FoldLeft(LAMBDA x, y : x * y, 1, [k \in 1..n |-> k])

\* Whether a range that a line with an A opens and one with a 1 closes is open behind line k.
Open == LET f[k \in 0..Len(lines)] ==
              k > 0 /\ (f[k - 1] \/ Has(lines[k], A[1])) /\ ~Has(lines[k], One[1])
        IN  f
Key(k) == Word(lines[k], 1)

\* The lines that a program writes.
Expected ==
    CASE idiom = "squeeze" -> EachOf(LAMBDA s : Spaced(Words(s)), lines)
      [] idiom = "nonblank" -> Kept(LAMBDA k : Words(lines[k]) # <<>>)
      [] idiom = "distinct" -> Kept(LAMBDA k : \A j \in 1..(k - 1) : lines[j] # lines[k])
      [] idiom = "sum" -> <<OrNothing(SumOf(LAMBDA s : StrToNum(Word(s, 1)), lines))>>
      [] idiom = "last" -> <<NumToStr(Len(lines)) \o <<Blank>> \o (IF lines = <<>> THEN <<>> ELSE Last(lines))>>
      [] idiom = "backwards" -> FlattenSeq(EachOf(LAMBDA s : Reverse(Words(s)), lines))
      [] idiom = "range" -> Kept(LAMBDA k : Open[k - 1] \/ Has(lines[k], A[1]))
      [] idiom = "groups" -> Kept(LAMBDA k : k = 1 \/ ~SameKey(Key(k), Key(k - 1)))
      [] idiom = "tally" ->
           LET keys == {Key(k) : k \in DOMAIN lines}
           IN  EachOf(LAMBDA w : w \o <<Blank>> \o NumToStr(Cardinality({k \in DOMAIN lines : Key(k) = w})),
                     SetToSortSeq(keys, Precedes))
      [] idiom = "join" ->
           LET with == {k \in DOMAIN files[1] : TRUE}
               Match(s) == {k \in with : Word(files[1][k], 1) = Word(s, 1)}
               joined == SelectSeq(files[2], LAMBDA s : Match(s) # {})
           IN  IF Len(files) = 1 \/ files[1] = <<>> THEN <<>>
               ELSE EachOf(LAMBDA s : s \o Word(files[1][Max(Match(s))], 2), joined)
      [] idiom = "factorial" -> EachOf(LAMBDA s : NumToStr(Fact(Len(Words(s)))), lines)
      [] idiom = "locals" ->
           [k \in DOMAIN lines |->
              LET n == SumOf(LAMBDA s : Len(Words(s)), SubSeq(lines, 1, k))
              IN  Spaced(<<NumToStr(7), NumToStr(Len(Words(lines[k]))), IF n = 0 THEN <<>> ELSE NumToStr(n)>>)]
      [] idiom = "substitute" ->
           LET New(s) == FlattenSeq(EachOf(LAMBDA c : IF c = A[1] THEN <<49, Blank>> ELSE <<c>>, s))
           IN  EachOf(LAMBDA s : Spaced(<<NumToStr(Len(Words(New(s)))), New(s)>>), lines)
               \o <<OrNothing(SumOf(LAMBDA s : Cardinality({k \in DOMAIN s : s[k] = A[1]}), lines))>>
      [] idiom = "quit" -> SubSeq(lines, 1, Min({2, Len(lines)})) \o <<X>>
      [] idiom = "separator" ->
           [k \in DOMAIN lines |-> IF k = 1 THEN Word(lines[1], 1)
                                   ELSE IF lines[k] = <<>> THEN <<>> ELSE Parts(lines[k], A[1])[1]]
      [] idiom = "longest" ->
           LET best == {k \in DOMAIN lines : \A j \in DOMAIN lines : Len(lines[j]) <= Len(lines[k])}
           IN  <<IF lines = <<>> THEN <<>> ELSE lines[Min(best)]>>
      [] idiom = "split" ->
           EachOf(LAMBDA s : LET ps == Parts(s, A[1])
                            IN  NumToStr(Len(ps)) \o <<Blank>> \o (IF ps = <<>> THEN <<>> ELSE Last(ps)), lines)
      [] idiom = "swap" ->
           EachOf(LAMBDA s : Spaced(<<Word(s, 2), Word(s, 1)>> \o SubSeq(Words(s), 3, Len(Words(s)))), lines)
      [] idiom = "upside down" -> Append(Reverse(lines), NumToStr(0))
      [] idiom = "skip" -> SelectSeq(FlattenSeq(EachOf(Words, lines)), LAMBDA w : ~Has(w, A[1]))
      [] idiom = "halves" ->
           FlattenSeq(EachOf(LAMBDA s : LET ps == Parts(s, A[1])
                                       IN  <<IF Has(s, A[1]) THEN ps[1] ELSE <<>>,
                                             IF Has(s, A[1]) THEN SubSeq(s, Len(ps[1]) + 2, Len(s)) ELSE s>>,
                            SelectSeq(lines, LAMBDA s : Has(s, A[1]) \/ Has(s, One[1]))))
      [] idiom = "begin" -> <<A, NumToStr(0)>>
      [] idiom = "paragraphs" ->
           FlattenSeq(EachOf(LAMBDA f :
               LET Starts == {k \in DOMAIN f : f[k] # <<>> /\ (k = 1 \/ f[k - 1] = <<>>)}
                   LastOf(k) == Max({j \in k..Len(f) : \A l \in k..j : f[l] # <<>>})
               IN  EachOf(LAMBDA k : Spaced(FlattenSeq(EachOf(Words, SubSeq(f, k, LastOf(k))))),
                         SetToSortSeq(Starts, <)), files))

\* Without a newline at its end a file has no empty last line; one that has makes an
\* empty record of it when RS is empty (awk.rs:3401).
Usual ==
    \A k \in DOMAIN files : files[k] # <<>> /\ Last(files[k]) = <<>> => whole /\ idiom # "paragraphs"

\* Well-known programs write what they are known for.
ProgramsWork ==
    phase = "done" /\ Usual /\ idiom # "edits" =>
        /\ interp.out = FlattenSeq(EachOf(LAMBDA s : Append(s, NewLine), Expected))
        /\ interp.code = IF idiom = "quit" /\ Len(lines) >= 2 THEN 3 ELSE 0
        /\ interp.frames = <<>>

\* Record and fields agree after any assignments to them: the fields are what the record
\* is split into, or the record is made of the fields.
FieldsFollowRecord ==
    idiom # "separator" =>
        \/ interp.fields = SplitFields(interp.record, Global("FS", interp))
        \/ interp.record = Joined(interp.fields, Global("OFS", interp))
=============================================================================
