----------------------------- MODULE ShellScript ------------------------------
(***************************************************************************)
(* How the shell runs a script: execute_script and execute_pipeline of     *)
(* src/src/applets/shell/execute.rs, the control structures of control.rs, *)
(* exit of builtins.rs and the result of sh in entry.rs.  The recursion of *)
(* these functions is the stack here.  A script is given as its syntax     *)
(* tree; what a command other than true, false and exit returns is open.   *)
(***************************************************************************)
EXTENDS Naturals, Sequences, SequencesExt

CONSTANTS
    Scripts,    \* the scripts to run, sequences of statements
    Statuses,   \* what a command may return
    MaxRan      \* bound: commands run, for loops that need not end

VARIABLES
    script,     \* never changes
    mode,       \* "script" (a file or -c) or "stdin" (lines that are read)
    stack,      \* what is being executed, innermost last
    last,       \* last_status
    exiting,    \* should_exit
    code,       \* exit_code
    ran         \* history: the commands run, each with what it returned
vars == <<script, mode, stack, last, exiting, code, ran>>

-----------------------------------------------------------------------------
(* A command: true, false, run (a program), redirected (the same with      *)
(* redirections and not in a pipe), leave (exit without an operand) or     *)
(* exit with the code it is given.                                         *)
(* A statement: a list of commands joined by && and ||, if, while, until   *)
(* or for.  No else is the empty script.                                   *)
Word(c) == [kind |-> c, code |-> 0]
Exit(c) == [kind |-> "exit", code |-> c]
List(cmds, ops) == [kind |-> "list", cmds |-> cmds, ops |-> ops]
If(c, t, e) == [kind |-> "if", cond |-> c, then |-> t, else |-> e]
While(c, b) == [kind |-> "while", cond |-> c, body |-> b]
Until(c, b) == [kind |-> "until", cond |-> c, body |-> b]
For(n, b) == [kind |-> "for", times |-> n, body |-> b]

Block(s) == [kind |-> "block", todo |-> s]
Init ==
    /\ script \in Scripts /\ mode \in {"script", "stdin"}
    /\ stack = <<Block(script)>>
    /\ last = 0 /\ exiting = FALSE /\ code = 0
    /\ ran = <<>>

Top == Last(stack)
Below == Front(stack)
Running(kind) == stack # <<>> /\ Top.kind = kind
Goto(frames) == stack' = Below \o frames
State == <<last, exiting, code, ran>>

-----------------------------------------------------------------------------
\* execute_script: the next statement, unless the shell is to exit.
Statement ==
    /\ Running("block") /\ Top.todo # <<>> /\ ~exiting
    /\ LET s == Head(Top.todo)
           rest == Block(Tail(Top.todo))
       IN  Goto(CASE s.kind = "list" -> <<rest, s>>
                  [] s.kind = "for" -> <<rest, s>>
                  [] s.kind = "if" -> <<rest, s, Block(s.cond)>>
                  [] s.kind \in {"while", "until"} ->
                        <<rest, [kind |-> "test", loop |-> s], Block(s.cond)>>)
    /\ UNCHANGED <<script, mode, State>>

EndOfBlock ==
    /\ Running("block") /\ (Top.todo = <<>> \/ exiting)
    /\ stack' = Below
    /\ UNCHANGED <<script, mode, State>>

\* The condition has been executed.  A condition that exits leaves a block that
\* does nothing.
Branch ==
    /\ Running("if")
    /\ Goto(<<Block(IF last = 0 THEN Top.then ELSE Top.else)>>)
    /\ UNCHANGED <<script, mode, State>>

Test ==
    /\ Running("test")
    /\ LET l == Top.loop
       IN  Goto(IF (last = 0) = (l.kind = "while")
                THEN <<[kind |-> "again", loop |-> l], Block(l.body)>> ELSE <<>>)
    /\ UNCHANGED <<script, mode, State>>

Again ==
    /\ Running("again")
    /\ Goto(IF exiting THEN <<>>
            ELSE <<[kind |-> "test", loop |-> Top.loop], Block(Top.loop.cond)>>)
    /\ UNCHANGED <<script, mode, State>>

NextWord ==
    /\ Running("for")
    /\ Goto(IF Top.times = 0 \/ exiting THEN <<>>
            ELSE <<[Top EXCEPT !.times = @ - 1], Block(Top.body)>>)
    /\ UNCHANGED <<script, mode, State>>

(* What a command may return.  exit sets the exit code and not the status; *)
(* of a redirected program only the redirections are made.                 *)
Returns(c, before) ==
    CASE c.kind = "true" -> {0}
      [] c.kind = "false" -> {1}
      [] c.kind = "run" -> Statuses
      [] c.kind \in {"redirected", "exit", "leave"} -> {before}

\* (mutant: && goes on after a failure)
Stops_OrOnly(ops, status) == ops = <<>> \/ (Head(ops) = "or" /\ status = 0)

\* execute_pipeline: after a command whose && fails or whose || is not needed, the
\* list is over.
Stops(ops, status) ==
    \/ ops = <<>>
    \/ Head(ops) = "and" /\ status # 0
    \/ Head(ops) = "or" /\ status = 0

Command ==
    /\ Running("list") /\ Len(ran) < MaxRan
    /\ LET c == Head(Top.cmds)
       IN  \E status \in Returns(c, last) :
            /\ last' = status
            /\ ran' = IF c.kind = "redirected" THEN ran
                      ELSE Append(ran, [cmd |-> c, status |-> status])
            /\ exiting' = (exiting \/ c.kind \in {"exit", "leave"})
            /\ code' = CASE c.kind = "exit" -> c.code
                         [] c.kind = "leave" -> last
                         [] OTHER -> code
            /\ Goto(IF Stops(Top.ops, status) THEN <<>>
                    ELSE <<List(Tail(Top.cmds), Tail(Top.ops))>>)
    /\ UNCHANGED <<script, mode>>

Next == Statement \/ EndOfBlock \/ Branch \/ Test \/ Again \/ NextWord \/ Command
Spec == Init /\ [][Next]_vars /\ WF_vars(Next)

Finished == stack = <<>>
\* What sh returns.
Result == IF mode = "script" THEN last ELSE code

-----------------------------------------------------------------------------
(* The reference: what POSIX asks of a script (Shell Command Language:      *)
(* 2.9.3 AND-OR lists, 2.9.4 compound commands, exit) when its commands    *)
(* return the given statuses one after the other.  A run is stuck where    *)
(* the statuses end: its last command is the one that must come next.      *)

Start(statuses) == [ran |-> <<>>, left |-> statuses, last |-> 0, state |-> "running"]
Over(r) == r.state # "running"

RunCommand(r, c) ==
    LET s == [r EXCEPT !.ran = Append(@, c)]
    IN  CASE Over(r) -> r
          [] ~Over(r) /\ r.left = <<>> -> [s EXCEPT !.state = "stuck"]
          [] ~Over(r) /\ r.left # <<>> /\ c.kind \in {"exit", "leave"} ->
                [s EXCEPT !.state = "exited", !.left = Tail(@),
                          !.last = IF c.kind = "exit" THEN c.code ELSE @]
          [] OTHER -> [s EXCEPT !.last = Head(r.left), !.left = Tail(@)]

\* && and || associate to the left: each command depends on the status so far.
RunList(r, cmds, ops) ==
    LET Needed(i, s) == (ops[i - 1] = "and") = (s.last = 0)
    IN  FoldLeftDomain(LAMBDA s, i : IF i = 1 \/ Needed(i, s) THEN RunCommand(s, cmds[i]) ELSE s,
                       r, cmds)

RECURSIVE RunScript(_, _), RunStatement(_, _), RunLoop(_, _, _), RunFor(_, _, _)
RunScript(r, s) == IF s = <<>> \/ Over(r) THEN r ELSE RunScript(RunStatement(r, Head(s)), Tail(s))

RunStatement(r, s) ==
    CASE s.kind = "list" -> RunList(r, s.cmds, s.ops)
      [] s.kind = "if" ->
            LET c == RunScript(r, s.cond)
            IN  CASE Over(c) -> c
                  [] ~Over(c) /\ c.last = 0 -> RunScript(c, s.then)
                  [] ~Over(c) /\ c.last # 0 /\ s.else # <<>> -> RunScript(c, s.else)
                  [] OTHER -> [c EXCEPT !.last = 0]
      [] s.kind \in {"while", "until"} -> RunLoop(r, s, 0)
      [] s.kind = "for" -> RunFor(r, s, 0)

\* The status of a loop is that of its last round, or 0.
RunLoop(r, s, status) ==
    LET c == RunScript(r, s.cond)
        b == RunScript(c, s.body)
    IN  CASE Over(c) -> c
          [] ~Over(c) /\ (c.last = 0) # (s.kind = "while") -> [c EXCEPT !.last = status]
          [] ~Over(c) /\ (c.last = 0) = (s.kind = "while") ->
                IF Over(b) THEN b ELSE RunLoop(b, s, b.last)

RunFor(r, s, n) ==
    IF n = s.times \/ Over(r) THEN IF n = 0 THEN [r EXCEPT !.last = 0] ELSE r
    ELSE RunFor(RunScript(r, s.body), s, n + 1)

Posix(s, statuses) == RunScript(Start(statuses), s)

-----------------------------------------------------------------------------
(* Scripts that the shell can be held to: && and || are not mixed in one   *)
(* list, exit ends its list, programs are not redirected on their own, and *)
(* a condition is a list.                                                  *)
PlainList(s) ==
    /\ \A i, j \in 1..Len(s.ops) : s.ops[i] = s.ops[j]
    /\ \A i \in 1..Len(s.cmds) :
        /\ s.cmds[i].kind # "redirected"
        /\ s.cmds[i].kind \in {"exit", "leave"} => i = Len(s.cmds)
Simple(cond) == Len(cond) = 1 /\ cond[1].kind = "list" /\ PlainList(cond[1])
RECURSIVE Plain(_)
Plain(stmts) ==
    \A i \in 1..Len(stmts) :
        LET s == stmts[i]
        IN  CASE s.kind = "list" -> PlainList(s)
              [] s.kind = "if" -> Simple(s.cond) /\ Plain(s.then) /\ Plain(s.else)
              [] s.kind = "for" -> Plain(s.body)
              [] s.kind \in {"while", "until"} -> Simple(s.cond) /\ Plain(s.body)
-----------------------------------------------------------------------------
\* A plain script runs the commands POSIX asks for, in that order, whatever they
\* return, and no other: branches, loops, lists and exit all decide on the right
\* status.
RunsAsPosix ==
    Plain(script) =>
        LET cmds == [i \in 1..Len(ran) |-> ran[i].cmd]
            r == Posix(script, [i \in 1..Len(ran) |-> ran[i].status])
        IN  /\ IsPrefix(cmds, r.ran)
            /\ Finished => r.state # "stuck" /\ r.ran = cmds

\* After exit every loop and block is left, however deep.
ExitEnds == exiting ~> Finished \/ Len(ran) = MaxRan

\* "exit: Exit the shell with optional status code" (builtins.rs).
ExitStatusIsReturned ==
    Finished /\ ran # <<>> /\ Last(ran).cmd.kind = "exit" => Result = Last(ran).cmd.code
=============================================================================
