---------------------------- MODULE ShellPipeline ----------------------------
(***************************************************************************)
(* Pipelines of the shell (execute_simple_pipeline of                      *)
(* src/src/applets/shell/execute.rs): the shell makes pipes, forks a       *)
(* process per command, closes its own ends and waits, while the commands  *)
(* run.  Processes and pipes behave as the kernel has them; what matters   *)
(* is who holds which end: a reader meets the end of file when nobody      *)
(* holds the write end, a writer is killed when nobody holds the read end. *)
(***************************************************************************)
EXTENDS Naturals, Sequences

CONSTANTS
    Lines,      \* what can be typed: pipelines, nonempty sequences of commands
    MaxLines,   \* bound: lines typed
    MaxLen,     \* bound: commands in a line
    Capacity,   \* of a pipe
    MaxFaults   \* bound: pipe() and fork() that fail

(* in and out are redirections; "pipe" stands for none.  bg: ends with &.  *)
Programs == {"yes", "cat", "head", "false", "killed", "absent"}
Builtins == {"false"}
Command == [prog : Programs, in : {"pipe", "file", "missing"},
            out : {"pipe", "file"}, bg : BOOLEAN]

ASSUME PipelineAssumption ==
    /\ {Capacity, MaxLen} \subseteq Nat \ {0} /\ MaxLines \in Nat /\ MaxFaults \in Nat
    /\ \A l \in Lines : l \in Seq(Command) /\ Len(l) \in 1..MaxLen

VARIABLES
    sh,         \* the shell
    procs,      \* the processes it forked
    content,    \* units in each pipe
    faults      \* failures so far
vars == <<sh, procs, content, faults>>

(* Command i of line l, and the pipe behind it, are both called <<l, i>>.  *)
Pids == (1..MaxLines) \X (1..MaxLen)
NoPipe == <<0, 0>>
Read(p) == <<"r", p>>
Write(p) == <<"w", p>>
Ends == {"r", "w"} \X Pids
Killed == 256                   \* a wait status that is no exit code
Statuses == 0..255 \cup {Killed}

(* A process: what it runs, its wait status once it is a zombie, the ends  *)
(* it holds, its standard input and output, and whether it has read what   *)
(* it must still write.                                                    *)
Process == [state : {"none", "forked", "running", "zombie", "reaped"}, cmd : Command,
            status : Statuses, holds : SUBSET Ends,
            in : Pids \cup {NoPipe}, out : Pids \cup {NoPipe}, got : BOOLEAN]
NoProcess == [state |-> "none", status |-> 0, holds |-> {},
              cmd |-> [prog |-> "false", in |-> "pipe", out |-> "pipe", bg |-> FALSE],
              in |-> NoPipe, out |-> NoPipe, got |-> FALSE]

TypeOK ==
    /\ sh \in [pc : {"idle", "pipe", "fork", "close", "wait", "gone"}, n : 0..MaxLines,
               line : Lines \cup {<<>>}, i : 1..MaxLen, prev : Pids \cup {NoPipe},
               last : 0..255, holds : SUBSET Ends]
    /\ procs \in [Pids -> Process]
    /\ content \in [Pids -> 0..Capacity]
    /\ faults \in 0..MaxFaults

Init ==
    /\ sh = [pc |-> "idle", n |-> 0, line |-> <<>>, i |-> 1, prev |-> NoPipe,
             last |-> 0, holds |-> {}]
    /\ procs = [p \in Pids |-> NoProcess]
    /\ content = [p \in Pids |-> 0]
    /\ faults = 0

-----------------------------------------------------------------------------
(* The shell. *)
Self == <<sh.n, sh.i>>
IsLast == sh.i = Len(sh.line)
Background == sh.line[Len(sh.line)].bg
Redirected(c) == c.in # "pipe" \/ c.out # "pipe"

\* A single command that is a builtin, or redirected, is done with in the shell.
InShell(line) ==
    Len(line) = 1 /\ ~line[1].bg /\ (Redirected(line[1]) \/ line[1].prog \in Builtins)

\* A redirected command that is no builtin is not run at all: the redirections are
\* made and undone, and the status stays.
StatusInShell(c) ==
    CASE c.in = "missing" -> 1
      [] c.in # "missing" /\ c.prog = "false" -> 1
      [] OTHER -> sh.last

RunInShell ==
    /\ sh.pc = "idle" /\ sh.n < MaxLines
    /\ \E line \in Lines :
        /\ InShell(line)
        /\ sh' = [sh EXCEPT !.n = @ + 1, !.line = line, !.last = StatusInShell(line[1])]
    /\ UNCHANGED <<procs, content, faults>>

Begin ==
    /\ sh.pc = "idle" /\ sh.n < MaxLines
    /\ \E line \in Lines :
        /\ ~InShell(line)
        /\ sh' = [sh EXCEPT !.pc = "pipe", !.n = @ + 1, !.line = line, !.i = 1, !.prev = NoPipe]
    /\ UNCHANGED <<procs, content, faults>>

MakePipe ==
    /\ sh.pc = "pipe"
    /\ sh' = [sh EXCEPT !.pc = "fork",
                        !.holds = IF IsLast THEN @ ELSE @ \cup {Read(Self), Write(Self)}]
    /\ UNCHANGED <<procs, content, faults>>

\* The child starts with a copy of every descriptor of the shell.
Fork ==
    /\ sh.pc = "fork"
    /\ procs' = [procs EXCEPT ![Self] =
            [NoProcess EXCEPT !.state = "forked", !.cmd = sh.line[sh.i], !.holds = sh.holds,
                              !.in = sh.prev, !.out = IF IsLast THEN NoPipe ELSE Self]]
    /\ sh' = [sh EXCEPT !.pc = "close"]
    /\ UNCHANGED <<content, faults>>

\* pipe() or fork() fails: the function returns as things are.
Fails ==
    /\ faults < MaxFaults
    /\ sh.pc = "fork" \/ (sh.pc = "pipe" /\ ~IsLast)
    /\ sh' = [sh EXCEPT !.pc = "idle"]
    /\ faults' = faults + 1
    /\ UNCHANGED <<procs, content>>

\* (mutant: the next line starts where this one ended)
CloseEnds_NoReset ==
    /\ sh.pc = "close"
    /\ sh' = [sh EXCEPT !.holds = @ \ {Read(sh.prev), Write(Self)},
                        !.prev = IF IsLast THEN @ ELSE Self,
                        !.i = @ + 1,
                        !.pc = CASE ~IsLast -> "pipe"
                                 [] IsLast /\ Background -> "idle"
                                 [] OTHER -> "wait"]
    /\ UNCHANGED <<procs, content, faults>>

\* (mutant: the shell keeps the end that its command writes to)
CloseEnds_KeepWrite ==
    /\ sh.pc = "close"
    /\ sh' = [sh EXCEPT !.holds = @ \ {Read(sh.prev)},
                        !.prev = IF IsLast THEN @ ELSE Self,
                        !.i = IF IsLast THEN 1 ELSE @ + 1,
                        !.pc = CASE ~IsLast -> "pipe"
                                 [] IsLast /\ Background -> "idle"
                                 [] OTHER -> "wait"]
    /\ UNCHANGED <<procs, content, faults>>

CloseEnds ==
    /\ sh.pc = "close"
    /\ sh' = [sh EXCEPT !.holds = @ \ {Read(sh.prev), Write(Self)},
                        !.prev = IF IsLast THEN @ ELSE Self,
                        !.i = IF IsLast THEN 1 ELSE @ + 1,
                        !.pc = CASE ~IsLast -> "pipe"
                                 [] IsLast /\ Background -> "idle"
                                 [] OTHER -> "wait"]
    /\ UNCHANGED <<procs, content, faults>>

\* (status >> 8) & 0xff
ExitCode(status) == IF status = Killed THEN 0 ELSE status

\* (mutant: whichever command ends next)
Wait_Any ==
    /\ sh.pc = "wait"
    /\ \E i \in 1..Len(sh.line) :
        /\ procs[<<sh.n, i>>].state = "zombie"
        /\ procs' = [procs EXCEPT ![<<sh.n, i>>].state = "reaped"]
        /\ sh' = [sh EXCEPT !.last = ExitCode(procs[<<sh.n, i>>].status),
                            !.i = IF IsLast THEN 1 ELSE @ + 1,
                            !.pc = IF IsLast THEN "idle" ELSE "wait"]
    /\ UNCHANGED <<content, faults>>

Wait ==
    /\ sh.pc = "wait" /\ procs[Self].state = "zombie"
    /\ procs' = [procs EXCEPT ![Self].state = "reaped"]
    /\ sh' = [sh EXCEPT !.last = ExitCode(procs[Self].status),
                        !.i = IF IsLast THEN 1 ELSE @ + 1,
                        !.pc = IF IsLast THEN "idle" ELSE "wait"]
    /\ UNCHANGED <<content, faults>>

\* The end of the input: the kernel closes what the shell holds.
Leave ==
    /\ sh.pc = "idle"
    /\ sh' = [sh EXCEPT !.pc = "gone", !.holds = {}]
    /\ UNCHANGED <<procs, content, faults>>

Shell == RunInShell \/ Begin \/ MakePipe \/ Fork \/ Fails \/ CloseEnds \/ Wait \/ Leave

-----------------------------------------------------------------------------
(* The commands.  Ended releases what a process holds. *)
Open(end) == end \in sh.holds \/ \E q \in Pids : end \in procs[q].holds
Ended(p, status) ==
    procs' = [procs EXCEPT ![p].state = "zombie", ![p].status = status, ![p].holds = {}]

\* (mutant: the read end of the pipe it writes to stays open)
Exec_KeepRead(p) ==
    /\ procs[p].state = "forked"
    /\ LET c == procs[p].cmd
           in == IF c.in = "file" THEN NoPipe ELSE procs[p].in
           out == IF c.out = "file" THEN NoPipe ELSE procs[p].out
       IN  \/ c.in = "missing" /\ Ended(p, 1)
           \/ c.in # "missing" /\ c.prog = "absent" /\ Ended(p, 127)
           \/ /\ c.in # "missing" /\ c.prog # "absent"
              /\ procs' = [procs EXCEPT ![p] =
                    [procs[p] EXCEPT !.state = "running", !.in = in, !.out = out,
                        !.holds = (@ \ {Read(procs[p].in), Write(p)})
                                  \cup ({Read(in), Write(out)} \cap Ends)]]
    /\ UNCHANGED content

\* The child puts the pipes and files in place and executes its program.
Exec(p) ==
    /\ procs[p].state = "forked"
    /\ LET c == procs[p].cmd
           in == IF c.in = "file" THEN NoPipe ELSE procs[p].in
           out == IF c.out = "file" THEN NoPipe ELSE procs[p].out
       IN  \/ c.in = "missing" /\ Ended(p, 1)
           \/ c.in # "missing" /\ c.prog = "absent" /\ Ended(p, 127)
           \/ /\ c.in # "missing" /\ c.prog # "absent"
              /\ procs' = [procs EXCEPT ![p] =
                    [procs[p] EXCEPT !.state = "running", !.in = in, !.out = out,
                        !.holds = (@ \ {Read(procs[p].in), Read(p), Write(p)})
                                  \cup ({Read(in), Write(out)} \cap Ends)]]
    /\ UNCHANGED content

Runs(p, progs) == procs[p].state = "running" /\ procs[p].cmd.prog \in progs

\* read() of cat, and of head, which has enough after one unit (it stands last, and
\* what it writes goes to no pipe).  A terminal or a file is at its end.
Take(p) ==
    LET in == procs[p].in
    IN  /\ Runs(p, {"cat", "head"}) /\ ~procs[p].got
        /\ \/ /\ in \in Pids /\ content[in] > 0
              /\ content' = [content EXCEPT ![in] = @ - 1]
              /\ IF procs[p].cmd.prog = "head" THEN Ended(p, 0)
                 ELSE procs' = [procs EXCEPT ![p].got = TRUE]
           \/ /\ IF in = NoPipe THEN TRUE ELSE content[in] = 0 /\ ~Open(Write(in))
              /\ Ended(p, 0)
              /\ UNCHANGED content

\* write() of yes, which never stops, and of cat: it waits while the pipe is full
\* and is killed by SIGPIPE when nobody can read it.
Put(p) ==
    LET out == procs[p].out
    IN  /\ Runs(p, {"yes"}) \/ (Runs(p, {"cat"}) /\ procs[p].got)
        /\ \/ /\ out \in Pids /\ ~Open(Read(out))
              /\ Ended(p, Killed)
              /\ UNCHANGED content
           \/ /\ out \in Pids /\ Open(Read(out)) /\ content[out] < Capacity
              /\ content' = [content EXCEPT ![out] = @ + 1]
              /\ procs' = [procs EXCEPT ![p].got = FALSE]
           \/ /\ out = NoPipe
              /\ procs' = [procs EXCEPT ![p].got = FALSE]
              /\ UNCHANGED content

\* false exits with 1; a command may also be killed by a signal.
Stop(p) ==
    /\ \/ Runs(p, {"false"}) /\ Ended(p, 1)
       \/ Runs(p, {"killed"}) /\ Ended(p, Killed)
    /\ UNCHANGED content

Child(p) == (Exec(p) \/ Take(p) \/ Put(p) \/ Stop(p)) /\ UNCHANGED <<sh, faults>>

Next == Shell \/ \E p \in Pids : Child(p)

\* A process that can take a step takes one.  Typing a line, leaving and failing
\* system calls may happen or not.
Fairness ==
    /\ WF_vars(MakePipe \/ Fork \/ CloseEnds \/ Wait)
    /\ \A p \in Pids : WF_vars(Child(p))
Spec == Init /\ [][Next]_vars /\ Fairness

-----------------------------------------------------------------------------
(* What holds as long as pipe() and fork() succeed: a failure returns from *)
(* the function with the pipe's ends open and the children unwaited.       *)

\* A command holds its own input and output and no other end of a pipe, and the
\* shell none while it waits: else readers would miss the end of their input and
\* writers would block instead of being killed.
EndsBelongToTheirCommands ==
    faults = 0 =>
        /\ sh.pc \in {"idle", "wait"} => sh.holds = {}
        /\ \A p \in Pids : procs[p].state = "running" =>
               procs[p].holds \subseteq {Read(procs[p].in), Write(procs[p].out)}

\* Back at the prompt every command of the line has been waited for, and the status
\* is the one of the command that stands last, whichever ended last.
ForegroundIsOver ==
    faults = 0 /\ sh.pc = "idle" /\ sh.n > 0 /\ ~InShell(sh.line) /\ ~Background =>
        /\ \A i \in 1..Len(sh.line) : procs[<<sh.n, i>>].state = "reaped"
        /\ sh.last = ExitCode(procs[<<sh.n, Len(sh.line)>>].status)

\* Every command ends, also yes and whatever is in the background: somebody reads
\* what it writes until it is done, or it is told that nobody does.  (There are
\* finitely many: that each ends is that in the end all have.)
CommandsEnd ==
    <>[](faults > 0 \/ \A p \in Pids : procs[p].state \in {"none", "zombie", "reaped"})

\* The shell comes back from every pipeline, whatever fails.
LineReturns == sh.pc = "pipe" ~> sh.pc = "idle"
=============================================================================
