------------------------------ MODULE MC_Applets ------------------------------
(***************************************************************************)
(* The applets that run side by side with others: the shell with its       *)
(* pipelines (ShellPipeline) or a script (ShellScript), init               *)
(* (InitProcess), xargs (Xargs), nbd-client and nbd-server (Nbd), screen    *)
(* (Screen).                                                               *)
(*                                                                         *)
(* A behaviour runs one applet, the others being in one initial state.     *)
(***************************************************************************)
EXTENDS ShellPipeline, Integers, Sequences

CONSTANT MaxRan

VARIABLE part

-----------------------------------------------------------------------------
(* Pipelines.                                                              *)

Cmd(prog) == [prog |-> prog, in |-> "pipe", out |-> "pipe", bg |-> FALSE]
From(c, f) == [c EXCEPT !.in = f]
MCLines ==
    {<<Cmd("yes"), Cmd("cat"), Cmd("head")>>,
     <<Cmd("yes"), Cmd("killed")>>, <<Cmd("yes"), Cmd("absent")>>,
     <<Cmd("yes"), From(Cmd("cat"), "file")>>, <<Cmd("yes"), From(Cmd("head"), "missing")>>,
     <<Cmd("cat"), [Cmd("false") EXCEPT !.bg = TRUE]>>,
     <<Cmd("yes"), [Cmd("head") EXCEPT !.bg = TRUE]>>,
     <<Cmd("false"), [Cmd("cat") EXCEPT !.out = "file"]>>,
     <<Cmd("false")>>, <<From(Cmd("cat"), "missing")>>, <<From(Cmd("cat"), "file")>>}

-----------------------------------------------------------------------------
(* Scripts.                                                                *)

VARIABLES script, mode, stack, last, exiting, code, ran
svars == <<script, mode, stack, last, exiting, code, ran>>

Sh == INSTANCE ShellScript WITH Scripts <- {}, Statuses <- {}
Run == Sh!Word("run")
Words == {Sh!Word(w) : w \in {"true", "false", "run", "leave"}} \cup {Sh!Exit(3)}
Ops == {"and", "or"}
Only(c) == Sh!List(<<c>>, <<>>)
Both(c, op, d) == Sh!List(<<c, d>>, <<op>>)

Conditions == {Only(Run), Both(Run, "and", Run), Both(Sh!Word("true"), "or", Run), Only(Sh!Exit(3))}
Bodies == {Only(c) : c \in Words} \cup {Both(Run, op, c) : op \in Ops, c \in Words}
Around(c, b, e) ==
    {Sh!If(<<c>>, <<b>>, <<>>), Sh!If(<<c>>, <<b>>, <<e>>), Sh!While(<<c>>, <<b>>),
     Sh!Until(<<c>>, <<b>>), Sh!For(2, <<b>>)}
Compounds == UNION {Around(c, b, Only(Sh!Word("leave"))) : c \in Conditions, b \in Bodies}
Nested == UNION {Around(Only(Run), b, Only(Run)) :
                    b \in UNION {Around(Only(Run), Only(c), Only(Sh!Word("leave"))) : c \in Words}}

MCScripts ==
    {<<Sh!List(<<a, b, c>>, <<o, o>>)>> : a \in Words, b \in Words, c \in Words, o \in Ops}
    \cup {<<Sh!List(<<a, Run, Run>>, <<o, p>>)>> : a \in Words, o \in Ops, p \in Ops}
    \cup {<<s, Only(Run)>> : s \in Compounds \cup Nested}

S == INSTANCE ShellScript WITH Scripts <- MCScripts, Statuses <- {0, 1}

NoScript == /\ script = <<>> /\ mode = "stdin" /\ stack = <<>>
            /\ last = 0 /\ exiting = FALSE /\ code = 0 /\ ran = <<>>
NoPipelines ==
    /\ sh = [pc |-> "gone", n |-> 0, line |-> <<>>, i |-> 1, prev |-> NoPipe,
             last |-> 0, holds |-> {}]
    /\ procs = [p \in Pids |-> NoProcess]
    /\ content = [p \in Pids |-> 0] /\ faults = 0

ShellInit == (Init /\ NoScript) \/ (S!Init /\ NoPipelines)
ShellNext == (Next /\ UNCHANGED svars) \/ (S!Next /\ UNCHANGED vars)

-----------------------------------------------------------------------------
VARIABLES table, stage, at, waits, pidOf, children, fails
I == INSTANCE InitProcess WITH
        Tables <- {<<>>, <<"respawn", "sysinit", "wait">>, <<"wait", "sysinit", "once">>,
                   <<"once", "respawn", "respawn">>},
        Pids <- 1..4, MaxFails <- 1
ASSUME InittabsAreAsAssumed == I!InitAssumption
ivars == <<table, stage, at, waits, pidOf, children, fails>>

-----------------------------------------------------------------------------
(* Items of one byte and of more than the budget.                          *)

VARIABLES job, xphase, start, pids, ended, xstatus, given, seen, other, xfails
NoJob == [items |-> <<>>, maxArgs |-> 0, maxProcs |-> 1, replace |-> FALSE, strict |-> FALSE]
Jobs ==
    {[NoJob EXCEPT !.maxArgs = n, !.replace = i] : n \in {0, 1}, i \in BOOLEAN}
    \cup {[NoJob EXCEPT !.items = <<1, 9, 1, 1>>, !.maxArgs = n, !.maxProcs = m] :
            n \in {0, 2}, m \in {0, 2}}
    \cup {[NoJob EXCEPT !.items = <<1, 1, 1>>, !.maxArgs = 1, !.maxProcs = 2],
          [NoJob EXCEPT !.items = <<1, 1>>, !.maxArgs = 1, !.maxProcs = 3],
          [NoJob EXCEPT !.items = <<9, 1>>, !.maxProcs = 2, !.replace = TRUE]}
    \cup {[NoJob EXCEPT !.items = <<1, 1, 9, 1>>, !.maxArgs = n, !.strict = TRUE] : n \in {0, 2, 3}}

X == INSTANCE Xargs WITH
        Statuses <- {0, 124, 126, 255}, MaxBytes <- 6, MaxFails <- 1,
        phase <- xphase, status <- xstatus, fails <- xfails
ASSUME JobsAreAsAssumed == X!XargsAssumption
xvars == <<job, xphase, start, pids, ended, xstatus, given, seen, other, xfails>>

-----------------------------------------------------------------------------
VARIABLES style, size, readOnly, nclient, nserver, zeroes, export, up, down,
          blocks, torn, acked, requests, waiting
N == INSTANCE Nbd WITH
        Conns <- {1, 2}, Sizes <- {0, 1}, MaxRequests <- 3,
        Styles <- {<<"ours", "ours">>} \cup
                  {<<s, "oldstyle">> : s \in {"refuses", "refuses_with_text", "oldstyle"}},
        client <- nclient, server <- nserver
ASSUME ExportsAreAsAssumed == N!NbdAssumption
nvars == <<style, size, readOnly, nclient, nserver, zeroes, export, up, down,
           blocks, torn, acked, requests, waiting>>

-----------------------------------------------------------------------------
(* Screen, for what it eventually does; MC_Tools has typed keys.           *)

VARIABLES shell, manager, events, client, backlog, pc, ours, inbox, outbox, typed, shown,
          written, pty, got

C == INSTANCE Screen WITH
        Users <- {1, 2}, Detacher <- 3, MaxOutput <- 1, MaxKeys <- 0, clientFd <- client,
        seen <- shown
cvars == <<shell, manager, events, client, backlog, pc, ours, inbox, outbox, typed, shown,
           written, pty, got>>

-----------------------------------------------------------------------------
shvars == <<vars, svars>>
AppletsInit ==
    /\ part \in {"shell", "init", "xargs", "nbd", "screen"}
    /\ IF part = "shell" THEN ShellInit ELSE NoPipelines /\ NoScript
    /\ I!Init /\ (part # "init" => table = <<>>)
    /\ X!Init /\ (part # "xargs" => job = NoJob /\ other = "none")
    /\ N!Init /\ (part # "nbd" => style = <<"ours", "ours">> /\ size = 0 /\ readOnly)
    /\ C!ScreenInit

AppletsNext ==
    \/ part = "shell" /\ ShellNext /\ UNCHANGED <<part, ivars, xvars, nvars, cvars>>
    \/ part = "init" /\ I!Next /\ UNCHANGED <<part, shvars, xvars, nvars, cvars>>
    \/ part = "xargs" /\ X!Next /\ UNCHANGED <<part, shvars, ivars, nvars, cvars>>
    \/ part = "screen" /\ C!ScreenNext /\ UNCHANGED <<part, shvars, ivars, xvars, nvars>>
    \/ part = "nbd" /\ N!Next /\ UNCHANGED <<part, shvars, ivars, xvars, cvars>>

\* The fairness of the parts' own specifications; of nbd's, that of the connection which
\* HandshakeEnds and RequestsAreAnswered are about, whatever the other one does.
Pipelines == part = "shell" /\ script = <<>>
AppletsSpec ==
    /\ AppletsInit /\ [][AppletsNext]_<<part, shvars, ivars, xvars, nvars, cvars>>
    /\ WF_vars(Pipelines /\ (MakePipe \/ Fork \/ CloseEnds \/ Wait))
    /\ \A p \in Pids : WF_vars(Pipelines /\ Child(p))
    /\ WF_svars(part = "shell" /\ ~Pipelines /\ S!Next)
    /\ WF_ivars(part = "init" /\ I!InitStep)
    /\ WF_xvars(part = "xargs" /\ X!Step) /\ WF_xvars(part = "xargs" /\ X!CommandEnds)
    /\ WF_nvars(part = "nbd" /\ N!Step(1))
    /\ WF_cvars(part = "screen" /\ (C!Poll \/ C!Accept \/ C!Output \/ C!Input))
    /\ WF_cvars(part = "screen" /\ C!Detach)
    /\ \A c \in {1, 2} : WF_cvars(part = "screen" /\ C!Receive(c))

-----------------------------------------------------------------------------
\* A plain script runs the commands POSIX asks for, in that order, whatever they
\* return (execute_pipeline, execute_if, execute_while, execute_for).
RunsAsPosix == S!RunsAsPosix

\* After exit every loop and block is left, however deep (should_exit).
ExitEnds == S!ExitEnds

\* sh returns the status exit was given, as builtins.rs says.
ExitStatusIsReturned == S!ExitStatusIsReturned

\* init waits for each sysinit and wait entry (init.rs:228), and a respawn entry never
\* has two processes, whatever pids are given again.
InitIsRight == I!StagesAreApart /\ I!OneProcessEach

\* xargs hands every item to one command (compute_batches), runs at most -P at a time
\* (xargs.rs:29), and exits as some command that failed (xargs.rs:33).
XargsIsRight == X!XargsIsRight

\* Those two, which wait for children that are not only their own.
ChildrenAreKept == InitIsRight /\ XargsIsRight

\* Client and server agree on the export and on where the stream is, and reads see what
\* was acknowledged before, on any connection (newstyle_handshake, handle_client).
NbdIsRight == N!HandshakeAgrees /\ N!ReadsSeeAcknowledgedWrites

\* The commands of a line end, a line returns to the shell, and exit ends it
\* (execute.rs:514, control.rs:153).  init's respawn entries run again (init.rs:269),
\* whatever ends is reaped, and without an inittab there is a shell on the console
\* again and again.  xargs returns when its commands do.  The handshake of network
\* block devices ends, and every request is answered.  No client of screen stays when the
\* shell has ended (screen.rs:531), and screen -d detaches whoever is attached
\* (screen.rs:178).
AppletsGoOn ==
    /\ CommandsEnd /\ I!ZombiesGo /\ N!HandshakeEnds /\ N!RequestsAreAnswered
    /\ part = "shell" => LineReturns /\ ExitEnds
    /\ part = "init" => I!EntriesComeBack /\ I!ConsoleComesBack
    /\ part = "xargs" => X!XargsReturns
    /\ part = "screen" => C!ClientsReturn /\ C!DetachDetaches
=============================================================================
