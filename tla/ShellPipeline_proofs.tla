------------------------- MODULE ShellPipeline_proofs -------------------------
(***************************************************************************)
(* Theorems about pipelines, for any lines, any number of them, pipes of   *)
(* any capacity and any number of failures.                                *)
(***************************************************************************)
EXTENDS ShellPipeline, SequenceTheorems, TLAPS

\* Once a line was typed there is one, and inside execute_simple_pipeline the shell
\* is at one of its commands.
AtACommand ==
    /\ sh.n > 0 => sh.line \in Lines
    /\ sh.pc \in {"pipe", "fork", "close", "wait"} => sh.n > 0 /\ sh.i \in 1..Len(sh.line)

\* What the shell holds: the end the next command is to read, and from pipe() to
\* the closing after fork() the new pipe's.
ShellEnds ==
    faults = 0 =>
        /\ sh.pc \in {"idle", "wait", "gone"} => sh.holds = {}
        /\ sh.pc = "pipe" => sh.holds \subseteq {Read(sh.prev)}
        /\ sh.pc \in {"fork", "close"} =>
               sh.holds \subseteq {Read(sh.prev), Read(Self), Write(Self)}
        /\ sh.pc \in {"fork", "close"} /\ IsLast => sh.holds \subseteq {Read(sh.prev)}

\* What a child holds: no more than it closes or uses.
ChildEnds ==
    faults = 0 => \A p \in Pids :
        /\ procs[p].state = "forked" =>
               procs[p].holds \subseteq {Read(procs[p].in), Read(p), Write(p)}
        /\ procs[p].state = "running" =>
               procs[p].holds \subseteq {Read(procs[p].in), Write(procs[p].out)}

\* Who has been waited for.
Waited ==
    faults = 0 /\ sh.pc = "wait" =>
        \A j \in 1..(sh.i - 1) : procs[<<sh.n, j>>].state = "reaped"

IInv == TypeOK /\ AtACommand /\ ShellEnds /\ ChildEnds /\ Waited /\ ForegroundIsOver

-----------------------------------------------------------------------------
(* What a command of the line at hand is. *)

LEMMA CommandOfLine ==
    ASSUME NEW l \in Lines, NEW i \in 1..Len(l)
    PROVE  l[i] \in Command /\ Len(l) \in 1..MaxLen /\ i \in 1..MaxLen
<1>1. l \in Seq(Command) /\ Len(l) \in 1..MaxLen /\ MaxLen \in Nat
  BY PipelineAssumption
<1>2. l[i] \in Command
  BY <1>1, ElementOfSeq
<1> QED BY <1>1, <1>2

LEMMA SelfType ==
    ASSUME IInv, sh.pc \in {"pipe", "fork", "close", "wait"}
    PROVE  /\ Self \in Pids /\ sh.line \in Lines /\ sh.i \in 1..Len(sh.line)
           /\ sh.line[sh.i] \in Command
           /\ sh.n \in 1..MaxLines /\ Len(sh.line) \in 1..MaxLen
           /\ {Read(Self), Write(Self)} \subseteq Ends
<1>1. sh.n \in 1..MaxLines /\ sh.line \in Lines /\ sh.i \in 1..Len(sh.line)
  BY PipelineAssumption DEF IInv, AtACommand, TypeOK
<1>2. sh.line[sh.i] \in Command /\ Len(sh.line) \in 1..MaxLen /\ sh.i \in 1..MaxLen
  BY <1>1, CommandOfLine
<1>3. Self \in Pids
  BY <1>1, <1>2 DEF Self, Pids
<1> QED BY <1>1, <1>2, <1>3 DEF Read, Write, Ends

LEMMA NoProcessType == NoProcess \in Process
BY DEF NoProcess, Process, Command, Programs, Statuses, Ends

LEMMA InitIInv == Init => IInv
<1> SUFFICES ASSUME Init PROVE IInv
  OBVIOUS
<1>1. TypeOK
  BY NoProcessType, PipelineAssumption DEF Init, TypeOK, NoPipe
<1>2. AtACommand /\ ShellEnds /\ Waited /\ ForegroundIsOver
  BY DEF Init, AtACommand, ShellEnds, Waited, ForegroundIsOver
<1>3. \A p \in Pids : procs[p].state = "none"
  BY DEF Init, NoProcess
<1>4. ChildEnds
  BY <1>3 DEF ChildEnds
<1> QED BY <1>1, <1>2, <1>4 DEF IInv

-----------------------------------------------------------------------------
(* A child p takes a step and becomes q, the shell stands still. *)
LEMMA ChildStep ==
    ASSUME IInv, NEW p \in Pids, NEW q \in Process, procs' = [procs EXCEPT ![p] = q],
           content' \in [Pids -> 0..Capacity], UNCHANGED <<sh, faults>>,
           procs[p].state \in {"forked", "running"}, q.state \in {"running", "zombie"},
           faults = 0 /\ q.state = "running" => q.holds \subseteq {Read(q.in), Write(q.out)}
    PROVE  IInv'
<1>1. /\ TypeOK /\ AtACommand /\ ShellEnds /\ ChildEnds /\ Waited /\ ForegroundIsOver
      /\ procs \in [Pids -> Process]
  BY DEF IInv, TypeOK
<1>2. procs' \in [Pids -> Process] /\ procs'[p] = q /\ \A r \in Pids \ {p} : procs'[r] = procs[r]
  BY <1>1
<1>3. TypeOK'
  BY <1>1, <1>2 DEF TypeOK
<1>4. AtACommand' /\ ShellEnds'
  BY <1>1 DEF AtACommand, ShellEnds, Self, IsLast
<1>5. ChildEnds'
  BY <1>1, <1>2 DEF ChildEnds
<1>6. \A r \in Pids : procs[r].state = "reaped" => procs'[r] = procs[r]
  BY <1>2
<1>7. Waited'
  <2> SUFFICES ASSUME faults = 0, sh.pc = "wait", NEW j \in 1..(sh.i - 1)
               PROVE  procs'[<<sh.n, j>>].state = "reaped"
    BY <1>1 DEF Waited
  <2>1. procs[<<sh.n, j>>].state = "reaped"
    BY <1>1 DEF Waited
  <2>2. sh.n \in 1..MaxLines /\ sh.line \in Lines /\ sh.i \in 1..Len(sh.line)
        /\ Len(sh.line) \in 1..MaxLen
    BY SelfType
  <2>3. <<sh.n, j>> \in Pids
    BY <2>2, PipelineAssumption DEF Pids
  <2> QED BY <2>1, <2>3, <1>6
<1>8. ForegroundIsOver'
  <2> SUFFICES ASSUME faults = 0, sh.pc = "idle", sh.n > 0, ~InShell(sh.line), ~Background
               PROVE  /\ \A i \in 1..Len(sh.line) : procs'[<<sh.n, i>>].state = "reaped"
                      /\ sh.last = ExitCode(procs'[<<sh.n, Len(sh.line)>>].status)
    BY <1>1 DEF ForegroundIsOver, Background
  <2>1. /\ \A i \in 1..Len(sh.line) : procs[<<sh.n, i>>].state = "reaped"
        /\ sh.last = ExitCode(procs[<<sh.n, Len(sh.line)>>].status)
    BY <1>1 DEF ForegroundIsOver, Background
  <2>2. sh.n \in 1..MaxLines /\ Len(sh.line) \in 1..MaxLen
    BY <1>1, PipelineAssumption DEF AtACommand, TypeOK
  <2>3. \A i \in 1..Len(sh.line) : <<sh.n, i>> \in Pids /\ procs'[<<sh.n, i>>] = procs[<<sh.n, i>>]
    BY <2>1, <2>2, <1>6, PipelineAssumption DEF Pids
  <2> QED BY <2>1, <2>2, <2>3
<1> QED BY <1>3, <1>4, <1>5, <1>7, <1>8 DEF IInv

\* What a child becomes when it ends.
LEMMA EndedStep ==
    ASSUME IInv, NEW p \in Pids, NEW status \in Statuses, Ended(p, status),
           procs[p].state \in {"forked", "running"},
           content' \in [Pids -> 0..Capacity], UNCHANGED <<sh, faults>>
    PROVE  IInv'
<1> DEFINE q == [procs[p] EXCEPT !.state = "zombie", !.status = status, !.holds = {}]
<1>1. procs \in [Pids -> Process]
  BY DEF IInv, TypeOK
<1>2. q \in Process /\ q.state = "zombie"
  BY <1>1 DEF Process
<1>3. procs' = [procs EXCEPT ![p] = q]
  BY <1>1 DEF Ended
<1> QED BY <1>2, <1>3, ChildStep

LEMMA StatusesHold == {0, 1, 127, Killed} \subseteq Statuses
BY DEF Statuses

LEMMA ExecIInv == ASSUME IInv, NEW p \in Pids, Exec(p), UNCHANGED <<sh, faults>> PROVE IInv'
<1> DEFINE c == procs[p].cmd
           in == IF c.in = "file" THEN NoPipe ELSE procs[p].in
           out == IF c.out = "file" THEN NoPipe ELSE procs[p].out
           held == (procs[p].holds \ {Read(procs[p].in), Read(p), Write(p)})
                   \cup ({Read(in), Write(out)} \cap Ends)
           q == [procs[p] EXCEPT !.state = "running", !.in = in, !.out = out, !.holds = held]
<1>1. procs \in [Pids -> Process] /\ content \in [Pids -> 0..Capacity] /\ procs[p].state = "forked"
      /\ UNCHANGED content
  BY DEF IInv, TypeOK, Exec
<1>2. CASE Ended(p, 1) \/ Ended(p, 127)
  BY <1>1, <1>2, StatusesHold, EndedStep
<1>3. CASE procs' = [procs EXCEPT ![p] = q]
  <2>0. /\ procs[p] \in Process /\ procs[p].holds \in SUBSET Ends
        /\ {in, out} \subseteq Pids \cup {NoPipe} /\ held \in SUBSET Ends
    BY <1>1 DEF Process
  <2> HIDE DEF in, out, held
  <2>1. q \in Process /\ q.state = "running" /\ q.in = in /\ q.out = out /\ q.holds = held
    BY <2>0 DEF Process
  <2>2. faults = 0 => procs[p].holds \subseteq {Read(procs[p].in), Read(p), Write(p)}
    BY <1>1 DEF IInv, ChildEnds
  <2>3. faults = 0 => held \subseteq {Read(in), Write(out)}
    BY <2>2 DEF held
  <2> HIDE DEF q
  <2> QED BY <1>1, <1>3, <2>1, <2>3, ChildStep
<1> QED BY <1>2, <1>3 DEF Exec

\* A running command reads or writes and goes on.
LEMMA GotStep ==
    ASSUME IInv, NEW p \in Pids, NEW g \in BOOLEAN, procs' = [procs EXCEPT ![p].got = g],
           procs[p].state = "running",
           content' \in [Pids -> 0..Capacity], UNCHANGED <<sh, faults>>
    PROVE  IInv'
<1> DEFINE q == [procs[p] EXCEPT !.got = g]
<1>1. procs \in [Pids -> Process] /\ ChildEnds
  BY DEF IInv, TypeOK
<1>2. q \in Process /\ q.state = "running" /\ q.holds = procs[p].holds
      /\ q.in = procs[p].in /\ q.out = procs[p].out
  BY <1>1 DEF Process
<1>3. procs' = [procs EXCEPT ![p] = q]
  BY <1>1
<1> HIDE DEF q
<1>4. faults = 0 => q.holds \subseteq {Read(q.in), Write(q.out)}
  BY <1>1, <1>2 DEF ChildEnds
<1> QED BY <1>2, <1>3, <1>4, ChildStep

LEMMA TakeIInv == ASSUME IInv, NEW p \in Pids, Take(p), UNCHANGED <<sh, faults>> PROVE IInv'
<1>1. content \in [Pids -> 0..Capacity] /\ Capacity \in Nat
  BY PipelineAssumption DEF IInv, TypeOK
<1>2. procs[p].state = "running"
  BY DEF Take, Runs
<1>3. content' \in [Pids -> 0..Capacity]
  BY <1>1 DEF Take
<1>4. Ended(p, 0) \/ procs' = [procs EXCEPT ![p].got = TRUE]
  BY DEF Take
<1> QED BY <1>2, <1>3, <1>4, StatusesHold, EndedStep, GotStep

LEMMA PutIInv == ASSUME IInv, NEW p \in Pids, Put(p), UNCHANGED <<sh, faults>> PROVE IInv'
<1>1. content \in [Pids -> 0..Capacity] /\ Capacity \in Nat
  BY PipelineAssumption DEF IInv, TypeOK
<1>2. procs[p].state = "running"
  BY DEF Put, Runs
<1>3. content' \in [Pids -> 0..Capacity]
  BY <1>1 DEF Put
<1>4. Ended(p, Killed) \/ procs' = [procs EXCEPT ![p].got = FALSE]
  BY DEF Put
<1> QED BY <1>2, <1>3, <1>4, StatusesHold, EndedStep, GotStep

LEMMA ChildIInv == ASSUME IInv, NEW p \in Pids, Child(p) PROVE IInv'
<1>1. UNCHANGED <<sh, faults>>
  BY DEF Child
<1>2. CASE Stop(p)
  <2>1. procs[p].state = "running" /\ (Ended(p, 1) \/ Ended(p, Killed)) /\ UNCHANGED content
    BY <1>2 DEF Stop, Runs
  <2>2. content' \in [Pids -> 0..Capacity]
    BY <2>1 DEF IInv, TypeOK
  <2> QED BY <1>1, <2>1, <2>2, StatusesHold, EndedStep
<1> QED BY <1>1, <1>2, ExecIInv, TakeIInv, PutIInv DEF Child

-----------------------------------------------------------------------------
(* The shell moves on and no child does.  Where the shell is not back at   *)
(* the prompt behind a foreground pipeline, and waits for nobody yet, the  *)
(* statements about waiting say nothing.                                   *)
LEMMA ShellStep ==
    ASSUME IInv, TypeOK', UNCHANGED procs, AtACommand', ShellEnds', faults' = 0 => faults = 0,
           sh'.pc # "wait" \/ sh'.i = 1,
           faults' # 0 \/ sh'.pc # "idle" \/ InShell(sh'.line) \/ sh'.line[Len(sh'.line)].bg
    PROVE  IInv'
<1>1. ChildEnds'
  BY DEF IInv, ChildEnds
<1>2. Waited'
  BY DEF Waited
<1>3. ForegroundIsOver'
  BY DEF ForegroundIsOver, Background
<1> QED BY <1>1, <1>2, <1>3 DEF IInv

\* The shell's own type, for each of its steps.
ShTypes == [pc : {"idle", "pipe", "fork", "close", "wait", "gone"}, n : 0..MaxLines,
            line : Lines \cup {<<>>}, i : 1..MaxLen, prev : Pids \cup {NoPipe},
            last : 0..255, holds : SUBSET Ends]

LEMMA FirstCommand ==
    /\ 1 \in 1..MaxLen
    /\ \A l \in Lines : 1 \in 1..Len(l)
<1>1. MaxLen \in Nat \ {0} /\ \A l \in Lines : Len(l) \in 1..MaxLen
  BY PipelineAssumption
<1> QED BY <1>1

LEMMA TypedIInv == ASSUME IInv, RunInShell \/ Begin PROVE IInv'
<1>0. sh \in ShTypes /\ sh.pc = "idle" /\ sh.n < MaxLines
  BY DEF IInv, TypeOK, ShTypes, RunInShell, Begin
<1>1. sh \in ShTypes /\ sh.pc = "idle" /\ 1 \in 1..MaxLen /\ sh.n + 1 \in 1..MaxLines
      /\ sh.n + 1 \in 0..MaxLines
  BY <1>0, PipelineAssumption, FirstCommand DEF ShTypes
<1>2. UNCHANGED <<procs, content, faults>> /\ (faults = 0 => sh.holds = {})
  BY <1>1 DEF IInv, ShellEnds, RunInShell, Begin
<1>3. CASE RunInShell
  <2>1. PICK line \in Lines :
          /\ InShell(line)
          /\ sh' = [sh EXCEPT !.n = @ + 1, !.line = line, !.last = StatusInShell(line[1])]
    BY <1>3 DEF RunInShell
  <2>2. StatusInShell(line[1]) \in 0..255
    BY <1>1 DEF StatusInShell, ShTypes
  <2>3. sh' \in ShTypes /\ sh'.pc = "idle" /\ sh'.line = line /\ sh'.holds = sh.holds
    BY <1>1, <2>1, <2>2 DEF ShTypes
  <2> QED BY <1>2, <2>1, <2>3, ShellStep DEF IInv, TypeOK, ShTypes, AtACommand, ShellEnds
<1>4. CASE Begin
  <2>1. PICK line \in Lines :
          sh' = [sh EXCEPT !.pc = "pipe", !.n = @ + 1, !.line = line, !.i = 1, !.prev = NoPipe]
    BY <1>4 DEF Begin
  <2>2. sh' \in ShTypes /\ sh'.pc = "pipe" /\ sh'.line = line /\ sh'.holds = sh.holds
        /\ sh'.i = 1 /\ sh'.n \in 1..MaxLines
    BY <1>1, <2>1 DEF ShTypes
  <2>3. 1 \in 1..Len(line)
    BY FirstCommand
  <2> QED BY <1>2, <2>1, <2>2, <2>3, ShellStep DEF IInv, TypeOK, ShTypes, AtACommand, ShellEnds
<1> QED BY <1>3, <1>4

LEMMA MakePipeIInv == ASSUME IInv, MakePipe PROVE IInv'
<1>1. sh \in ShTypes /\ sh.pc = "pipe" /\ UNCHANGED <<procs, content, faults>>
  BY DEF IInv, TypeOK, ShTypes, MakePipe
<1>2. {Read(Self), Write(Self)} \subseteq Ends /\ sh.line \in Lines /\ sh.n > 0
      /\ sh.i \in 1..Len(sh.line)
  BY <1>1, SelfType
<1>3. faults = 0 => sh.holds \subseteq {Read(sh.prev)}
  BY <1>1 DEF IInv, ShellEnds
<1> DEFINE h == IF IsLast THEN sh.holds ELSE sh.holds \cup {Read(Self), Write(Self)}
<1>4. h \in SUBSET Ends /\ sh' = [sh EXCEPT !.pc = "fork", !.holds = h]
  BY <1>1, <1>2 DEF MakePipe, ShTypes
<1> HIDE DEF h
<1>5. sh' \in ShTypes /\ sh'.pc = "fork" /\ sh'.holds = h /\ sh'.prev = sh.prev
      /\ sh'.n = sh.n /\ sh'.i = sh.i /\ sh'.line = sh.line
  BY <1>1, <1>4 DEF ShTypes
<1>6. Self' = Self /\ IsLast' = IsLast
  BY <1>5 DEF Self, IsLast
<1>7. ShellEnds'
  BY <1>1, <1>3, <1>5, <1>6 DEF ShellEnds, h
<1> QED BY <1>1, <1>2, <1>5, <1>7, ShellStep DEF IInv, TypeOK, ShTypes, AtACommand

LEMMA FailsIInv == ASSUME IInv, Fails PROVE IInv'
<1>1. sh \in ShTypes /\ faults \in 0..MaxFaults /\ MaxFaults \in Nat
  BY PipelineAssumption DEF IInv, TypeOK, ShTypes
<1>2. /\ UNCHANGED <<procs, content>> /\ faults' \in 0..MaxFaults /\ faults' # 0
      /\ sh' = [sh EXCEPT !.pc = "idle"]
  BY <1>1 DEF Fails
<1>3. sh' \in ShTypes /\ sh'.pc = "idle" /\ sh'.n = sh.n /\ sh'.line = sh.line
  BY <1>1, <1>2 DEF ShTypes
<1> QED BY <1>2, <1>3, ShellStep DEF IInv, TypeOK, ShTypes, AtACommand, ShellEnds

LEMMA LeaveIInv == ASSUME IInv, Leave PROVE IInv'
<1>1. sh \in ShTypes /\ UNCHANGED <<procs, content, faults>>
      /\ sh' = [sh EXCEPT !.pc = "gone", !.holds = {}]
  BY DEF IInv, TypeOK, ShTypes, Leave
<1>2. sh' \in ShTypes /\ sh'.pc = "gone" /\ sh'.holds = {} /\ sh'.n = sh.n /\ sh'.line = sh.line
  BY <1>1 DEF ShTypes
<1> QED BY <1>1, <1>2, ShellStep DEF IInv, TypeOK, ShTypes, AtACommand, ShellEnds

LEMMA CloseEndsIInv == ASSUME IInv, CloseEnds PROVE IInv'
<1>1. sh \in ShTypes /\ sh.pc = "close" /\ UNCHANGED <<procs, content, faults>>
  BY DEF IInv, TypeOK, ShTypes, CloseEnds
<1>2. /\ Self \in Pids /\ sh.line \in Lines /\ sh.n > 0 /\ sh.i \in 1..Len(sh.line)
      /\ Len(sh.line) \in 1..MaxLen
  BY <1>1, SelfType
<1>3. faults = 0 => /\ sh.holds \subseteq {Read(sh.prev), Read(Self), Write(Self)}
                    /\ IsLast => sh.holds \subseteq {Read(sh.prev)}
  BY <1>1 DEF IInv, ShellEnds
<1> DEFINE h == sh.holds \ {Read(sh.prev), Write(Self)}
<1>4. h \in SUBSET Ends /\ (faults = 0 => h \subseteq {Read(Self)} /\ (IsLast => h = {}))
  BY <1>1, <1>3 DEF ShTypes
<1>5. CASE IsLast
  <2>1. PICK pc \in {"idle", "wait"} :
          /\ sh' = [sh EXCEPT !.holds = h, !.i = 1, !.pc = pc, !.prev = sh.prev]
          /\ pc = "idle" => Background
    BY <1>5, <1>1 DEF CloseEnds
  <2> HIDE DEF h
  <2>2. sh' \in ShTypes /\ sh'.pc = pc /\ sh'.holds = h /\ sh'.i = 1
        /\ sh'.n = sh.n /\ sh'.line = sh.line
    BY <1>1, <1>2, <1>4, <2>1, FirstCommand DEF ShTypes
  <2>3. ShellEnds'
    BY <1>1, <1>4, <1>5, <2>2 DEF ShellEnds
  <2>4. AtACommand'
    BY <1>2, <2>2, FirstCommand DEF AtACommand
  <2> QED BY <1>1, <2>1, <2>2, <2>3, <2>4, ShellStep DEF IInv, TypeOK, ShTypes, Background
<1>6. CASE ~IsLast
  <2>1. sh' = [sh EXCEPT !.holds = h, !.prev = Self, !.i = sh.i + 1, !.pc = "pipe"]
    BY <1>6, <1>1 DEF CloseEnds
  <2>2. sh.i + 1 \in 1..Len(sh.line) /\ sh.i + 1 \in 1..MaxLen
    BY <1>2, <1>6, PipelineAssumption DEF IsLast
  <2> HIDE DEF h
  <2>3. sh' \in ShTypes /\ sh'.pc = "pipe" /\ sh'.holds = h /\ sh'.i = sh.i + 1
        /\ sh'.n = sh.n /\ sh'.line = sh.line /\ sh'.prev = Self
    BY <1>1, <1>2, <1>4, <2>1, <2>2 DEF ShTypes
  <2>4. ShellEnds'
    BY <1>1, <1>4, <2>3 DEF ShellEnds
  <2>5. AtACommand'
    BY <1>2, <2>2, <2>3 DEF AtACommand
  <2> QED BY <1>1, <2>3, <2>4, <2>5, ShellStep DEF IInv, TypeOK, ShTypes
<1> QED BY <1>5, <1>6

\* The child starts with what the shell holds, which is what it will close or use.
LEMMA ForkIInv == ASSUME IInv, Fork PROVE IInv'
<1> DEFINE q == [NoProcess EXCEPT !.state = "forked", !.cmd = sh.line[sh.i],
                                  !.holds = sh.holds, !.in = sh.prev,
                                  !.out = IF IsLast THEN NoPipe ELSE Self]
<1>1. /\ sh \in ShTypes /\ sh.pc = "fork" /\ UNCHANGED <<content, faults>>
      /\ sh' = [sh EXCEPT !.pc = "close"] /\ procs' = [procs EXCEPT ![Self] = q]
      /\ procs \in [Pids -> Process]
  BY DEF IInv, TypeOK, ShTypes, Fork
<1>2. /\ Self \in Pids /\ sh.line[sh.i] \in Command
      /\ sh.line \in Lines /\ sh.n > 0 /\ sh.i \in 1..Len(sh.line)
  BY <1>1, SelfType
<1>3. /\ q \in Process /\ q.state = "forked" /\ q.holds = sh.holds /\ q.in = sh.prev
  BY <1>1, <1>2, NoProcessType DEF Process, ShTypes
<1> HIDE DEF q
<1>4. procs' \in [Pids -> Process] /\ procs'[Self] = q
      /\ \A p \in Pids \ {Self} : procs'[p] = procs[p]
  BY <1>1, <1>2, <1>3
<1>5. sh' \in ShTypes /\ sh'.pc = "close" /\ sh'.holds = sh.holds /\ sh'.prev = sh.prev
      /\ sh'.n = sh.n /\ sh'.i = sh.i /\ sh'.line = sh.line
  BY <1>1 DEF ShTypes
<1>6. TypeOK' /\ AtACommand'
  BY <1>1, <1>2, <1>4, <1>5 DEF IInv, TypeOK, ShTypes, AtACommand
<1>7. faults = 0 => /\ sh.holds \subseteq {Read(sh.prev), Read(Self), Write(Self)}
                    /\ IsLast => sh.holds \subseteq {Read(sh.prev)}
  BY <1>1 DEF IInv, ShellEnds
<1>8. ShellEnds'
  <2>1. Self' = Self /\ IsLast' = IsLast
    BY <1>5 DEF Self, IsLast
  <2> QED BY <1>1, <1>5, <1>7, <2>1 DEF ShellEnds
<1>9. ChildEnds'
  <2> SUFFICES ASSUME faults = 0, NEW p \in Pids
               PROVE  /\ procs'[p].state = "forked" =>
                           procs'[p].holds \subseteq {Read(procs'[p].in), Read(p), Write(p)}
                      /\ procs'[p].state = "running" =>
                           procs'[p].holds \subseteq {Read(procs'[p].in), Write(procs'[p].out)}
    BY <1>1 DEF ChildEnds
  <2>1. CASE p = Self
    BY <2>1, <1>3, <1>4, <1>7
  <2>2. CASE p # Self
    BY <2>2, <1>4 DEF IInv, ChildEnds
  <2> QED BY <2>1, <2>2
<1> QED BY <1>5, <1>6, <1>8, <1>9 DEF IInv, Waited, ForegroundIsOver

\* One more command has been waited for; after the last one, all of them.
LEMMA WaitIInv == ASSUME IInv, Wait PROVE IInv'
<1> DEFINE q == [procs[Self] EXCEPT !.state = "reaped"]
           j == IF IsLast THEN 1 ELSE sh.i + 1
           pc == IF IsLast THEN "idle" ELSE "wait"
           s == ExitCode(procs[Self].status)
<1>1. /\ sh \in ShTypes /\ sh.pc = "wait" /\ UNCHANGED <<content, faults>>
      /\ sh' = [sh EXCEPT !.last = s, !.i = j, !.pc = pc]
      /\ procs' = [procs EXCEPT ![Self].state = "reaped"]
      /\ procs \in [Pids -> Process]
  BY DEF IInv, TypeOK, ShTypes, Wait
<1>2. /\ Self \in Pids /\ sh.line \in Lines /\ sh.n \in 1..MaxLines /\ sh.i \in 1..Len(sh.line)
      /\ Len(sh.line) \in 1..MaxLen
  BY <1>1, SelfType
<1>3. q \in Process /\ q.state = "reaped" /\ q.status = procs[Self].status
  BY <1>1, <1>2 DEF Process
<1>4. procs' \in [Pids -> Process] /\ procs'[Self] = q
      /\ \A p \in Pids \ {Self} : procs'[p] = procs[p]
  BY <1>1, <1>2, <1>3
<1>5. s \in 0..255 /\ j \in 1..MaxLen /\ j \in 1..Len(sh.line)
  <2>1. procs[Self].status \in Statuses
    BY <1>1, <1>2 DEF Process
  <2>2. s \in 0..255
    BY <2>1 DEF ExitCode, Statuses, Killed
  <2>3. j \in 1..Len(sh.line)
    BY <1>2, FirstCommand, PipelineAssumption DEF IsLast
  <2> QED BY <1>2, <2>2, <2>3, PipelineAssumption
<1> HIDE DEF q, s, j
<1>6. sh' \in ShTypes /\ sh'.pc = pc /\ sh'.i = j /\ sh'.last = s
      /\ sh'.n = sh.n /\ sh'.line = sh.line /\ sh'.holds = sh.holds
  <2>1. pc \in {"idle", "wait"}
    OBVIOUS
  <2> HIDE DEF pc
  <2> QED BY <1>1, <1>5, <2>1 DEF ShTypes
<1>7. TypeOK' /\ AtACommand'
  BY <1>1, <1>2, <1>4, <1>5, <1>6 DEF IInv, TypeOK, ShTypes, AtACommand
<1>8. ShellEnds'
  BY <1>1, <1>6 DEF IInv, ShellEnds
<1>9. ChildEnds'
  <2>1. \A p \in Pids : procs'[p].state \in {"forked", "running"} => procs'[p] = procs[p]
    BY <1>3, <1>4
  <2> QED BY <1>1, <2>1 DEF IInv, ChildEnds
<1>10. ASSUME faults = 0, NEW k \in 1..sh.i PROVE procs'[<<sh.n, k>>].state = "reaped"
  <2>1. <<sh.n, k>> \in Pids
    BY <1>2, PipelineAssumption DEF Pids
  <2>2. CASE k = sh.i
    BY <2>2, <1>3, <1>4 DEF Self
  <2>3. CASE k # sh.i
    <3>1. k \in 1..(sh.i - 1)
      BY <2>3, <1>2
    <3>2. procs[<<sh.n, k>>].state = "reaped"
      BY <3>1, <1>1, <1>10 DEF IInv, Waited
    <3> QED BY <3>2, <2>1, <1>3, <1>4
  <2> QED BY <2>2, <2>3
<1>11. Waited'
  <2> SUFFICES ASSUME faults = 0, ~IsLast, NEW k \in 1..(sh'.i - 1)
               PROVE  procs'[<<sh.n, k>>].state = "reaped"
    BY <1>1, <1>6 DEF Waited
  <2>1. k \in 1..sh.i
    BY <1>2, <1>6, PipelineAssumption DEF j
  <2> QED BY <1>10, <2>1
<1>12. ForegroundIsOver'
  <2> SUFFICES ASSUME faults = 0, IsLast
               PROVE  /\ \A k \in 1..Len(sh.line) : procs'[<<sh.n, k>>].state = "reaped"
                      /\ s = ExitCode(procs'[<<sh.n, Len(sh.line)>>].status)
    BY <1>1, <1>6 DEF ForegroundIsOver
  <2>1. sh.i = Len(sh.line) /\ <<sh.n, Len(sh.line)>> = Self
    BY DEF IsLast, Self
  <2> QED BY <1>3, <1>4, <1>10, <2>1 DEF s
<1> QED BY <1>7, <1>8, <1>9, <1>11, <1>12 DEF IInv

-----------------------------------------------------------------------------
LEMMA NextIInv == IInv /\ [Next]_vars => IInv'
<1> SUFFICES ASSUME IInv, [Next]_vars PROVE IInv'
  OBVIOUS
<1>1. CASE Shell
  BY <1>1, TypedIInv, MakePipeIInv, ForkIInv, FailsIInv, CloseEndsIInv, WaitIInv, LeaveIInv DEF Shell
<1>2. CASE \E p \in Pids : Child(p)
  BY <1>2, ChildIInv
<1>3. CASE UNCHANGED vars
  BY <1>3 DEF vars, IInv, TypeOK, AtACommand, ShellEnds, ChildEnds, Waited, ForegroundIsOver,
              Self, IsLast, Background
<1> QED BY <1>1, <1>2, <1>3 DEF Next

LEMMA SpecIInv == Spec => []IInv
BY InitIInv, NextIInv, PTL DEF Spec

\* The type invariant (Shell and its children).
THEOREM TypeCorrect == Spec => []TypeOK
<1>1. IInv => TypeOK
  BY DEF IInv
<1> QED BY <1>1, SpecIInv, PTL

\* The closing of pipe ends in execute_simple_pipeline and its children is right for
\* pipelines of any length: no command keeps an end that is not its input or output,
\* and the shell none.
THEOREM NobodyKeepsAnEnd == Spec => []EndsBelongToTheirCommands
<1>1. IInv => EndsBelongToTheirCommands
  BY DEF IInv, ShellEnds, ChildEnds, EndsBelongToTheirCommands
<1> QED BY <1>1, SpecIInv, PTL

\* waitpid is called for every command of a foreground pipeline, and the status is
\* the last one's, in whatever order they end.
THEOREM EverybodyIsWaitedFor == Spec => []ForegroundIsOver
<1>1. IInv => ForegroundIsOver
  BY DEF IInv
<1> QED BY <1>1, SpecIInv, PTL
=============================================================================
