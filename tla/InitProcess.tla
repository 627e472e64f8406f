------------------------------ MODULE InitProcess ------------------------------
(***************************************************************************)
(* init, process 1 (src/src/applets/init.rs): it runs the entries of       *)
(* /etc/inittab stage by stage - sysinit and wait entries one after        *)
(* another, each to its end, then the once entries and the respawn entries *)
(* - and then reaps children for ever, starting respawn entries again.     *)
(* Without entries it keeps a shell on the console.                        *)
(*                                                                         *)
(* Every process whose parent ends becomes a child of init.  wait() reaps  *)
(* children in the order in which they became init's, as the kernel does.  *)
(***************************************************************************)
EXTENDS Integers, SequencesExt, FiniteSetsExt

CONSTANTS Tables,      \* contents of inittab: sequences of actions, by entry
          Pids,        \* process ids, positive; one is given again when it is reaped
          MaxFails     \* bound: forks that fail

Actions == {"sysinit", "wait", "once", "respawn"}
InitAssumption == Tables \subseteq Seq(Actions) /\ Pids \subseteq Nat \ {0}

VARIABLES
    table,     \* inittab
    stage,     \* what init is at: a stage, "loop", or "console"
    at,        \* the entry it is at
    waits,     \* what it is in: waitpid of this process (Anyone: of any), or None
    pidOf,     \* entry.pid: 0, a process, or Failed
    children,  \* init's children, oldest first: [pid, entry, state]
    fails      \* how many forks failed

ivars == <<table, stage, at, waits, pidOf, children, fails>>

None == 0
Anyone == -1       \* waitpid(-1)
Failed == -1    \* what fork returns when it fails
Shell == -1     \* the console's shell and an orphan, as entries
Orphan == 0

Stages == <<"sysinit", "wait", "once", "respawn", "loop">>
Used == {children[i].pid : i \in DOMAIN children}
Free == Pids \ Used
Runs(e) == \E i \in DOMAIN children : children[i].entry = e /\ children[i].state = "runs"
Zombies == {i \in DOMAIN children : children[i].state = "zombie"}

Init ==
    /\ table \in Tables
    /\ stage = IF table = <<>> THEN "console" ELSE "sysinit"
    /\ at = 1 /\ waits = None
    /\ pidOf = [e \in DOMAIN table |-> 0]
    /\ children = <<>> /\ fails = 0

Child(pid, e) == Append(children, [pid |-> pid, entry |-> e, state |-> "runs"])
Reaped(i) == children' = RemoveAt(children, i)

-----------------------------------------------------------------------------
(* The stages                                                              *)

InStage == stage \in Actions /\ waits = None
Mine == at <= Len(table) /\ table[at] = stage

NextEntry ==
    /\ InStage /\ at <= Len(table) /\ ~Mine
    /\ at' = at + 1
    /\ UNCHANGED <<table, stage, waits, pidOf, children, fails>>

NextStage ==
    /\ InStage /\ at > Len(table)
    /\ at' = 1
    /\ stage' = Stages[1 + CHOOSE i \in DOMAIN Stages : Stages[i] = stage]
    /\ UNCHANGED <<table, waits, pidOf, children, fails>>

Waited(action) == action \in {"sysinit", "wait"}

\* run_command: a waited-for process is waited for; a respawn entry's is noted.
Run(pid) ==
    /\ InStage /\ Mine /\ pid \in Free
    /\ children' = Child(pid, at)
    /\ waits' = IF Waited(stage) THEN pid ELSE None
    /\ pidOf' = IF stage = "respawn" THEN [pidOf EXCEPT ![at] = pid] ELSE pidOf
    /\ at' = at + 1
    /\ UNCHANGED <<table, stage, fails>>

\* For want of a process id, or for another reason.
ForkFails ==
    IF Free = {} THEN UNCHANGED fails ELSE fails < MaxFails /\ fails' = fails + 1

\* The entry is passed over; a respawn entry for good.
RunFails ==
    /\ InStage /\ Mine /\ ForkFails
    /\ pidOf' = IF stage = "respawn" THEN [pidOf EXCEPT ![at] = Failed] ELSE pidOf
    /\ at' = at + 1
    /\ UNCHANGED <<table, stage, waits, children>>

\* waitpid(pid): of the other children none is reaped.
WaitPid ==
    /\ waits \in Pids
    /\ \E i \in Zombies : children[i].pid = waits /\ Reaped(i)
    /\ waits' = None
    /\ UNCHANGED <<table, stage, at, pidOf, fails>>

-----------------------------------------------------------------------------
(* The main loop                                                           *)

\* wait(); the entry whose process it was becomes the one to start again.
Wait ==
    /\ stage = "loop" /\ at = 1 /\ Zombies # {}
    /\ LET i == Min(Zombies)
           its == {e \in DOMAIN table : table[e] = "respawn" /\ pidOf[e] = children[i].pid}
       IN  /\ Reaped(i)
           /\ at' = IF its = {} THEN 1 ELSE 1 + Min(its)
    /\ UNCHANGED <<table, stage, waits, pidOf, fails>>

\* (mutant: the new process is not noted)
Respawn_KeepPid(pid) ==
    /\ stage = "loop" /\ at > 1 /\ pid \in Free
    /\ children' = Child(pid, at - 1)
    /\ at' = 1
    /\ UNCHANGED <<table, stage, waits, pidOf, fails>>

\* After a second, the entry's command runs again.
Respawn(pid) ==
    /\ stage = "loop" /\ at > 1 /\ pid \in Free
    /\ children' = Child(pid, at - 1)
    /\ pidOf' = [pidOf EXCEPT ![at - 1] = pid]
    /\ at' = 1
    /\ UNCHANGED <<table, stage, waits, fails>>

RespawnFails ==
    /\ stage = "loop" /\ at > 1 /\ ForkFails
    /\ pidOf' = [pidOf EXCEPT ![at - 1] = Failed]
    /\ at' = 1
    /\ UNCHANGED <<table, stage, waits, children>>

-----------------------------------------------------------------------------
(* Without an inittab                                                      *)

ShellStarts(pid) ==
    /\ stage = "console" /\ waits = None /\ pid \in Free
    /\ children' = Child(pid, Shell)
    /\ waits' = pid
    /\ UNCHANGED <<table, stage, at, pidOf, fails>>

\* The -1 that fork returned is given to waitpid.
ShellFails ==
    /\ stage = "console" /\ waits = None /\ ForkFails
    /\ waits' = Anyone
    /\ UNCHANGED <<table, stage, at, pidOf, children>>

\* waitpid(-1) returns when some child has ended, or at once without children.
WaitAny ==
    /\ waits = Anyone
    /\ \/ children = <<>> /\ UNCHANGED children
       \/ Zombies # {} /\ Reaped(Min(Zombies))
    /\ waits' = None
    /\ UNCHANGED <<table, stage, at, pidOf, fails>>

-----------------------------------------------------------------------------
(* The processes                                                           *)

\* A child ends; one it started itself may live on and become init's.
Ends(i) ==
    /\ children[i].state = "runs"
    /\ LET ended == [children EXCEPT ![i].state = "zombie"]
       IN  \/ children' = ended
           \/ /\ children[i].entry # Orphan /\ ~Runs(Orphan)
              /\ \E pid \in Free :
                   children' = Append(ended, [pid |-> pid, entry |-> Orphan, state |-> "runs"])
    /\ UNCHANGED <<table, stage, at, waits, pidOf, fails>>

InitStep ==
    \/ NextEntry \/ NextStage \/ WaitPid \/ Wait \/ WaitAny
    \/ RunFails \/ RespawnFails \/ ShellFails
    \/ \E pid \in Pids : Run(pid) \/ Respawn(pid) \/ ShellStarts(pid)

Next == InitStep \/ \E i \in DOMAIN children : Ends(i)

\* The kernel runs process 1; other processes may run for ever.
Spec == Init /\ [][Next]_ivars /\ WF_ivars(InitStep)

-----------------------------------------------------------------------------
(* Properties                                                              *)

\* "Run sysinit entries first (wait for each)", "Run wait entries"
\* (init.rs:228): whatever ends or is orphaned meanwhile, while such an entry's
\* process runs no other entry's does.
StagesAreApart ==
    \A e \in DOMAIN table :
        table[e] \in {"sysinit", "wait"} /\ Runs(e) => \A d \in DOMAIN table \ {e} : ~Runs(d)

\* Pids are matched with entries long after they were given, and are given
\* again to other processes: an entry still never has two processes.
OneProcessEach ==
    \A e \in DOMAIN table :
        \A i, j \in DOMAIN children :
            children[i].entry = e /\ children[j].entry = e => i = j

Respawning == {e \in DOMAIN table : table[e] = "respawn"}

\* "Main loop - reap children and respawn as needed" (init.rs:269): a respawn
\* entry that ended runs again, whichever other children end, unless a fork
\* for it fails - once is enough.  (Stated of the last of them.)
EntriesComeBack ==
    LET e == Max(Respawning)
    IN  stage = "loop" /\ Respawning # {} /\ ~Runs(e) ~>
            Respawning # {} /\ (Runs(e) \/ pidOf[e] = Failed)

\* In the loop every child that ended is reaped, orphans included, also those
\* that ended while init was in waitpid for another.  (On the console they
\* stay: waitpid asks for the shell.)  Stated of one pid; all are alike.
ZombiesGo ==
    LET One == \E i \in Zombies : children[i].pid = Min(Pids)
    IN  []<>(stage = "loop" => ~One)

\* Without an inittab the shell comes back, whatever forks fail - unless after
\* a failed one init waits for an orphan that does not end (init.rs:222).
ConsoleComesBack ==
    stage = "console" ~> Runs(Shell) \/ (waits = Anyone /\ children # <<>>)
=============================================================================
