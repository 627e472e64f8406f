---------------------------- MODULE Processes_proofs ----------------------------
(***************************************************************************)
(* Theorems about the two applets that keep processes and wait for them.   *)
(*                                                                         *)
(* init (InitProcess): stages are apart and an entry has at most one       *)
(* process, for inittabs of any length, any number of processes, orphans   *)
(* and pids that are given again, and any number of forks that fail.       *)
(*                                                                         *)
(* xargs (Xargs): for any items and options, and commands that end in any  *)
(* order, also while other children are reaped.                            *)
(***************************************************************************)
EXTENDS InitProcess, SequenceTheorems, FiniteSetTheorems, WellFoundedInduction, TLAPS

CONSTANTS Jobs, Statuses, MaxBytes, MaxForkFails
VARIABLES job, phase, start, pids, ended, status, given, seen, other, forkFails

X == INSTANCE Xargs WITH fails <- forkFails, MaxFails <- MaxForkFails

-----------------------------------------------------------------------------
(* init: the invariant.                                                    *)

Entries == Int
Process == [pid : Pids, entry : Entries, state : {"runs", "zombie"}]
Kids == {children[i] : i \in DOMAIN children}

Typed ==
    /\ table \in Seq(Actions) /\ stage \in Actions \cup {"loop", "console"}
    /\ at \in Nat \ {0} /\ waits \in Pids \cup {None, Anyone}
    /\ pidOf \in [DOMAIN table -> Int] /\ children \in Seq(Process)

\* The stages whose entries have all been started.
Past == CASE stage = "sysinit" -> {}
          [] stage = "wait" -> {"sysinit"}
          [] stage = "once" -> {"sysinit", "wait"}
          [] stage = "respawn" -> {"sysinit", "wait", "once"}
          [] OTHER -> Actions
Begun(e) == table[e] \in Past \/ (table[e] = stage /\ e < at)

\* Children have pids of their own, and are of entries that were started.
Told == \A i, j \in DOMAIN children : children[i].pid = children[j].pid => i = j
Started == \A c \in Kids : c.entry \in DOMAIN table => Begun(c.entry)
\* init is in waitpid exactly for the sysinit or wait entry that runs.
Attended == \A c \in Kids : c.entry \in DOMAIN table /\ Waited(table[c.entry]) /\ c.state = "runs"
                => waits = c.pid
InWaitpid == /\ waits \in Pids => Waited(stage) \/ stage = "console"
             /\ waits = Anyone => stage = "console"
\* A respawn entry has the pid of its child, and none when it is to run again.
Noted == \A c \in Kids : c.entry \in DOMAIN table /\ table[c.entry] = "respawn"
             => pidOf[c.entry] = c.pid
Gone == stage = "loop" /\ at > 1 =>
            /\ at - 1 \in DOMAIN table /\ table[at - 1] = "respawn"
            /\ \A c \in Kids : c.entry # at - 1
Each == \A c, d \in Kids : c.entry \in DOMAIN table /\ c.entry = d.entry => c = d
OnConsole == stage = "console" => table = <<>>

IInv == /\ Typed /\ Told /\ Started /\ Attended /\ InWaitpid /\ Noted /\ Gone /\ Each
        /\ OnConsole

-----------------------------------------------------------------------------
(* The list of children.                                                   *)

LEMMA RemoveAtProperties ==
    ASSUME NEW S, NEW s \in Seq(S), NEW i \in DOMAIN s
    PROVE  /\ RemoveAt(s, i) \in Seq(S) /\ Len(RemoveAt(s, i)) = Len(s) - 1
           /\ \A j \in 1..(Len(s) - 1) :
                 RemoveAt(s, i)[j] = s[IF j < i THEN j ELSE j + 1]
<1> DEFINE f == SubSeq(s, 1, i - 1)
           b == SubSeq(s, i + 1, Len(s))
<1>1. Len(s) \in Nat /\ DOMAIN s = 1..Len(s) /\ i \in 1..Len(s)
  BY LenProperties
<1>2. f \in Seq(S) /\ Len(f) = i - 1 /\ \A j \in 1..(i - 1) : f[j] = s[j]
  <2>1. \A j \in 1..(i - 1) : s[j] \in S
    BY <1>1, ElementOfSeq
  <2> QED BY <1>1, <2>1, SubSeqProperties
<1>3. b \in Seq(S) /\ Len(b) = Len(s) - i /\ \A j \in 1..(Len(s) - i) : b[j] = s[i + j]
  <2>1. \A j \in (i + 1)..Len(s) : s[j] \in S
    BY <1>1, ElementOfSeq
  <2> QED BY <1>1, <2>1, SubSeqProperties
<1>4. RemoveAt(s, i) = f \o b
  BY DEF RemoveAt
<1> HIDE DEF f, b
<1>5. f \o b \in Seq(S) /\ Len(f \o b) = Len(s) - 1
      /\ \A j \in 1..(Len(s) - 1) : (f \o b)[j] = IF j <= i - 1 THEN f[j] ELSE b[j - (i - 1)]
  <2>1. /\ f \o b \in Seq(S) /\ Len(f \o b) = Len(f) + Len(b)
        /\ \A j \in 1..(Len(f) + Len(b)) : (f \o b)[j] = IF j <= Len(f) THEN f[j] ELSE b[j - Len(f)]
    BY <1>2, <1>3, ConcatProperties
  <2>2. Len(f) + Len(b) = Len(s) - 1
    BY <1>1, <1>2, <1>3
  <2> QED BY <1>2, <2>1, <2>2
<1>6. ASSUME NEW j \in 1..(Len(s) - 1)
      PROVE  (f \o b)[j] = s[IF j < i THEN j ELSE j + 1]
  <2>1. CASE j < i
    <3>1. j <= i - 1 /\ j \in 1..(i - 1)
      BY <1>1, <2>1
    <3> QED BY <1>2, <1>5, <2>1, <3>1
  <2>2. CASE j >= i
    <3>1. (f \o b)[j] = b[j - (i - 1)] /\ j - (i - 1) \in 1..(Len(s) - i)
      <4>1. ~(j <= i - 1) /\ j - (i - 1) \in 1..(Len(s) - i)
        BY <1>1, <2>2
      <4> QED BY <1>5, <4>1
    <3>2. b[j - (i - 1)] = s[i + (j - (i - 1))] /\ i + (j - (i - 1)) = j + 1
      BY <1>1, <1>3, <3>1
    <3> QED BY <2>2, <3>1, <3>2, <1>1
  <2>3. j < i \/ j >= i
    BY <1>1
  <2> QED BY <2>1, <2>2, <2>3
<1> QED BY <1>4, <1>5, <1>6

\* One that is reaped is no child any more; the others are as they were.
LEMMA ReapedProperties ==
    ASSUME children \in Seq(Process), Told, NEW i \in DOMAIN children, Reaped(i)
    PROVE  children' \in Seq(Process) /\ Told' /\ Kids' = Kids \ {children[i]}
<1> DEFINE n == Len(children)
           k(j) == IF j < i THEN j ELSE j + 1
<1>1. n \in Nat /\ DOMAIN children = 1..n /\ i \in 1..n
  BY LenProperties
<1>2. children' \in Seq(Process) /\ Len(children') = n - 1
      /\ \A j \in 1..(n - 1) : children'[j] = children[k(j)]
  BY RemoveAtProperties DEF Reaped
<1>3. DOMAIN children' = 1..(n - 1)
  BY <1>1, <1>2, LenProperties
<1>4. \A j \in 1..(n - 1) : k(j) \in 1..n /\ k(j) # i
  BY <1>1
<1>5. \A j \in 1..n : j # i => \E m \in 1..(n - 1) : k(m) = j
  <2> SUFFICES ASSUME NEW j \in 1..n, j # i PROVE \E m \in 1..(n - 1) : k(m) = j
    OBVIOUS
  <2>1. CASE j < i
    BY <1>1, <2>1
  <2>2. CASE j > i
    <3>1. j - 1 \in 1..(n - 1) /\ k(j - 1) = j
      BY <1>1, <2>2
    <3> QED BY <3>1
  <2> QED BY <1>1, <2>1, <2>2
<1>6. \A j, m \in 1..(n - 1) : k(j) = k(m) => j = m
  BY <1>1
<1> HIDE DEF k, n
<1>7. Told'
  BY <1>1, <1>2, <1>3, <1>4, <1>6 DEF Told
<1>8. \A j \in 1..n : j # i => children[j] # children[i]
  BY <1>1 DEF Told
<1>9. Kids' = {children'[j] : j \in 1..(n - 1)}
  BY <1>3 DEF Kids
<1>10. Kids' \subseteq Kids \ {children[i]}
  BY <1>1, <1>2, <1>4, <1>8, <1>9 DEF Kids
<1>11. Kids \ {children[i]} \subseteq Kids'
  BY <1>1, <1>2, <1>5, <1>9 DEF Kids
<1> QED BY <1>2, <1>7, <1>10, <1>11

LEMMA ChildProperties ==
    ASSUME children \in Seq(Process), Told, NEW pid \in Free, NEW e \in Int,
           children' = Child(pid, e)
    PROVE  /\ children' \in Seq(Process) /\ Told'
           /\ Kids' = Kids \cup {[pid |-> pid, entry |-> e, state |-> "runs"]}
<1> DEFINE n == Len(children)
           c == [pid |-> pid, entry |-> e, state |-> "runs"]
<1>1. n \in Nat /\ DOMAIN children = 1..n
  BY LenProperties
<1>2. c \in Process /\ c.pid = pid
  BY DEF Process, Free, Entries
<1> HIDE DEF c
<1>3. children' = Append(children, c)
  BY DEF Child, c
<1>4. children' \in Seq(Process) /\ Len(children') = n + 1 /\ children'[n + 1] = c
      /\ \A j \in 1..n : children'[j] = children[j]
  BY <1>1, <1>2, <1>3
<1>5. DOMAIN children' = 1..(n + 1)
  BY <1>1, <1>4, LenProperties
<1>6. \A j \in 1..n : children[j].pid # pid
  BY <1>1 DEF Free, Used
<1> HIDE DEF n
<1>7. Told'
  BY <1>1, <1>2, <1>4, <1>5, <1>6 DEF Told
<1>8. Kids' = {children'[j] : j \in 1..(n + 1)} /\ Kids = {children[j] : j \in 1..n}
  BY <1>1, <1>5 DEF Kids
<1>9. Kids' = Kids \cup {c}
  BY <1>1, <1>4, <1>8
<1> QED BY <1>4, <1>7, <1>9 DEF c

\* An end changes the state of one child; it may leave an orphan.
LEMMA EndsProperties ==
    ASSUME children \in Seq(Process), Told, NEW i \in DOMAIN children, Ends(i)
    PROVE  /\ children' \in Seq(Process) /\ Told'
           /\ \A c \in Kids' :
                 \/ c.entry = Orphan
                 \/ \E d \in Kids : c.pid = d.pid /\ c.entry = d.entry
                                    /\ (c.state = "runs" => d.state = "runs")
<1> DEFINE n == Len(children)
           zombied == [children EXCEPT ![i].state = "zombie"]
<1>1. n \in Nat /\ DOMAIN children = 1..n /\ i \in 1..n
  BY LenProperties
<1>2. \A j \in 1..n : children[j] \in Process
  BY <1>1, ElementOfSeq
<1>3. zombied \in Seq(Process) /\ Len(zombied) = n /\ DOMAIN zombied = 1..n
  <2>1. [children[i] EXCEPT !.state = "zombie"] \in Process
    BY <1>1, <1>2 DEF Process
  <2>2. zombied = [children EXCEPT ![i] = [children[i] EXCEPT !.state = "zombie"]]
    OBVIOUS
  <2> QED BY <1>1, <2>1, <2>2, ExceptSeq, LenProperties
<1>4. \A j \in 1..n : zombied[j].pid = children[j].pid /\ zombied[j].entry = children[j].entry
                      /\ (zombied[j].state = "runs" => children[j].state = "runs")
  <2> SUFFICES ASSUME NEW j \in 1..n
               PROVE  zombied[j].pid = children[j].pid /\ zombied[j].entry = children[j].entry
                      /\ (zombied[j].state = "runs" => children[j].state = "runs")
    OBVIOUS
  <2>1. CASE j = i
    <3>1. zombied[j] = [children[i] EXCEPT !.state = "zombie"]
      BY <1>1, <2>1
    <3> QED BY <1>1, <1>2, <2>1, <3>1 DEF Process
  <2>2. CASE j # i
    <3>1. zombied[j] = children[j]
      BY <1>1, <2>2
    <3> QED BY <3>1
  <2> QED BY <2>1, <2>2
<1> HIDE DEF zombied, n
<1>5. CASE children' = zombied
  <2>1. Told'
    BY <1>1, <1>3, <1>4, <1>5 DEF Told
  <2>2. \A c \in Kids' : \E j \in 1..n : c = zombied[j]
    BY <1>3, <1>5 DEF Kids
  <2>3. \A j \in 1..n : children[j] \in Kids
    BY <1>1 DEF Kids
  <2> QED BY <1>3, <1>4, <1>5, <2>1, <2>2, <2>3
<1>6. ASSUME NEW pid \in Free,
             children' = Append(zombied, [pid |-> pid, entry |-> Orphan, state |-> "runs"])
      PROVE  /\ children' \in Seq(Process) /\ Told'
             /\ \A c \in Kids' :
                   \/ c.entry = Orphan
                   \/ \E d \in Kids : c.pid = d.pid /\ c.entry = d.entry
                                      /\ (c.state = "runs" => d.state = "runs")
  <2> DEFINE o == [pid |-> pid, entry |-> Orphan, state |-> "runs"]
  <2>1. o \in Process /\ o.pid = pid /\ o.entry = Orphan
    BY DEF Process, Free, Entries, Orphan
  <2>2. children' = Append(zombied, o)
    BY <1>6
  <2> HIDE DEF o
  <2>3. children' \in Seq(Process) /\ Len(children') = n + 1 /\ children'[n + 1] = o
        /\ \A j \in 1..n : children'[j] = zombied[j]
    BY <1>1, <1>3, <2>1, <2>2
  <2>4. DOMAIN children' = 1..(n + 1)
    BY <1>1, <2>3, LenProperties
  <2>5. \A j \in 1..n : zombied[j].pid # pid
    BY <1>1, <1>4 DEF Free, Used
  <2>6. Told'
    BY <1>1, <1>4, <2>1, <2>3, <2>4, <2>5 DEF Told
  <2>7. \A c \in Kids' : c = o \/ \E j \in 1..n : c = zombied[j]
    <3>1. \A c \in Kids' : \E j \in 1..(n + 1) : c = children'[j]
      BY <2>4 DEF Kids
    <3>2. \A j \in 1..(n + 1) : j = n + 1 \/ j \in 1..n
      BY <1>1
    <3> QED BY <2>3, <3>1, <3>2
  <2>8. \A j \in 1..n : children[j] \in Kids
    BY <1>1 DEF Kids
  <2> QED BY <1>4, <2>1, <2>3, <2>6, <2>7, <2>8
<1> QED BY <1>5, <1>6 DEF Ends, zombied

-----------------------------------------------------------------------------
(* Every step keeps the invariant.                                         *)

\* Children that are of the old ones, or orphans, disturb nothing.
-----------------------------------------------------------------------------
(* What the steps have in common.                                          *)

LEMMA TableFacts ==
    ASSUME InitAssumption, IInv
    PROVE  /\ Len(table) \in Nat /\ DOMAIN table = 1..Len(table)
           /\ \A e \in DOMAIN table : table[e] \in Actions
           /\ None \notin Pids /\ Anyone \notin Pids /\ Pids \subseteq Nat \ {0}
           /\ \A c \in Kids : c \in Process
<1>1. Len(table) \in Nat /\ DOMAIN table = 1..Len(table) /\ \A e \in DOMAIN table : table[e] \in Actions
  BY LenProperties, ElementOfSeq DEF IInv, Typed
<1>2. \A i \in DOMAIN children : children[i] \in Process
  BY LenProperties, ElementOfSeq DEF IInv, Typed
<1> QED BY <1>1, <1>2 DEF InitAssumption, None, Anyone, Kids

\* In the loop every entry has been started.
LEMMA LoopPast ==
    ASSUME InitAssumption, IInv, stage = "loop"
    PROVE  Past = Actions /\ \A e \in DOMAIN table : Begun(e)
  BY TableFacts DEF Past, Begun, Actions

\* While init waits for none of its processes, no sysinit or wait entry runs.
LEMMA NoneAttended ==
    ASSUME InitAssumption, IInv, waits \notin Pids
    PROVE  \A c \in Kids : c.entry \in DOMAIN table /\ Waited(table[c.entry]) => c.state # "runs"
  BY TableFacts DEF IInv, Attended, Process

ToldOfKids == \A c, d \in Kids : c.pid = d.pid => c = d
LEMMA ToldKids == Told => ToldOfKids
  BY DEF Told, ToldOfKids, Kids

\* No child is new but orphans.
Fewer == \A c \in Kids' :
            \/ c.entry = Orphan
            \/ \E d \in Kids : c.pid = d.pid /\ c.entry = d.entry
                               /\ (c.state = "runs" => d.state = "runs")

LEMMA FewerKeeps ==
    ASSUME InitAssumption, IInv, Fewer, Told', UNCHANGED <<table, stage, pidOf>>,
           at' = at \/ stage = "loop"
    PROVE  /\ Started' /\ Noted' /\ Each'
           /\ waits' = waits => Attended'
           /\ at' = at => Gone'
<1>1. Orphan \notin DOMAIN table /\ DOMAIN table' = DOMAIN table
  BY TableFacts DEF Orphan
<1>2. ASSUME NEW e \in DOMAIN table, Begun(e) PROVE Begun(e)'
  <2>1. CASE at' = at
    BY <1>2, <2>1 DEF Begun, Past
  <2>2. CASE stage = "loop"
    <3>1. Past' = Actions
      BY <2>2, LoopPast DEF Past
    <3> QED BY <3>1, TableFacts DEF Begun
  <2> QED BY <2>1, <2>2
<1>3. Started'
  BY <1>1, <1>2 DEF Started, Fewer, IInv
<1>4. Noted'
  BY <1>1 DEF Noted, Fewer, IInv
<1>5. Each'
  <2> SUFFICES ASSUME NEW c \in Kids', NEW d \in Kids', c.entry \in DOMAIN table, c.entry = d.entry
               PROVE  c = d
    BY <1>1 DEF Each
  <2>1. PICK x \in Kids : c.pid = x.pid /\ c.entry = x.entry
    BY <1>1 DEF Fewer
  <2>2. PICK y \in Kids : d.pid = y.pid /\ d.entry = y.entry
    BY <1>1 DEF Fewer
  <2>3. x = y
    BY <2>1, <2>2 DEF IInv, Each
  <2>4. ToldOfKids'
    BY ToldKids, PTL
  <2> QED BY <2>1, <2>2, <2>3, <2>4 DEF ToldOfKids
<1>6. ASSUME waits' = waits PROVE Attended'
  BY <1>1, <1>6 DEF Attended, Fewer, IInv
<1>7. ASSUME at' = at PROVE Gone'
  <2> SUFFICES ASSUME stage = "loop", at > 1
               PROVE  /\ at - 1 \in DOMAIN table /\ table[at - 1] = "respawn"
                      /\ \A c \in Kids' : c.entry # at - 1
    BY <1>7 DEF Gone
  <2>1. at - 1 \in DOMAIN table /\ table[at - 1] = "respawn" /\ \A c \in Kids : c.entry # at - 1
    BY DEF IInv, Gone
  <2> QED BY <1>1, <2>1 DEF Fewer
<1> QED BY <1>3, <1>4, <1>5, <1>6, <1>7

LEMMA ReapedIsFewer ==
    ASSUME IInv, NEW i \in DOMAIN children, Reaped(i)
    PROVE  Fewer /\ Told' /\ children' \in Seq(Process) /\ Kids' = Kids \ {children[i]}
  BY ReapedProperties DEF Fewer, IInv, Typed

\* Steps that start and reap nothing.
LEMMA SameKids ==
    ASSUME UNCHANGED children
    PROVE  Kids' = Kids /\ (Told => Told')
  BY DEF Kids, Told

-----------------------------------------------------------------------------
(* The stages.                                                             *)

LEMMA InitIInv == InitAssumption /\ Init => IInv
<1> SUFFICES ASSUME InitAssumption, Init PROVE IInv
  OBVIOUS
<1>1. Kids = {} /\ DOMAIN children = {}
  BY DEF Init, Kids
<1>2. Typed
  BY DEF Init, Typed, InitAssumption, Actions
<1>3. waits \notin Pids /\ waits # Anyone /\ at = 1
  BY DEF Init, InitAssumption, None, Anyone
<1>4. Told /\ Started /\ Attended /\ Noted /\ Each
  BY <1>1 DEF Told, Started, Attended, Noted, Each
<1>5. Gone /\ OnConsole
  <2>1. stage = "console" => table = <<>>
    BY DEF Init
  <2> QED BY <1>3, <2>1 DEF Gone, OnConsole
<1> QED BY <1>2, <1>3, <1>4, <1>5 DEF IInv, InWaitpid

LEMMA StageFacts ==
    ASSUME InStage
    PROVE  /\ stage \in Actions /\ stage # "loop" /\ stage # "console"
           /\ waits = None /\ stage \notin Past
  BY DEF InStage, Actions, Past

LEMMA NextEntryKeeps == ASSUME InitAssumption, IInv, NextEntry PROVE IInv'
<1>1. Kids' = Kids /\ Told' /\ Past' = Past
  BY SameKids DEF NextEntry, IInv, Past
<1>2. UNCHANGED <<table, stage, waits, pidOf, children>> /\ at' = at + 1 /\ at \in Nat \ {0}
  BY DEF NextEntry, IInv, Typed
<1>3. Typed'
  BY <1>2 DEF IInv, Typed
<1>4. Started'
  <2>1. ASSUME NEW e \in DOMAIN table, Begun(e) PROVE Begun(e)'
    BY <1>1, <1>2, <2>1, TableFacts DEF Begun
  <2> QED BY <1>1, <1>2, <2>1 DEF Started, IInv
<1>5. Attended' /\ InWaitpid' /\ Noted' /\ Each' /\ OnConsole'
  BY <1>1, <1>2 DEF IInv, Attended, InWaitpid, Noted, Each, OnConsole
<1>6. Gone'
  BY <1>2, StageFacts DEF Gone, NextEntry
<1> QED BY <1>1, <1>3, <1>4, <1>5, <1>6 DEF IInv

LEMMA StageAfter ==
    ASSUME InStage, stage' = Stages[1 + CHOOSE i \in DOMAIN Stages : Stages[i] = stage]
    PROVE  stage' \in Actions \cup {"loop"} /\ Past' = Past \cup {stage}
<1> DEFINE n == CHOOSE i \in DOMAIN Stages : Stages[i] = stage
<1>1. DOMAIN Stages = 1..5 /\ Stages[1] = "sysinit" /\ Stages[2] = "wait" /\ Stages[3] = "once"
      /\ Stages[4] = "respawn" /\ Stages[5] = "loop"
  BY DEF Stages
<1>2. \E i \in DOMAIN Stages : Stages[i] = stage
  BY <1>1, StageFacts DEF Actions
<1>3. n \in 1..5 /\ Stages[n] = stage
  BY <1>1, <1>2
<1> HIDE DEF n
<1>4. n \in {1, 2, 3, 4, 5} /\ n # 5
  BY <1>1, <1>3, StageFacts
<1>5. stage' = Stages[1 + n]
  BY DEF n
<1>6. CASE n = 1
  <2>1. stage = "sysinit" /\ stage' = "wait"
    BY <1>1, <1>3, <1>5, <1>6
  <2> QED BY <2>1 DEF Past, Actions
<1>7. CASE n = 2
  <2>1. stage = "wait" /\ stage' = "once"
    BY <1>1, <1>3, <1>5, <1>7
  <2> QED BY <2>1 DEF Past, Actions
<1>8. CASE n = 3
  <2>1. stage = "once" /\ stage' = "respawn"
    BY <1>1, <1>3, <1>5, <1>8
  <2> QED BY <2>1 DEF Past, Actions
<1>9. CASE n = 4
  <2>1. stage = "respawn" /\ stage' = "loop"
    BY <1>1, <1>3, <1>5, <1>9
  <2> QED BY <2>1 DEF Past, Actions
<1> QED BY <1>4, <1>6, <1>7, <1>8, <1>9

LEMMA NextStageKeeps == ASSUME InitAssumption, IInv, NextStage PROVE IInv'
<1>1. Kids' = Kids /\ Told'
  BY SameKids DEF NextStage, IInv
<1>2. UNCHANGED <<table, waits, pidOf, children>> /\ at' = 1
  BY DEF NextStage
<1>3. stage' \in Actions \cup {"loop"} /\ Past' = Past \cup {stage} /\ InStage
  BY StageAfter DEF NextStage
<1>4. Typed'
  BY <1>2, <1>3 DEF IInv, Typed
<1>5. Started'
  <2>1. ASSUME NEW e \in DOMAIN table, Begun(e) PROVE Begun(e)'
    BY <1>2, <1>3, <2>1 DEF Begun
  <2> QED BY <1>1, <1>2, <2>1 DEF Started, IInv
<1>6. Attended' /\ Noted' /\ Each'
  BY <1>1, <1>2 DEF IInv, Attended, Noted, Each
<1>7. InWaitpid' /\ OnConsole'
  <2>1. waits = None /\ None \notin Pids /\ None # Anyone
    BY <1>3, StageFacts, TableFacts DEF None, Anyone
  <2>2. stage' # "console"
    BY <1>3 DEF Actions
  <2> QED BY <1>2, <2>1, <2>2 DEF InWaitpid, OnConsole
<1>8. Gone'
  BY <1>2 DEF Gone
<1> QED BY <1>1, <1>4, <1>5, <1>6, <1>7, <1>8 DEF IInv

\* The entry a stage is at has no process yet.
LEMMA MineIsNew ==
    ASSUME InitAssumption, IInv, InStage, Mine
    PROVE  /\ at \in DOMAIN table /\ table[at] = stage /\ ~Begun(at)
           /\ \A c \in Kids : c.entry # at
<1>1. at \in DOMAIN table /\ table[at] = stage
  BY TableFacts DEF Mine, IInv, Typed
<1>2. ~Begun(at)
  BY <1>1, StageFacts DEF Begun, IInv, Typed
<1> QED BY <1>1, <1>2 DEF IInv, Started

LEMMA RunFailsKeeps == ASSUME InitAssumption, IInv, RunFails PROVE IInv'
<1>1. Kids' = Kids /\ Told' /\ Past' = Past
  BY SameKids DEF RunFails, IInv, Past
<1>2. UNCHANGED <<table, stage, waits, children>> /\ at' = at + 1 /\ at \in Nat \ {0}
  BY DEF RunFails, IInv, Typed
<1>3. InStage /\ Mine /\ at \in DOMAIN table /\ \A c \in Kids : c.entry # at
  BY MineIsNew DEF RunFails
<1>4. pidOf' \in [DOMAIN table -> Int] /\ \A e \in DOMAIN table : e # at => pidOf'[e] = pidOf[e]
  BY <1>3 DEF RunFails, Failed, IInv, Typed
<1>5. Typed'
  BY <1>2, <1>4 DEF IInv, Typed
<1>6. Started'
  <2>1. ASSUME NEW e \in DOMAIN table, Begun(e) PROVE Begun(e)'
    BY <1>1, <1>2, <2>1, TableFacts DEF Begun
  <2> QED BY <1>1, <1>2, <2>1 DEF Started, IInv
<1>7. Attended' /\ InWaitpid' /\ Each' /\ OnConsole'
  BY <1>1, <1>2 DEF IInv, Attended, InWaitpid, Each, OnConsole
<1>8. Noted'
  BY <1>1, <1>2, <1>3, <1>4 DEF IInv, Noted
<1>9. Gone'
  BY <1>2, <1>3, StageFacts DEF Gone
<1> QED BY <1>1, <1>5, <1>6, <1>7, <1>8, <1>9 DEF IInv

\* A new child of an entry that has none, when nothing is waited for.
LEMMA RunKeeps ==
    ASSUME InitAssumption, IInv, NEW pid \in Pids, Run(pid)
    PROVE  IInv'
<1> DEFINE c0 == [pid |-> pid, entry |-> at, state |-> "runs"]
<1>1. /\ InStage /\ pid \in Free /\ at \in DOMAIN table /\ table[at] = stage
      /\ \A c \in Kids : c.entry # at
  BY MineIsNew DEF Run
<1>2. UNCHANGED <<table, stage>> /\ at' = at + 1 /\ at \in Nat \ {0} /\ Past' = Past
  BY DEF Run, IInv, Typed, Past
<1>3. children' \in Seq(Process) /\ Told' /\ Kids' = Kids \cup {c0}
  BY <1>1, <1>2, ChildProperties DEF Run, IInv, Typed
<1>4. c0.pid = pid /\ c0.entry = at
  OBVIOUS
<1> HIDE DEF c0
<1>5. waits' = (IF Waited(stage) THEN pid ELSE None)
  BY DEF Run
<1>6. /\ pidOf' \in [DOMAIN table -> Int] /\ \A e \in DOMAIN table : e # at => pidOf'[e] = pidOf[e]
      /\ stage = "respawn" => pidOf'[at] = pid
  BY <1>1, TableFacts DEF Run, IInv, Typed
<1>7. Typed'
  BY <1>2, <1>3, <1>5, <1>6 DEF IInv, Typed
<1>8. Started'
  <2>1. ASSUME NEW e \in DOMAIN table, Begun(e) PROVE Begun(e)'
    BY <1>2, <2>1, TableFacts DEF Begun
  <2>2. ASSUME NEW e \in DOMAIN table, e = at PROVE Begun(e)'
    BY <1>1, <1>2, <2>2 DEF Begun
  <2> QED BY <1>2, <1>3, <1>4, <2>1, <2>2 DEF Started, IInv
<1>9. Attended'
  <2>1. \A c \in Kids : c.entry \in DOMAIN table /\ Waited(table[c.entry]) => c.state # "runs"
    BY <1>1, NoneAttended, StageFacts, TableFacts
  <2> QED BY <1>1, <1>2, <1>3, <1>4, <1>5, <2>1 DEF Attended
<1>10. InWaitpid' /\ OnConsole'
  <2>1. waits' # Anyone /\ (waits' \in Pids => Waited(stage))
    BY <1>5, TableFacts DEF None, Anyone
  <2> QED BY <1>2, <2>1 DEF InWaitpid, OnConsole, IInv
<1>11. Noted'
  BY <1>1, <1>2, <1>3, <1>4, <1>6 DEF IInv, Noted
<1>12. Gone'
  BY <1>1, <1>2, StageFacts DEF Gone
<1>13. Each'
  BY <1>1, <1>2, <1>3, <1>4 DEF IInv, Each
<1> QED BY <1>3, <1>7, <1>8, <1>9, <1>10, <1>11, <1>12, <1>13 DEF IInv

\* The process that was waited for is gone, and no other was.
LEMMA WaitPidKeeps == ASSUME InitAssumption, IInv, WaitPid PROVE IInv'
<1>1. PICK i \in DOMAIN children : children[i].state = "zombie" /\ children[i].pid = waits /\ Reaped(i)
  BY DEF WaitPid, Zombies
<1>2. waits \in Pids /\ waits' = None /\ UNCHANGED <<table, stage, at, pidOf>>
  BY DEF WaitPid
<1>3. Fewer /\ Told' /\ children' \in Seq(Process) /\ Kids' = Kids \ {children[i]}
  BY <1>1, ReapedIsFewer
<1>4. Typed'
  BY <1>2, <1>3 DEF IInv, Typed
<1>5. Started' /\ Noted' /\ Each' /\ Gone'
  BY <1>2, <1>3, FewerKeeps
<1>6. ASSUME NEW c \in Kids', c.entry \in DOMAIN table, Waited(table[c.entry]), c.state = "runs"
      PROVE  FALSE
  <2>1. c.pid = waits /\ c \in Kids
    BY <1>3, <1>6 DEF IInv, Attended
  <2>2. c = children[i]
    BY <1>1, <2>1, ToldKids DEF IInv, ToldOfKids, Kids
  <2> QED BY <1>3, <2>2
<1>7. Attended'
  BY <1>2, <1>6 DEF Attended
<1>8. InWaitpid' /\ OnConsole'
  BY <1>2, TableFacts DEF InWaitpid, OnConsole, IInv, None, Anyone
<1> QED BY <1>3, <1>4, <1>5, <1>7, <1>8 DEF IInv

-----------------------------------------------------------------------------
(* The main loop.                                                          *)

\* Every set of naturals has a least element: through the finite sets
\* 0..(m - 1), whose inclusion is well-founded.
LEMMA LeastExists ==
    ASSUME NEW S \in SUBSET Nat, S # {}
    PROVE  Min(S) \in S /\ \A k \in S : Min(S) <= k
<1> DEFINE T == {0..(m - 1) : m \in S}
<1>1. \A m \in S : 0..(m - 1) \in FiniteSubsetsOf(Nat)
  <2> SUFFICES ASSUME NEW m \in S PROVE 0..(m - 1) \in FiniteSubsetsOf(Nat)
    OBVIOUS
  <2>1. IsFiniteSet(0..(m - 1))
    BY FS_Interval
  <2> QED BY <2>1 DEF FiniteSubsetsOf
<1>2. T \subseteq FiniteSubsetsOf(Nat) /\ T # {}
  BY <1>1
<1>3. PICK x \in T : \A y \in T : ~(<<y, x>> \in StrictSubsetOrdering(Nat))
  <2>1. IsWellFoundedOn(StrictSubsetOrdering(Nat), FiniteSubsetsOf(Nat))
    BY FS_StrictSubsetOrderingWellFounded
  <2> HIDE DEF T
  <2> QED BY <1>2, <2>1, WFMin
<1>4. PICK m \in S : x = 0..(m - 1)
  OBVIOUS
<1>5. ASSUME NEW k \in S, k < m PROVE FALSE
  <2> DEFINE y == 0..(k - 1)
  <2>1. y \in T /\ y \subseteq x /\ y # x
    <3>1. k \in x /\ k \notin y
      BY <1>4, <1>5
    <3> QED BY <1>4, <1>5, <3>1
  <2>2. <<y, x>> \in StrictSubsetOrdering(Nat)
    BY <1>4, <2>1 DEF StrictSubsetOrdering
  <2> QED BY <1>3, <2>1, <2>2
<1>6. \A k \in S : m <= k
  BY <1>5
<1> QED BY <1>6 DEF Min

\* The entry that is to run again has lost its only process.
LEMMA WaitKeeps == ASSUME InitAssumption, IInv, Wait PROVE IInv'
<1> DEFINE i == Min(Zombies)
           its == {e \in DOMAIN table : table[e] = "respawn" /\ pidOf[e] = children[i].pid}
<1>1. stage = "loop" /\ at = 1 /\ Reaped(i) /\ at' = (IF its = {} THEN 1 ELSE 1 + Min(its))
      /\ UNCHANGED <<table, stage, waits, pidOf>>
  BY DEF Wait
<1>2. i \in DOMAIN children
  <2>1. Zombies \subseteq DOMAIN children /\ Zombies # {} /\ DOMAIN children \subseteq Nat
    BY LenProperties DEF Wait, Zombies, IInv, Typed
  <2> HIDE DEF i
  <2>2. i \in Zombies
    BY <2>1, LeastExists DEF i
  <2> QED BY <2>1, <2>2
<1>3. its = {} \/ Min(its) \in its
  <2>1. its \subseteq DOMAIN table /\ DOMAIN table \subseteq Nat
    BY TableFacts
  <2> HIDE DEF its
  <2> QED BY <2>1, LeastExists
<1>4. \A e \in its : e \in DOMAIN table /\ table[e] = "respawn" /\ pidOf[e] = children[i].pid /\ e \in Nat \ {0}
  BY TableFacts
<1> HIDE DEF i, its
<1>5. Fewer /\ Told' /\ children' \in Seq(Process) /\ Kids' = Kids \ {children[i]}
  BY <1>1, <1>2, ReapedIsFewer
<1>6. at' \in Nat \ {0}
  BY <1>1, <1>3, <1>4
<1>7. Typed'
  BY <1>1, <1>5, <1>6 DEF IInv, Typed
<1>8. Started' /\ Noted' /\ Each' /\ Attended'
  BY <1>1, <1>5, FewerKeeps
<1>9. InWaitpid' /\ OnConsole'
  BY <1>1 DEF InWaitpid, OnConsole, IInv
<1>10. Gone'
  <2> SUFFICES ASSUME its # {}
               PROVE  /\ at' - 1 \in DOMAIN table /\ table[at' - 1] = "respawn"
                      /\ \A c \in Kids' : c.entry # at' - 1
    BY <1>1 DEF Gone
  <2>1. at' - 1 = Min(its) /\ at' - 1 \in its
    BY <1>1, <1>3, <1>4
  <2>2. ASSUME NEW c \in Kids', c.entry = at' - 1 PROVE FALSE
    <3>1. c \in Kids /\ c.pid = children[i].pid
      BY <1>4, <1>5, <2>1, <2>2 DEF IInv, Noted
    <3>2. c = children[i]
      BY <1>2, <3>1, ToldKids DEF IInv, ToldOfKids, Kids
    <3> QED BY <1>5, <3>2
  <2> QED BY <1>4, <2>1, <2>2
<1> QED BY <1>5, <1>7, <1>8, <1>9, <1>10 DEF IInv

LEMMA RespawnKeeps ==
    ASSUME InitAssumption, IInv, NEW pid \in Pids, Respawn(pid)
    PROVE  IInv'
<1> DEFINE e0 == at - 1
           c0 == [pid |-> pid, entry |-> e0, state |-> "runs"]
<1>1. stage = "loop" /\ pid \in Free /\ children' = Child(pid, e0) /\ at' = 1
      /\ UNCHANGED <<table, stage, waits>>
  BY DEF Respawn
<1>2. e0 \in DOMAIN table /\ table[e0] = "respawn" /\ \A c \in Kids : c.entry # e0
  BY DEF Respawn, IInv, Gone
<1>3. e0 \in Int
  BY <1>2, TableFacts
<1>4. pidOf' \in [DOMAIN table -> Int] /\ pidOf'[e0] = pid
      /\ \A e \in DOMAIN table : e # e0 => pidOf'[e] = pidOf[e]
  <2>1. pid \in Int
    BY TableFacts
  <2> QED BY <1>2, <2>1 DEF Respawn, IInv, Typed
<1>5. children' \in Seq(Process) /\ Told' /\ Kids' = Kids \cup {c0}
  <2> HIDE DEF e0
  <2> QED BY <1>1, <1>3, ChildProperties DEF IInv, Typed
<1>6. c0.pid = pid /\ c0.entry = e0
  OBVIOUS
<1> HIDE DEF c0, e0
<1>7. Typed'
  BY <1>1, <1>4, <1>5 DEF IInv, Typed
<1>8. Started'
  <2>1. Past' = Actions
    BY <1>1, LoopPast DEF Past
  <2> QED BY <1>1, <2>1, TableFacts DEF Started, Begun
<1>9. Attended'
  BY <1>1, <1>2, <1>5, <1>6 DEF IInv, Attended, Waited
<1>10. InWaitpid' /\ OnConsole' /\ Gone'
  BY <1>1 DEF InWaitpid, OnConsole, IInv, Gone
<1>11. Noted'
  BY <1>1, <1>2, <1>4, <1>5, <1>6 DEF IInv, Noted
<1>12. Each'
  BY <1>1, <1>2, <1>5, <1>6 DEF IInv, Each
<1> QED BY <1>5, <1>7, <1>8, <1>9, <1>10, <1>11, <1>12 DEF IInv

LEMMA RespawnFailsKeeps == ASSUME InitAssumption, IInv, RespawnFails PROVE IInv'
<1>1. Kids' = Kids /\ Told'
  BY SameKids DEF RespawnFails, IInv
<1>2. stage = "loop" /\ at' = 1 /\ UNCHANGED <<table, stage, waits, children>>
  BY DEF RespawnFails
<1>3. at - 1 \in DOMAIN table /\ \A c \in Kids : c.entry # at - 1
  BY DEF RespawnFails, IInv, Gone
<1>4. pidOf' \in [DOMAIN table -> Int] /\ \A e \in DOMAIN table : e # at - 1 => pidOf'[e] = pidOf[e]
  BY <1>3 DEF RespawnFails, Failed, IInv, Typed
<1>5. Typed'
  BY <1>2, <1>4 DEF IInv, Typed
<1>6. Started'
  <2>1. Past' = Actions
    BY <1>2, LoopPast DEF Past
  <2> QED BY <1>2, <2>1, TableFacts DEF Started, Begun
<1>7. Attended' /\ InWaitpid' /\ Each' /\ OnConsole' /\ Gone'
  BY <1>1, <1>2 DEF IInv, Attended, InWaitpid, Each, OnConsole, Gone
<1>8. Noted'
  BY <1>1, <1>2, <1>3, <1>4 DEF IInv, Noted
<1> QED BY <1>1, <1>5, <1>6, <1>7, <1>8 DEF IInv

-----------------------------------------------------------------------------
(* The console and the processes.                                          *)

\* Without entries only the pids of the children matter.
LEMMA ConsoleKeeps ==
    ASSUME InitAssumption, IInv, stage = "console", UNCHANGED <<table, stage, at, pidOf>>,
           Told', children' \in Seq(Process), waits' \in Pids \cup {None, Anyone}
    PROVE  IInv'
<1>1. table = <<>> /\ DOMAIN table = {}
  BY DEF IInv, OnConsole
<1>2. Typed'
  BY DEF IInv, Typed
<1>3. Started' /\ Attended' /\ Noted' /\ Each'
  BY <1>1 DEF Started, Attended, Noted, Each
<1>4. InWaitpid' /\ OnConsole' /\ Gone'
  BY <1>1 DEF InWaitpid, OnConsole, Gone
<1> QED BY <1>2, <1>3, <1>4 DEF IInv

LEMMA ShellStartsKeeps ==
    ASSUME InitAssumption, IInv, NEW pid \in Pids, ShellStarts(pid)
    PROVE  IInv'
<1>1. pid \in Free /\ children' = Child(pid, Shell) /\ Shell \in Int
  BY DEF ShellStarts, Shell
<1>2. children' \in Seq(Process) /\ Told'
  BY <1>1, ChildProperties DEF IInv, Typed
<1> QED BY <1>2, ConsoleKeeps DEF ShellStarts

LEMMA ShellFailsKeeps == ASSUME InitAssumption, IInv, ShellFails PROVE IInv'
<1>1. Told' /\ children' \in Seq(Process)
  BY SameKids DEF ShellFails, IInv, Typed
<1> QED BY <1>1, ConsoleKeeps DEF ShellFails

LEMMA WaitAnyKeeps == ASSUME InitAssumption, IInv, WaitAny PROVE IInv'
<1>1. stage = "console" /\ waits' = None /\ UNCHANGED <<table, stage, at, pidOf>>
  BY DEF WaitAny, IInv, InWaitpid
<1>2. CASE UNCHANGED children
  <2>1. Told' /\ children' \in Seq(Process)
    BY <1>2, SameKids DEF IInv, Typed
  <2> QED BY <1>1, <2>1, ConsoleKeeps
<1>3. CASE Zombies # {} /\ Reaped(Min(Zombies))
  <2>1. Zombies \subseteq DOMAIN children /\ DOMAIN children \subseteq Nat
    BY LenProperties DEF Zombies, IInv, Typed
  <2>2. Min(Zombies) \in DOMAIN children
    BY <1>3, <2>1, LeastExists
  <2>3. Told' /\ children' \in Seq(Process)
    BY <1>3, <2>2, ReapedIsFewer
  <2> QED BY <1>1, <2>3, ConsoleKeeps
<1> QED BY <1>2, <1>3 DEF WaitAny

LEMMA EndsKeeps ==
    ASSUME InitAssumption, IInv, NEW i \in DOMAIN children, Ends(i)
    PROVE  IInv'
<1>1. children' \in Seq(Process) /\ Told' /\ Fewer
  BY EndsProperties DEF IInv, Typed, Fewer
<1>2. UNCHANGED <<table, stage, at, waits, pidOf>>
  BY DEF Ends
<1>3. Typed'
  BY <1>1, <1>2 DEF IInv, Typed
<1>4. Started' /\ Noted' /\ Each' /\ Attended' /\ Gone'
  BY <1>1, <1>2, FewerKeeps
<1>5. InWaitpid' /\ OnConsole'
  BY <1>2 DEF InWaitpid, OnConsole, IInv
<1> QED BY <1>1, <1>3, <1>4, <1>5 DEF IInv

LEMMA NextIInv == ASSUME InitAssumption, IInv, [Next]_ivars PROVE IInv'
<1>1. CASE InitStep
  <2>1. CASE NextEntry
    BY <2>1, NextEntryKeeps
  <2>2. CASE NextStage
    BY <2>2, NextStageKeeps
  <2>3. CASE WaitPid
    BY <2>3, WaitPidKeeps
  <2>4. CASE Wait
    BY <2>4, WaitKeeps
  <2>5. CASE WaitAny
    BY <2>5, WaitAnyKeeps
  <2>6. CASE RunFails
    BY <2>6, RunFailsKeeps
  <2>7. CASE RespawnFails
    BY <2>7, RespawnFailsKeeps
  <2>8. CASE ShellFails
    BY <2>8, ShellFailsKeeps
  <2>9. ASSUME NEW pid \in Pids, Run(pid) \/ Respawn(pid) \/ ShellStarts(pid) PROVE IInv'
    BY <2>9, RunKeeps, RespawnKeeps, ShellStartsKeeps
  <2> QED BY <1>1, <2>1, <2>2, <2>3, <2>4, <2>5, <2>6, <2>7, <2>8, <2>9 DEF InitStep
<1>2. ASSUME NEW i \in DOMAIN children, Ends(i) PROVE IInv'
  BY <1>2, EndsKeeps
<1>3. CASE UNCHANGED ivars
  BY <1>3 DEF ivars, IInv, Typed, Told, Started, Attended, InWaitpid, Noted, Gone, Each, OnConsole,
              Begun, Past, Kids
<1> QED BY <1>1, <1>2, <1>3 DEF Next

-----------------------------------------------------------------------------
\* While a sysinit or wait entry's process runs no other entry's does: init
\* waits for it, so that it is the only one of its kind, and the entries of the
\* later stages have no process yet.
LEMMA IInvApart == ASSUME InitAssumption, IInv PROVE StagesAreApart
<1> SUFFICES ASSUME NEW e \in DOMAIN table, table[e] \in {"sysinit", "wait"}, Runs(e),
                    NEW d \in DOMAIN table \ {e}, Runs(d)
             PROVE  FALSE
  BY DEF StagesAreApart
<1>1. PICK x \in Kids : x.entry = e /\ x.state = "runs"
  BY DEF Runs, Kids
<1>2. PICK y \in Kids : y.entry = d /\ y.state = "runs"
  BY DEF Runs, Kids
<1>3. waits = x.pid /\ waits \in Pids
  BY <1>1, TableFacts DEF IInv, Attended, Waited, Process
<1>4. stage # "console"
  BY DEF IInv, OnConsole
<1>5. Begun(d) /\ (stage = "sysinit" \/ stage = "wait")
  BY <1>2, <1>3, <1>4 DEF IInv, InWaitpid, Started, Waited
<1>6. Waited(table[d])
  BY <1>5 DEF Begun, Past, Waited
<1>7. waits = y.pid
  BY <1>2, <1>6 DEF IInv, Attended
<1>8. x = y
  BY <1>3, <1>7, ToldKids DEF IInv, ToldOfKids
<1> QED BY <1>1, <1>2, <1>8

LEMMA IInvEach == ASSUME IInv PROVE OneProcessEach
<1> SUFFICES ASSUME NEW e \in DOMAIN table, NEW i \in DOMAIN children, NEW j \in DOMAIN children,
                    children[i].entry = e, children[j].entry = e
             PROVE  i = j
  BY DEF OneProcessEach
<1>1. children[i] = children[j]
  BY DEF IInv, Each, Kids
<1> QED BY <1>1 DEF IInv, Told

\* init waits for each sysinit and wait entry before it starts another entry
\* (init.rs:228), and no entry ever has two processes, whichever children end in
\* whatever order, are orphaned, or get a pid that another had (init.rs:284).
THEOREM InitIsRight == InitAssumption => (Spec => [](StagesAreApart /\ OneProcessEach))
<1> SUFFICES ASSUME InitAssumption PROVE Spec => [](StagesAreApart /\ OneProcessEach)
  OBVIOUS
<1>1. Init => IInv
  BY InitIInv
<1>2. IInv /\ [Next]_ivars => IInv'
  BY NextIInv
<1>3. IInv => StagesAreApart /\ OneProcessEach
  BY IInvApart, IInvEach
<1> QED BY <1>1, <1>2, <1>3, PTL DEF Spec

-----------------------------------------------------------------------------
(* xargs: the invariant.                                                   *)

XTyped ==
    /\ job \in Jobs /\ phase \in {"batches", "running", "drain", "done"}
    /\ start \in 1..(Len(X!Items) + 1) /\ pids \subseteq 1..(start - 1)
    /\ status \in Nat /\ seen \subseteq Statuses /\ given \in Seq(Nat \X Nat)
    /\ forkFails \in Nat

\* A child is waited for once: a command whose batch is among the pids, or the
\* one that xargs did not start.
EndedOnce ==
    /\ ended \subseteq [batch : pids \cup {X!Foreign}, status : Statuses]
    /\ \A d, e \in ended : d.batch = e.batch => d = e
    /\ \A e \in ended : IF e.batch = X!Foreign THEN other = "over" ELSE e.status \in seen
    /\ other \in {"none", "alive", "over"}

\* Without -P commands run only within run_command.
Slots ==
    /\ Cardinality(pids) <= (IF X!Parallel THEN job.maxProcs ELSE 1)
    /\ ~X!Parallel /\ phase # "running" => pids = {}
    /\ phase = "running" => ~X!Parallel /\ \E b \in pids : pids = {b}
    /\ phase = "done" => pids = {}

\* The batches so far lie in a row, up to the next one.
Handing ==
    /\ \A i \in 1..Len(given) :
        /\ given[i][1] <= given[i][2] /\ given[i][2] < start
        /\ i > 1 => given[i][1] > given[i - 1][2]
        /\ i > 1 /\ forkFails = 0 => given[i][1] = given[i - 1][2] + 1
    /\ forkFails = 0 => IF given = <<>> THEN start = 1
                        ELSE given[1][1] = 1 /\ given[Len(given)][2] = start - 1

\* A failure is in the status, or still to be waited for.
Failing == \A s \in seen : s = 0 \/ status # 0 \/ \E e \in ended : e.status = s

\* The status is that of a command.
Justified ==
    /\ status # 0 => \E s \in seen : s # 0
    /\ status = 123 => \E s \in seen : s \in 1..125
    /\ status = 124 => 255 \in seen
    /\ status \in {126, 127} => status \in seen
\* xargs was not at its limit, all forks went well, and no child is another's.
Own == forkFails = 0 /\ other = "none" /\ (X!Cut => phase \in {"batches", "running"})
Reported ==
    IF X!Items = <<>>
    THEN \/ phase = "batches" /\ seen = {}
         \/ phase = "done" /\ seen \subseteq {status} /\ (status # 0 => seen # {})
    ELSE Own => Justified

XInv == XTyped /\ EndedOnce /\ Slots /\ Handing /\ Failing /\ Reported

-----------------------------------------------------------------------------
(* What xargs computes.                                                    *)

\* A finite set of naturals has a greatest element: the least distance from a bound.
LEMMA GreatestExists ==
    ASSUME NEW S \in SUBSET Nat, S # {}, NEW n \in Nat, \A s \in S : s <= n
    PROVE  X!Max(S) \in S /\ \A s \in S : X!Max(S) >= s
<1> DEFINE T == {n - s : s \in S}
<1>1. T \in SUBSET Nat /\ T # {}
  <2>1. \A s \in S : n - s \in Nat
    OBVIOUS
  <2> QED BY <2>1
<1>2. Min(T) \in T /\ \A t \in T : Min(T) <= t
  BY <1>1, LeastExists
<1>3. PICK g \in S : Min(T) = n - g
  BY <1>2
<1>4. \A s \in S : g >= s
  <2> SUFFICES ASSUME NEW s \in S PROVE g >= s
    OBVIOUS
  <2>1. Min(T) <= n - s
    BY <1>2
  <2> QED BY <1>3, <2>1
<1> HIDE DEF T
<1> QED BY <1>4 DEF X!Max

LEMMA SameCardinality == \A S : X!Cardinality(S) = Cardinality(S)
BY DEF X!Cardinality, Cardinality

\* What the constants' assumption says of the options and the input.
LEMMA JobFacts ==
    ASSUME X!XargsAssumption, job \in Jobs
    PROVE  /\ job.maxProcs \in Nat /\ X!Items \in Seq(Nat) /\ Len(X!Items) \in Nat
           /\ X!Items = <<>> <=> Len(X!Items) = 0
           /\ Statuses \subseteq 0..255
<1>1. job.maxProcs \in Nat /\ X!Items \in Seq(Nat) /\ Statuses \subseteq 0..255
  BY DEF X!XargsAssumption, X!Items
<1>2. Len(X!Items) \in Nat
  BY <1>1, LenProperties
<1>3. X!Items = <<>> <=> Len(X!Items) = 0
  BY <1>1, EmptySeq
<1> QED BY <1>1, <1>2, <1>3

\* compute_batches: a batch has an item, and ends within the input.
LEMMA BatchHasItems ==
    ASSUME X!XargsAssumption, job \in Jobs, NEW first \in 1..Len(X!Items)
    PROVE  X!BatchEnd(first) \in first..Len(X!Items)
<1> DEFINE Fits(last) == \/ last = first
                         \/ /\ job.maxArgs # X!None => last - first < job.maxArgs
                            /\ X!Size(first, last) <= MaxBytes
           Lasts == {last \in first..Len(X!Items) : Fits(last)}
<1>1. Len(X!Items) \in Nat
  BY JobFacts
<1>2. CASE job.replace
  BY <1>1, <1>2 DEF X!BatchEnd
<1>3. CASE ~job.replace
  <2>1. X!BatchEnd(first) = X!Max(Lasts)
    BY <1>3 DEF X!BatchEnd
  <2>2. first \in Lasts
    BY <1>1
  <2>3. Lasts \subseteq first..Len(X!Items)
    OBVIOUS
  <2> HIDE DEF Lasts
  <2>4. Lasts \in SUBSET Nat /\ \A s \in Lasts : s <= Len(X!Items)
    BY <1>1, <2>3
  <2>5. X!Max(Lasts) \in Lasts
    BY <1>1, <2>2, <2>4, GreatestExists
  <2> QED BY <2>1, <2>3, <2>5
<1> QED BY <1>2, <1>3

\* update_exit_status: a failure is not forgotten, and a status is a command's.
LEMMA UpdateProperties ==
    ASSUME status \in Nat, NEW new \in 0..255
    PROVE  /\ X!Update(new) \in Nat
           /\ X!Update(new) = 0 <=> status = 0 /\ new = 0
BY DEF X!Update

LEMMA UpdateIsJustified ==
    ASSUME status \in Nat, NEW new \in 0..255, new \in seen, Justified,
           status' = X!Update(new), seen' = seen
    PROVE  Justified'
BY DEF X!Update, Justified

-----------------------------------------------------------------------------
(* xargs: every step keeps the invariant, one part at a time.              *)

LEMMA XInitXInv ==
    ASSUME X!XargsAssumption, X!Init
    PROVE  XInv
<1>1. XTyped
  <2>1. <<>> \in Seq(Nat \X Nat)
    BY EmptySeq
  <2> QED BY <2>1, JobFacts DEF XTyped, X!Init
<1>2. EndedOnce /\ Failing
  BY DEF EndedOnce, Failing, X!Init
<1>3. Slots
  <2>1. Cardinality({}) = 0
    BY FS_EmptySet
  <2> QED BY <1>1, <2>1, JobFacts DEF Slots, XTyped, X!Init, X!Parallel
<1>4. Handing
  BY EmptySeq DEF Handing, X!Init
<1>5. Reported
  BY DEF Reported, Justified, X!Init
<1> QED BY <1>1, <1>2, <1>3, <1>4, <1>5 DEF XInv

\* The batch at hand.
LEMMA BatchFacts ==
    ASSUME X!XargsAssumption, XTyped, X!HasBatch
    PROVE  /\ start \in 1..Len(X!Items) /\ X!BatchEnd(start) \in start..Len(X!Items)
           /\ X!Items # <<>>
<1>1. start \in 1..Len(X!Items)
  BY JobFacts DEF XTyped, X!HasBatch
<1> QED BY <1>1, JobFacts, BatchHasItems DEF XTyped

LEMMA XTypedKept ==
    ASSUME X!XargsAssumption, XInv, [X!Next]_(X!xvars)
    PROVE  XTyped'
<1> USE DEF XInv
<1>0. X!Items' = X!Items /\ job' = job
  BY DEF X!Items, X!Next, X!Step, X!CommandEnds, X!xvars, X!StopAtLimit, X!Run, X!RunFails, X!RunEmpty,
         X!WaitPid, X!WaitAny, X!Drain, X!Return, X!Ends, X!ForeignEnds
<1>1. CASE X!StopAtLimit
  BY <1>0, <1>1 DEF X!StopAtLimit, XTyped
<1>2. CASE X!Run
  <2>1. X!HasBatch /\ start' = X!BatchEnd(start) + 1 /\ pids' = pids \cup {start}
    BY <1>2 DEF X!Run, X!Ready, X!Handed
  <2>2. start' \in 1..(Len(X!Items) + 1) /\ pids' \subseteq 1..(start' - 1)
    BY <2>1, BatchFacts, JobFacts DEF XTyped
  <2>3. given' \in Seq(Nat \X Nat)
    <3>1. X!Batch \in Nat \X Nat
      BY <2>1, BatchFacts, JobFacts DEF X!Batch, XTyped
    <3> QED BY <1>2, <3>1, AppendProperties DEF X!Run, X!Handed, XTyped
  <2> QED BY <1>0, <1>2, <2>2, <2>3 DEF X!Run, XTyped
<1>3. CASE X!RunFails
  <2>1. X!HasBatch /\ start' = X!BatchEnd(start) + 1
    BY <1>3 DEF X!RunFails, X!Ready
  <2>2. start' \in 1..(Len(X!Items) + 1) /\ pids \subseteq 1..(start' - 1)
    BY <2>1, BatchFacts, JobFacts DEF XTyped
  <2>3. status' \in Nat
    BY <1>3, UpdateProperties DEF X!RunFails, XTyped
  <2> QED BY <1>0, <1>3, <2>2, <2>3 DEF X!RunFails, X!ForkFails, XTyped
<1>4. CASE X!RunEmpty
  <2>1. status' \in Nat /\ seen' \subseteq Statuses
    <3>1. \/ status' = 0 /\ seen' = seen
          \/ \E s \in Statuses : status' = s /\ seen' = {s}
      BY <1>4 DEF X!RunEmpty
    <3>2. seen \subseteq Statuses /\ \A s \in Statuses : s \in Nat
      <4>1. job \in Jobs /\ seen \subseteq Statuses
        BY DEF XTyped
      <4>2. Statuses \subseteq 0..255
        BY <4>1, JobFacts
      <4> QED BY <4>1, <4>2
    <3> QED BY <3>1, <3>2
  <2> QED BY <1>0, <1>4, <2>1 DEF X!RunEmpty, XTyped
<1>5. CASE X!WaitPid \/ X!WaitAny
  <2>1. PICK e \in ended : status' = X!Update(e.status) /\ pids' = pids \ {e.batch}
    BY <1>5 DEF X!WaitPid, X!WaitAny
  <2>2. e.status \in 0..255
    BY <2>1, JobFacts DEF EndedOnce, XTyped
  <2>3. status' \in Nat
    BY <2>1, <2>2, UpdateProperties DEF XTyped
  <2>4. UNCHANGED <<start, seen, given, forkFails>> /\ phase' \in {"batches", phase}
    BY <1>5 DEF X!WaitPid, X!WaitAny
  <2> QED BY <1>0, <2>1, <2>3, <2>4 DEF XTyped
<1>6. CASE X!Drain \/ X!Return
  BY <1>0, <1>6 DEF X!Drain, X!Return, XTyped
<1>7. CASE X!CommandEnds \/ X!ForeignEnds
  BY <1>0, <1>7 DEF X!CommandEnds, X!Ends, X!ForeignEnds, XTyped
<1>8. CASE UNCHANGED X!xvars
  BY <1>0, <1>8 DEF X!xvars, XTyped
<1> QED BY <1>1, <1>2, <1>3, <1>4, <1>5, <1>6, <1>7, <1>8 DEF X!Next, X!Step

LEMMA EndedOnceKept ==
    ASSUME X!XargsAssumption, XInv, [X!Next]_(X!xvars)
    PROVE  EndedOnce'
<1> USE DEF XInv
<1>1. CASE \/ X!StopAtLimit \/ X!RunFails \/ X!Drain \/ X!Return \/ UNCHANGED X!xvars
  BY <1>1 DEF X!StopAtLimit, X!RunFails, X!Drain, X!Return, X!xvars, EndedOnce
<1>2. CASE X!Run
  <2>1. pids \subseteq pids' /\ UNCHANGED <<ended, seen, other>>
    BY <1>2 DEF X!Run
  <2> QED BY <2>1 DEF EndedOnce
<1>3. CASE X!RunEmpty
  <2>1. UNCHANGED <<ended, other, pids>> /\ phase = "batches" /\ X!Items = <<>>
    BY <1>3 DEF X!RunEmpty
  <2>2. start = 1
    BY <2>1, JobFacts DEF XTyped
  <2>3. pids = {}
    BY <2>2 DEF XTyped
  <2>4. \A e \in ended : e.batch = X!Foreign
    BY <2>3 DEF EndedOnce
  <2> QED BY <2>1, <2>4 DEF EndedOnce
<1>4. CASE X!WaitPid \/ X!WaitAny
  <2>1. PICK e \in ended : ended' = ended \ {e} /\ pids' = pids \ {e.batch}
    BY <1>4 DEF X!WaitPid, X!WaitAny
  <2>2. UNCHANGED <<seen, other>>
    BY <1>4 DEF X!WaitPid, X!WaitAny
  <2>3. \A d \in ended' : d.batch # e.batch /\ d \in ended
    BY <2>1 DEF EndedOnce
  <2>4. \A d \in ended' : d \in [batch : pids' \cup {X!Foreign}, status : Statuses]
    BY <2>1, <2>3 DEF EndedOnce
  <2> QED BY <2>2, <2>3, <2>4 DEF EndedOnce
<1>5. CASE X!CommandEnds
  <2>1. PICK b \in pids, s \in Statuses :
            /\ \A e \in ended : e.batch # b
            /\ ended' = ended \cup {[batch |-> b, status |-> s]} /\ seen' = seen \cup {s}
    BY <1>5 DEF X!CommandEnds, X!Ends
  <2>2. UNCHANGED <<pids, other>>
    BY <1>5 DEF X!CommandEnds, X!Ends
  <2>3. b # X!Foreign
    BY DEF X!Foreign, XTyped
  <2> QED BY <2>1, <2>2, <2>3 DEF EndedOnce
<1>6. CASE X!ForeignEnds
  <2>1. PICK s \in Statuses : ended' = ended \cup {[batch |-> X!Foreign, status |-> s]}
    BY <1>6 DEF X!ForeignEnds
  <2>2. UNCHANGED <<pids, seen>> /\ other = "alive" /\ other' = "over"
    BY <1>6 DEF X!ForeignEnds
  <2>3. \A e \in ended : e.batch # X!Foreign
    BY <2>2 DEF EndedOnce
  <2> QED BY <2>1, <2>2, <2>3 DEF EndedOnce
<1> QED BY <1>1, <1>2, <1>3, <1>4, <1>5, <1>6 DEF X!Next, X!Step

LEMMA SlotsKept ==
    ASSUME X!XargsAssumption, XInv, [X!Next]_(X!xvars)
    PROVE  Slots'
<1> USE DEF XInv
<1>0. job' = job /\ X!Parallel' = X!Parallel
  BY DEF X!Parallel, X!Next, X!Step, X!CommandEnds, X!xvars, X!StopAtLimit, X!Run, X!RunFails, X!RunEmpty,
         X!WaitPid, X!WaitAny, X!Drain, X!Return, X!Ends, X!ForeignEnds
<1>a. IsFiniteSet(pids) /\ Cardinality(pids) \in Nat
  <2>1. IsFiniteSet(1..(start - 1))
    BY FS_Interval, JobFacts DEF XTyped
  <2>2. IsFiniteSet(pids)
    BY <2>1, FS_Subset DEF XTyped
  <2> QED BY <2>2, FS_CardinalityType
<1>1. CASE X!StopAtLimit \/ X!Drain
  <2>1. phase = "batches" /\ phase' = "drain" /\ pids' = pids
    BY <1>1 DEF X!StopAtLimit, X!Drain, X!HasBatch
  <2> QED BY <1>0, <2>1 DEF Slots
<1>2. CASE X!Run
  <2>0. ~X!MustWait
    BY <1>2 DEF X!Run, X!Ready
  <2>1. X!HasBatch /\ pids' = pids \cup {start}
        /\ phase' = IF X!Parallel THEN "batches" ELSE "running"
    BY <1>2 DEF X!Run, X!Ready
  <2>2. phase = "batches"
    BY <2>1 DEF X!HasBatch
  <2>3. CASE X!Parallel
    <3>1. job.maxProcs > 1 /\ Cardinality(pids) < job.maxProcs
      <4>1. job.maxProcs \in Nat
        BY JobFacts DEF XTyped
      <4>2. job.maxProcs > 1
        BY <2>3 DEF X!Parallel
      <4>3. ~(job.maxProcs > 0 /\ Cardinality(pids) >= job.maxProcs)
        BY <2>0, SameCardinality DEF X!MustWait
      <4> QED BY <1>a, <4>1, <4>2, <4>3
    <3>2. Cardinality(pids') <= Cardinality(pids) + 1
      BY <1>a, <2>1, FS_AddElement
    <3>3. IsFiniteSet(pids') /\ Cardinality(pids') \in Nat
      BY <1>a, <2>1, FS_AddElement, FS_CardinalityType
    <3>4. Cardinality(pids') <= job.maxProcs
      BY <1>a, <3>1, <3>2, <3>3, JobFacts DEF XTyped
    <3> QED BY <1>0, <2>1, <2>3, <3>4 DEF Slots
  <2>4. CASE ~X!Parallel
    <3>1. pids' = {start}
      BY <2>1, <2>2, <2>4 DEF Slots
    <3>2. Cardinality(pids') = 1
      BY <3>1, FS_Singleton
    <3> QED BY <1>0, <2>1, <2>4, <3>1, <3>2 DEF Slots
  <2> QED BY <2>3, <2>4
<1>3. CASE X!RunFails \/ X!CommandEnds \/ X!ForeignEnds \/ UNCHANGED X!xvars
  <2>1. UNCHANGED <<phase, pids>>
    BY <1>3 DEF X!RunFails, X!CommandEnds, X!Ends, X!ForeignEnds, X!xvars
  <2> QED BY <1>0, <2>1 DEF Slots
<1>4. CASE X!RunEmpty
  <2>1. X!Items = <<>> /\ phase = "batches" /\ phase' = "done" /\ pids' = pids
    BY <1>4 DEF X!RunEmpty
  <2>2. pids' = {}
    BY <2>1, JobFacts DEF XTyped
  <2> QED BY <1>0, <2>1, <2>2 DEF Slots
<1>5. CASE X!WaitPid \/ X!WaitAny
  <2>1. PICK e \in ended : pids' = pids \ {e.batch}
    BY <1>5 DEF X!WaitPid, X!WaitAny
  <2>2. Cardinality(pids') \in Nat /\ Cardinality(pids') <= Cardinality(pids)
    <3>1. pids' \subseteq pids
      BY <2>1
    <3> QED BY <1>a, <3>1, FS_Subset, FS_CardinalityType
  <2>3. Cardinality(pids') <= (IF X!Parallel THEN job.maxProcs ELSE 1)
    BY <1>a, <2>2, JobFacts DEF Slots, XTyped
  <2>4. CASE X!WaitPid
    <3>1. phase' = "batches" /\ pids' = {}
      BY <2>4 DEF X!WaitPid, Slots
    <3> QED BY <1>0, <2>3, <3>1 DEF Slots
  <2>5. CASE X!WaitAny
    <3>1. phase' = phase /\ phase \in {"batches", "drain"}
      BY <2>5 DEF X!WaitAny, X!HasBatch
    <3> QED BY <1>0, <2>1, <2>3, <3>1 DEF Slots
  <2> QED BY <1>5, <2>4, <2>5
<1>6. CASE X!Return
  <2>1. pids = {} /\ pids' = {} /\ phase' = "done"
    BY <1>6 DEF X!Return
  <2> QED BY <1>0, <2>1 DEF Slots
<1> QED BY <1>1, <1>2, <1>3, <1>4, <1>5, <1>6 DEF X!Next, X!Step

LEMMA HandingKept ==
    ASSUME X!XargsAssumption, XInv, [X!Next]_(X!xvars)
    PROVE  Handing'
<1> USE DEF XInv
<1>0. start \in Nat /\ forkFails \in Nat /\ given \in Seq(Nat \X Nat) /\ Len(given) \in Nat
  <2>1. start \in Nat /\ forkFails \in Nat /\ given \in Seq(Nat \X Nat)
    BY JobFacts DEF XTyped
  <2> QED BY <2>1, LenProperties
<1>1. CASE X!Run
  <2> DEFINE n == Len(given)
             b == X!Batch
  <2>1. X!HasBatch /\ given' = Append(given, b) /\ start' = X!BatchEnd(start) + 1 /\ forkFails' = forkFails
    BY <1>1 DEF X!Run, X!Ready, X!Handed
  <2>2. X!BatchEnd(start) \in Nat /\ start <= X!BatchEnd(start)
    BY <1>0, <2>1, BatchFacts, JobFacts DEF XTyped
  <2>3. b \in Nat \X Nat /\ b[1] = start /\ b[2] = X!BatchEnd(start)
    BY <1>0, <2>2 DEF X!Batch
  <2>4. Len(given') = n + 1 /\ given'[n + 1] = b /\ \A i \in 1..n : given'[i] = given[i]
    BY <1>0, <2>1, <2>3, AppendProperties
  <2>5. given' # <<>>
    BY <1>0, <2>1, <2>3, AppendProperties
  <2>6. \A i \in 1..n : given[i][1] \in Nat /\ given[i][2] \in Nat
    BY <1>0, ElementOfSeq
  <2> HIDE DEF b
  <2>7. ASSUME NEW i \in 1..Len(given')
        PROVE  /\ given'[i][1] <= given'[i][2] /\ given'[i][2] < start'
               /\ i > 1 => given'[i][1] > given'[i - 1][2]
               /\ i > 1 /\ forkFails' = 0 => given'[i][1] = given'[i - 1][2] + 1
    <3>1. CASE i \in 1..n
      <4>1. given'[i] = given[i] /\ (i > 1 => given'[i - 1] = given[i - 1])
        <5>1. i > 1 => i - 1 \in 1..n
          BY <1>0, <3>1
        <5> QED BY <2>4, <3>1, <5>1
      <4>2. start < start'
        BY <1>0, <2>1, <2>2
      <4>3. given[i][2] < start'
        BY <1>0, <2>1, <2>2, <2>6, <3>1, <4>2 DEF Handing
      <4> QED BY <2>1, <3>1, <4>1, <4>3 DEF Handing
    <3>2. CASE i = n + 1
      <4>1. given'[i] = b
        BY <2>4, <3>2
      <4>2. ASSUME i > 1 PROVE n \in 1..n /\ given'[i - 1] = given[n]
        BY <1>0, <2>4, <3>2, <4>2
      <4>3. i > 1 => given[n][2] < start
        BY <4>2 DEF Handing
      <4>4. i > 1 /\ forkFails = 0 => start = given[n][2] + 1
        <5>1. i > 1 => given # <<>>
          BY <1>0, <3>2, EmptySeq
        <5>2. i > 1 /\ forkFails = 0 => given[n][2] = start - 1 /\ given[n][2] \in Nat
          BY <2>6, <4>2, <5>1 DEF Handing
        <5> QED BY <1>0, <5>2
      <4> QED BY <1>0, <2>1, <2>2, <2>3, <2>6, <4>1, <4>2, <4>3, <4>4
    <3> QED BY <1>0, <2>4, <3>1, <3>2
  <2>8. forkFails = 0 => given'[1][1] = 1 /\ given'[Len(given')][2] = start' - 1
    <3>1. CASE given = <<>>
      <4>1. n = 0
        BY <3>1, EmptySeq
      <4> QED BY <1>0, <2>1, <2>2, <2>3, <2>4, <3>1, <4>1 DEF Handing
    <3>2. CASE given # <<>>
      <4>1. 1 \in 1..n
        BY <1>0, <3>2, EmptySeq
      <4> QED BY <1>0, <2>1, <2>2, <2>3, <2>4, <3>2, <4>1 DEF Handing
    <3> QED BY <3>1, <3>2
  <2> QED BY <2>1, <2>5, <2>7, <2>8 DEF Handing
<1>2. CASE X!RunFails
  <2>1. X!HasBatch /\ start' = X!BatchEnd(start) + 1 /\ forkFails' = forkFails + 1 /\ given' = given
    BY <1>2 DEF X!RunFails, X!Ready, X!ForkFails
  <2>2. start' \in Nat /\ start < start'
    BY <1>0, <2>1, BatchFacts, JobFacts DEF XTyped
  <2>3. forkFails' # 0
    BY <1>0, <2>1
  <2>4. \A i \in 1..Len(given) : given[i][2] \in Nat
    BY <1>0, ElementOfSeq
  <2>5. \A i \in 1..Len(given) : given[i][2] < start'
    BY <1>0, <2>2, <2>4 DEF Handing
  <2> QED BY <2>1, <2>3, <2>5 DEF Handing
<1>3. CASE ~X!Run /\ ~X!RunFails
  <2>1. UNCHANGED <<given, start, forkFails>>
    BY <1>3 DEF X!Next, X!Step, X!CommandEnds, X!xvars, X!StopAtLimit, X!RunEmpty,
         X!WaitPid, X!WaitAny, X!Drain, X!Return, X!Ends, X!ForeignEnds
  <2> QED BY <2>1 DEF Handing
<1> QED BY <1>1, <1>2, <1>3

LEMMA FailingKept ==
    ASSUME X!XargsAssumption, XInv, [X!Next]_(X!xvars)
    PROVE  Failing'
<1> USE DEF XInv
<1>1. CASE X!StopAtLimit
  BY <1>1 DEF X!StopAtLimit, Failing
<1>2. CASE X!RunFails
  <2>1. UNCHANGED <<seen, ended>> /\ (status' = status \/ status' = X!Update(1))
    BY <1>2 DEF X!RunFails
  <2>2. status' # 0 \/ status' = status
    BY <2>1, UpdateProperties DEF XTyped
  <2> QED BY <2>1, <2>2 DEF Failing
<1>3. CASE X!RunEmpty
  <2>1. X!Items = <<>> /\ phase = "batches"
    BY <1>3 DEF X!RunEmpty
  <2>2. seen = {}
    BY <2>1 DEF Reported
  <2> QED BY <1>3, <2>2 DEF X!RunEmpty, Failing
<1>4. CASE X!WaitPid \/ X!WaitAny
  <2>1. PICK e \in ended : status' = X!Update(e.status) /\ ended' = ended \ {e}
    BY <1>4 DEF X!WaitPid, X!WaitAny
  <2>2. seen' = seen
    BY <1>4 DEF X!WaitPid, X!WaitAny
  <2>3. e.status \in 0..255
    BY <2>1, JobFacts DEF EndedOnce, XTyped
  <2>4. status' = 0 => status = 0 /\ e.status = 0
    BY <2>1, <2>3, UpdateProperties DEF XTyped
  <2>5. ASSUME NEW s \in seen, s # 0, status' = 0
        PROVE  \E d \in ended' : d.status = s
    <3>1. PICK d \in ended : d.status = s
      BY <2>4, <2>5 DEF Failing
    <3>2. d # e
      BY <2>4, <2>5, <3>1
    <3> QED BY <2>1, <3>1, <3>2
  <2> QED BY <2>2, <2>5 DEF Failing
<1>5. CASE X!CommandEnds
  <2>1. PICK b \in pids, s \in Statuses :
            ended' = ended \cup {[batch |-> b, status |-> s]} /\ seen' = seen \cup {s}
    BY <1>5 DEF X!CommandEnds, X!Ends
  <2>2. status' = status
    BY <1>5 DEF X!CommandEnds, X!Ends
  <2>3. \E e \in ended' : e.status = s
    <3>1. [batch |-> b, status |-> s] \in ended' /\ [batch |-> b, status |-> s].status = s
      BY <2>1
    <3> QED BY <3>1
  <2> QED BY <2>1, <2>2, <2>3 DEF Failing
<1>6. CASE X!ForeignEnds
  <2>1. UNCHANGED <<seen, status>> /\ ended \subseteq ended'
    BY <1>6 DEF X!ForeignEnds
  <2> QED BY <2>1 DEF Failing
<1>7. CASE X!Run \/ X!Drain \/ X!Return \/ UNCHANGED X!xvars
  <2>1. UNCHANGED <<seen, status, ended>>
    BY <1>7 DEF X!Run, X!Drain, X!Return, X!xvars
  <2> QED BY <2>1 DEF Failing
<1> QED BY <1>1, <1>2, <1>3, <1>4, <1>5, <1>6, <1>7 DEF X!Next, X!Step

LEMMA ReportedKept ==
    ASSUME X!XargsAssumption, XInv, [X!Next]_(X!xvars)
    PROVE  Reported'
<1> USE DEF XInv
<1>0. X!Items' = X!Items
  BY DEF X!Items, X!Next, X!Step, X!CommandEnds, X!xvars, X!StopAtLimit, X!Run, X!RunFails, X!RunEmpty,
         X!WaitPid, X!WaitAny, X!Drain, X!Return, X!Ends, X!ForeignEnds
<1>1. CASE X!Items = <<>>
  <2>1. pids = {} /\ ~X!HasBatch /\ phase \in {"batches", "done"}
    <3>1. start = 1 /\ ~X!HasBatch
      BY <1>1, JobFacts DEF XTyped, X!HasBatch
    <3> QED BY <1>1, <3>1 DEF XTyped, Reported
  <2>2. CASE X!RunEmpty
    <3>1. phase = "batches" /\ phase' = "done" /\ X!Items' = <<>>
      BY <1>0, <1>1, <2>2 DEF X!RunEmpty
    <3>2. seen = {}
      BY <1>1, <3>1 DEF Reported
    <3>3. \/ status' = 0 /\ seen' = {}
          \/ seen' = {status'}
      BY <2>2, <3>2 DEF X!RunEmpty
    <3> QED BY <3>1, <3>3 DEF Reported
  <2>3. CASE ~X!RunEmpty
    <3>1. ~X!StopAtLimit /\ ~X!Run /\ ~X!RunFails /\ ~X!CommandEnds
      BY <2>1 DEF X!StopAtLimit, X!Run, X!RunFails, X!Ready, X!CommandEnds
    <3>2. ~X!WaitPid /\ ~X!WaitAny /\ ~X!Drain /\ ~X!Return
      BY <1>1, <2>1 DEF X!WaitPid, X!WaitAny, X!Drain, X!Return
    <3>3. UNCHANGED <<phase, seen, status>>
      BY <2>3, <3>1, <3>2 DEF X!Next, X!Step, X!ForeignEnds, X!xvars
    <3> QED BY <1>0, <1>1, <3>3 DEF Reported
  <2> QED BY <2>2, <2>3
<1>2. ASSUME X!Items # <<>>, Own' PROVE Justified'
  <2>a. start' \in Nat /\ start \in Nat /\ forkFails \in Nat /\ Len(X!Items) \in Nat
    BY XTypedKept, JobFacts DEF XTyped
  <2>1. CASE X!StopAtLimit
    <3>1. phase' = "drain" /\ start' = start /\ start <= Len(X!Items)
      BY <2>1 DEF X!StopAtLimit, X!HasBatch
    <3>2. X!Cut'
      BY <1>0, <3>1 DEF X!Cut
    <3> QED BY <1>2, <3>1, <3>2 DEF Own
  <2>2. CASE X!RunFails
    <3>1. forkFails' # 0
      BY <2>a, <2>2 DEF X!RunFails, X!ForkFails
    <3> QED BY <1>2, <3>1 DEF Own
  <2>3. CASE X!Run
    <3>1. Own
      BY <1>2, <2>3 DEF Own, X!Run, X!Ready, X!HasBatch
    <3> QED BY <1>2, <2>3, <3>1 DEF X!Run, Reported, Justified
  <2>4. CASE X!RunEmpty
    BY <1>2, <2>4 DEF X!RunEmpty
  <2>5. CASE X!WaitPid \/ X!WaitAny
    <3>1. PICK e \in ended : status' = X!Update(e.status)
      BY <2>5 DEF X!WaitPid, X!WaitAny
    <3>2. UNCHANGED <<start, seen, other, forkFails>> /\ (phase' = phase \/ phase = "running")
      BY <2>5 DEF X!WaitPid, X!WaitAny
    <3>3. X!Cut' = X!Cut
      BY <1>0, <3>2 DEF X!Cut
    <3>4. Own
      BY <1>2, <3>2, <3>3 DEF Own
    <3>5. Justified
      BY <1>2, <3>4 DEF Reported
    <3>6. e.batch # X!Foreign
      BY <3>4 DEF Own, EndedOnce
    <3>7. e.status \in seen /\ e.status \in Statuses
      BY <3>6 DEF EndedOnce
    <3>8. e.status \in 0..255
      BY <3>7, JobFacts DEF XTyped
    <3>9. status \in Nat /\ seen' = seen
      BY <3>2 DEF XTyped
    <3> QED BY <3>1, <3>5, <3>7, <3>8, <3>9, UpdateIsJustified
  <2>6. CASE X!Drain \/ X!Return \/ UNCHANGED X!xvars
    <3>1. UNCHANGED <<start, seen, status, other, forkFails>>
      BY <2>6 DEF X!Drain, X!Return, X!xvars
    <3>2. X!Cut' = X!Cut
      BY <1>0, <3>1 DEF X!Cut
    <3>3. phase' \in {"batches", "running"} => phase = phase'
      BY <2>6 DEF X!Drain, X!Return, X!xvars
    <3>4. Own
      BY <1>2, <3>1, <3>2, <3>3 DEF Own
    <3> QED BY <1>2, <3>1, <3>4 DEF Reported, Justified
  <2>7. CASE X!CommandEnds \/ X!ForeignEnds
    <3>1. UNCHANGED <<start, phase, status, forkFails>> /\ seen \subseteq seen'
          /\ (other' = other \/ other' = "over")
      BY <2>7 DEF X!CommandEnds, X!Ends, X!ForeignEnds
    <3>2. X!Cut' = X!Cut
      BY <1>0, <3>1 DEF X!Cut
    <3>3. Own
      BY <1>2, <3>1, <3>2 DEF Own
    <3>4. Justified
      BY <1>2, <3>3 DEF Reported
    <3> QED BY <3>1, <3>4 DEF Justified
  <2> QED BY <2>1, <2>2, <2>3, <2>4, <2>5, <2>6, <2>7 DEF X!Next, X!Step
<1>3. CASE X!Items # <<>>
  BY <1>0, <1>2, <1>3 DEF Reported
<1> QED BY <1>1, <1>3

-----------------------------------------------------------------------------
(* xargs: the theorem.                                                     *)

\* The invariant says what is promised.
LEMMA XInvIsRight ==
    ASSUME X!XargsAssumption, XInv
    PROVE  X!XargsIsRight
<1> USE DEF XInv
<1>1. X!AtMostMaxProcs
  <2>1. job.maxProcs \in Nat
    BY JobFacts DEF XTyped
  <2>2. X!Max({1, job.maxProcs}) \in Nat /\ \A m \in {1, job.maxProcs} : X!Max({1, job.maxProcs}) >= m
    <3>1. {1, job.maxProcs} \in SUBSET Nat /\ {1, job.maxProcs} # {}
          /\ \A s \in {1, job.maxProcs} : s <= job.maxProcs + 1
      BY <2>1
    <3>2. job.maxProcs + 1 \in Nat
      BY <2>1
    <3> QED BY <3>1, <3>2, GreatestExists
  <2>3. Cardinality(pids) \in Nat
    <3>1. IsFiniteSet(1..(start - 1))
      BY FS_Interval, JobFacts DEF XTyped
    <3> QED BY <3>1, FS_Subset, FS_CardinalityType DEF XTyped
  <2>4. Cardinality(pids) <= 1 \/ Cardinality(pids) <= job.maxProcs
    BY DEF Slots
  <2>5. Cardinality(pids) <= X!Max({1, job.maxProcs})
    <3> DEFINE max == X!Max({1, job.maxProcs})
    <3>1. max \in Nat /\ max >= 1 /\ max >= job.maxProcs
      BY <2>2
    <3> HIDE DEF max
    <3>2. Cardinality(pids) <= max
      BY <2>1, <2>3, <2>4, <3>1
    <3> QED BY <3>2 DEF max
  <2> QED BY <2>5, SameCardinality DEF X!AtMostMaxProcs
<1>2. X!EveryItemOnce
  <2>1. \A i \in 1..Len(given) :
            /\ given[i][1] <= given[i][2]
            /\ i > 1 /\ forkFails = 0 => given[i][1] = given[i - 1][2] + 1
            /\ i > 1 => given[i][1] > given[i - 1][2]
    BY DEF Handing
  <2>2. phase = "done" => pids = {}
    BY DEF Slots
  <2>3. ASSUME forkFails = 0, ~X!Cut, X!Items # <<>>
        PROVE  given # <<>> /\ given[1][1] = 1 /\ X!Last(given)[2] = Len(X!Items)
    <3>1. Len(X!Items) \in Nat /\ Len(X!Items) # 0 /\ start \in 1..(Len(X!Items) + 1)
      BY <2>3, JobFacts DEF XTyped
    <3>2. start = Len(X!Items) + 1 /\ start # 1
      BY <2>3, <3>1 DEF X!Cut
    <3>3. given # <<>> /\ given[1][1] = 1 /\ given[Len(given)][2] = start - 1
      BY <2>3, <3>2 DEF Handing
    <3> QED BY <3>1, <3>2, <3>3 DEF X!Last
  <2> QED BY <2>1, <2>2, <2>3 DEF X!EveryItemOnce
<1>3. X!StatusIsOfACommand
  <2> SUFFICES ASSUME phase = "done", forkFails = 0, ~X!Cut, other = "none"
               PROVE  /\ status = 0 <=> seen \subseteq {0}
                      /\ X!Items # <<>> =>
                          /\ status = 123 => seen \cap (1..125) # {}
                          /\ status = 124 => 255 \in seen
                          /\ status \in {126, 127} => status \in seen
                      /\ X!Items = <<>> => seen \subseteq {status}
    BY DEF X!StatusIsOfACommand
  <2>1. CASE X!Items = <<>>
    BY <2>1 DEF Reported
  <2>2. CASE X!Items # <<>>
    <3>1. Justified
      BY <2>2 DEF Reported, Own
    <3>2. pids = {} /\ ended = {}
      BY DEF Slots, EndedOnce
    <3>3. status = 0 => \A s \in seen : s = 0
      BY <3>2 DEF Failing
    <3> QED BY <2>2, <3>1, <3>3 DEF Justified
  <2> QED BY <2>1, <2>2
<1> QED BY <1>1, <1>2, <1>3 DEF X!XargsIsRight

\* xargs hands on every item once and in order, runs no more commands than -P
\* says, waits for all of them, and exits as one that failed if any did: for any
\* items, options and budget, and whatever the order in which the commands end
\* (xargs.rs:29, 33; compute_batches, wait_for_any).
THEOREM XargsStaysRight ==
    X!XargsAssumption => (X!Spec => []X!XargsIsRight)
<1> SUFFICES ASSUME X!XargsAssumption PROVE X!Spec => []X!XargsIsRight
  OBVIOUS
<1>1. X!Init => XInv
  BY XInitXInv
<1>2. XInv /\ [X!Next]_(X!xvars) => XInv'
  BY XTypedKept, EndedOnceKept, SlotsKept, HandingKept, FailingKept, ReportedKept DEF XInv
<1>3. XInv => X!XargsIsRight
  BY XInvIsRight
<1> QED BY <1>1, <1>2, <1>3, PTL DEF X!Spec
=============================================================================
