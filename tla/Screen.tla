-------------------------------- MODULE Screen --------------------------------
(***************************************************************************)
(* screen: one session (src/src/applets/misc/screen.rs).                   *)
(*                                                                         *)
(* A manager stands between the pty of a shell and the one client that is  *)
(* attached; clients come over a socket, take the place of the one before, *)
(* and leave when they like; "screen -d" is a client that says DETACH.     *)
(* The manager acts on what one poll reported, one descriptor after the    *)
(* other, though the client may by then be another.  A write to a closed   *)
(* connection kills the writer: SIGPIPE is not ignored.                    *)
(***************************************************************************)
EXTENDS Integers, Sequences, SequencesExt, Functions

CONSTANTS Users,      \* who may attach (screen -r), numbered in that order
          Detacher,   \* screen -d
          MaxOutput,  \* bound: what the shell writes
          MaxKeys     \* bound: what the users type
Clients == Users \cup {Detacher}
None == 0

VARIABLES
  shell,    \* "runs", "ended", "hung_up"
  manager,  \* "poll", "accept", "output", "input", "gone", "killed"
  events,   \* revents not looked at yet: \subseteq {"master", "listen", "client", "hup"}
  clientFd, \* who is attached, or None
  backlog,  \* connections to be accepted
  pc,       \* pc[c]: "out", "connects", "attached", "returned", "killed"
  ours,     \* connections that the manager has not closed
  inbox,    \* inbox[c]: sent by c and not read
  outbox,   \* outbox[c]: sent to c and not read
  typed,    \* typed[c]: how many keys c has sent
  seen,     \* seen[c]: what c has got
  written,  \* how much the shell has written
  pty,      \* output in the pty
  got       \* what the shell has read
vars == <<shell, manager, events, clientFd, backlog, pc, ours, inbox, outbox, typed, seen,
          written, pty, got>>
cvars == <<pc, typed, seen>>

ScreenInit ==
    /\ shell = "runs" /\ manager = "poll" /\ events = {} /\ clientFd = None /\ backlog = <<>>
    /\ pc = [c \in Clients |-> "out"] /\ ours = {}
    /\ inbox = [c \in Clients |-> <<>>] /\ outbox = [c \in Clients |-> <<>>]
    /\ typed = [c \in Clients |-> 0] /\ seen = [c \in Clients |-> <<>>]
    /\ written = 0 /\ pty = <<>> /\ got = <<>>

\* The client has closed its end.
Left(c) == pc[c] \in {"returned", "killed"}
Alive == manager \notin {"gone", "killed"}

-----------------------------------------------------------------------------
(* The shell, a process of its own.                                        *)

ShellWrites ==
    /\ shell = "runs" /\ written < MaxOutput
    /\ written' = written + 1 /\ pty' = Append(pty, written')
    /\ UNCHANGED <<shell, manager, events, clientFd, backlog, pc, ours, inbox, outbox, typed, seen, got>>

ShellEnds ==
    /\ shell = "runs" /\ shell' = "ended"
    /\ UNCHANGED <<manager, events, clientFd, backlog, pc, ours, inbox, outbox, typed, seen, written, pty, got>>

-----------------------------------------------------------------------------
(* The manager                                                             *)

\* What poll() reports.
Reported ==
    {e \in {"master", "listen", "client", "hup"} :
        \/ e = "master" /\ pty # <<>>
        \/ e = "listen" /\ backlog # <<>>
        \/ e = "client" /\ clientFd # None /\ (inbox[clientFd] # <<>> \/ Left(clientFd))
        \/ e = "hup" /\ clientFd # None /\ Left(clientFd)}

\* (mutant: it does not look after the shell)
Poll_NoShell ==
    /\ manager = "poll" /\ shell # "ended"
    /\ manager' = "accept" /\ events' = Reported
    /\ UNCHANGED <<shell, clientFd, backlog, cvars, ours, inbox, outbox, written, pty, got>>

Poll ==
    /\ manager = "poll"
    /\ IF shell = "ended"
       THEN /\ manager' = "gone" /\ events' = {} /\ ours' = {} /\ clientFd' = None /\ backlog' = <<>>
       ELSE /\ manager' = "accept" /\ events' = Reported /\ UNCHANGED <<ours, clientFd, backlog>>
    /\ UNCHANGED <<shell, cvars, inbox, outbox, written, pty, got>>

Accept ==
    /\ manager = "accept" /\ manager' = "output"
    /\ IF "listen" \in events
       THEN clientFd' = Head(backlog) /\ backlog' = Tail(backlog) /\ ours' = ours \ {clientFd}
       ELSE UNCHANGED <<clientFd, backlog, ours>>
    /\ events' = events \ {"listen"}
    /\ UNCHANGED <<shell, cvars, inbox, outbox, written, pty, got>>

\* (mutant: it is read when it has been sent to the client)
Output_ReadTwice ==
    /\ manager = "output" /\ manager' = "input"
    /\ IF "master" \in events /\ clientFd # None
       THEN outbox' = [outbox EXCEPT ![clientFd] = @ \o pty] ELSE UNCHANGED outbox
    /\ events' = events \ {"master"}
    /\ UNCHANGED <<shell, clientFd, backlog, ours, cvars, inbox, written, pty, got>>

\* Output that no client is there for is lost.
Output ==
    /\ manager = "output"
    /\ IF "master" \in events /\ clientFd # None /\ Left(clientFd)
       THEN \* SIGPIPE; the pty is closed
            /\ manager' = "killed" /\ shell' = (IF shell = "runs" THEN "hung_up" ELSE shell)
            /\ ours' = {} /\ backlog' = <<>> /\ clientFd' = None /\ UNCHANGED <<outbox, pty>>
       ELSE /\ manager' = "input" /\ UNCHANGED <<shell, ours, backlog, clientFd>>
            /\ IF "master" \notin events THEN UNCHANGED <<outbox, pty>>
               ELSE /\ pty' = <<>>
                    /\ outbox' = IF clientFd = None THEN outbox ELSE [outbox EXCEPT ![clientFd] = @ \o pty]
    /\ events' = events \ {"master"}
    /\ UNCHANGED <<cvars, inbox, written, got>>

Says(c) == inbox[c] # <<>> /\ Head(inbox[c]).from = Detacher

\* A read from whoever is the client now; it waits for one that is silent.  Then
\* the client is closed if poll said that it, or the one before, hung up.
Reads == "client" \in events /\ clientFd # None
Waits == Reads /\ inbox[clientFd] = <<>> /\ ~Left(clientFd)
Input ==
    /\ manager = "input" /\ manager' = "poll" /\ events' = {} /\ ~Waits
    /\ inbox' = IF Reads THEN [inbox EXCEPT ![clientFd] = <<>>] ELSE inbox
    /\ got' = IF Reads /\ ~Says(clientFd) THEN got \o inbox[clientFd] ELSE got
    /\ IF "hup" \in events \/ (Reads /\ (inbox[clientFd] = <<>> \/ Says(clientFd)))
       THEN clientFd' = None /\ ours' = ours \ {clientFd}
       ELSE UNCHANGED <<clientFd, ours>>
    /\ UNCHANGED <<shell, backlog, cvars, outbox, written, pty>>

-----------------------------------------------------------------------------
(* Clients.  A connection is made before the manager accepts it.           *)

Connect(c) ==
    /\ pc[c] = "out" /\ \A d \in Users : c \in Users /\ d < c => pc[d] # "out"
    /\ IF Alive
       THEN /\ pc' = [pc EXCEPT ![c] = "attached"] /\ backlog' = Append(backlog, c) /\ ours' = ours \cup {c}
       ELSE pc' = [pc EXCEPT ![c] = "returned"] /\ UNCHANGED <<backlog, ours>>
    /\ UNCHANGED <<shell, manager, events, clientFd, inbox, outbox, typed, seen, written, pty, got>>

\* Typed input is sent on; DETACH is sent, and the connection closed.
Sends(c) ==
    /\ pc[c] = "attached"
    /\ IF c \notin ours THEN pc' = [pc EXCEPT ![c] = "killed"] /\ UNCHANGED <<inbox, typed>>
       ELSE /\ inbox' = [inbox EXCEPT ![c] = Append(@, [from |-> c, key |-> typed[c] + 1])]
            /\ typed' = [typed EXCEPT ![c] = @ + 1]
            /\ pc' = IF c = Detacher THEN [pc EXCEPT ![c] = "returned"] ELSE pc
    /\ UNCHANGED <<shell, manager, events, clientFd, backlog, ours, outbox, seen, written, pty, got>>
Type(c) == c \in Users /\ SumFunctionOnSet(typed, Users) < MaxKeys /\ Sends(c)
Detach == Sends(Detacher)

\* The terminal is restored.
Return(c) == pc' = [pc EXCEPT ![c] = "returned"]

\* Ctrl+A d.
Leave(c) ==
    /\ pc[c] = "attached" /\ c \in Users /\ Return(c)
    /\ UNCHANGED <<shell, manager, events, clientFd, backlog, ours, inbox, outbox, typed, seen, written, pty, got>>

\* Output is shown; a hangup ends the relay.
Receive(c) ==
    /\ pc[c] = "attached" /\ c \in Users
    /\ outbox[c] # <<>> \/ c \notin ours
    /\ seen' = [seen EXCEPT ![c] = @ \o outbox[c]] /\ outbox' = [outbox EXCEPT ![c] = <<>>]
    /\ IF c \in ours THEN UNCHANGED pc ELSE Return(c)
    /\ UNCHANGED <<shell, manager, events, clientFd, backlog, ours, inbox, typed, written, pty, got>>

ScreenNext ==
    \/ ShellWrites \/ ShellEnds
    \/ Poll \/ Accept \/ Output \/ Input
    \/ Detach \/ \E c \in Clients : Connect(c) \/ Type(c) \/ Leave(c) \/ Receive(c)

\* The manager goes on, as poll returns after 100 ms; clients are woken by
\* what is sent to them; screen -d does not wait for anyone.
Fairness ==
    /\ WF_vars(Poll \/ Accept \/ Output \/ Input)
    /\ WF_vars(Detach) /\ \A c \in Users : WF_vars(Receive(c))
ScreenSpec == ScreenInit /\ [][ScreenNext]_vars /\ Fairness

-----------------------------------------------------------------------------
(* Properties                                                              *)

Numbers(from, to) == [k \in 1..(IF to < from THEN 0 ELSE to - from + 1) |-> from + k - 1]

\* Each client sees a gapless part of what the shell wrote, and nothing is
\* shown to two of them, whoever took over from whom between two polls.
OutputIsPartedOut ==
    LET All(c) == seen[c] \o outbox[c]
    IN  /\ \A c \in Clients : All(c) # <<>> => All(c) = Numbers(Head(All(c)), Last(All(c)))
        /\ \A c, d \in Clients : c # d => ToSet(All(c)) \cap ToSet(All(d)) = {}

\* The shell reads what the users typed, each one's keys in order and none
\* twice, and never the word of screen -d, also when the manager reads from
\* another client than the one poll spoke of.
InputIsAsTyped ==
    \A i \in DOMAIN got :
        LET c == got[i].from
        IN  /\ c # Detacher /\ got[i].key \in 1..typed[c]
            /\ \A k \in 1..typed[c] :
                    k < got[i].key <=> \E j \in 1..(i - 1) : got[j] = [from |-> c, key |-> k]

\* When the shell has ended, or the session is gone otherwise, no client
\* stays.  A manager that reads from a silent client, since another was heard
\* in the poll before, is the exception.
ClientsReturn ==
    (shell # "runs") ~> ((\A c \in Users : pc[c] # "attached") \/ (manager = "input" /\ Waits))

\* Who was attached when screen -d has said DETACH, is not for long.
DetachDetaches ==
    \A c \in Users :
        (pc[Detacher] = "returned" /\ typed[Detacher] = 1 /\ clientFd = c /\ Detacher \in ToSet(backlog))
            ~> (pc[c] # "attached" \/ (manager = "input" /\ Waits))
=============================================================================
