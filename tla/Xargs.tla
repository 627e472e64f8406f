--------------------------------- MODULE Xargs ---------------------------------
(***************************************************************************)
(* xargs (src/src/applets/file/xargs.rs): items from the input become the  *)
(* arguments of commands, batch by batch, -P of which run at a time; their *)
(* statuses, in the order in which they end, make up its own.              *)
(*                                                                         *)
(* An item is its size.  xargs may have been exec'ed by a process that had *)
(* children: wait() reaps those as well.                                   *)
(***************************************************************************)
EXTENDS Integers, SequencesExt, FiniteSetsExt

CONSTANTS Jobs,       \* [items, maxArgs, maxProcs, replace, strict]; items: sizes
          Statuses,   \* what commands end with, of 0..255
          MaxBytes,   \* the budget derived from ARG_MAX
          MaxFails    \* bound: forks that fail

None == 0             \* no -n

XargsAssumption ==
    /\ Statuses \subseteq 0..255
    /\ Jobs \subseteq [items : Seq(Nat), maxArgs : Nat, maxProcs : Nat,
                      replace : BOOLEAN, strict : BOOLEAN]

VARIABLES
    job,       \* the options and the input
    phase,     \* "batches", "running" one command, "drain", "done"
    start,     \* the first item of the next batch
    pids,      \* running_pids: the batches whose commands run, by first item
    ended,     \* children that ended and were not waited for: [batch, status]
    status,    \* exit_status
    given,     \* what was handed to commands: sequence of <<first, last>>
    seen,      \* the statuses of commands, as they ended
    other,     \* a child that xargs did not start: "none", "alive" or "over"
    fails      \* how many forks failed

xvars == <<job, phase, start, pids, ended, status, given, seen, other, fails>>

Foreign == 0   \* the child xargs did not start, as a batch

Init ==
    /\ job \in Jobs
    /\ phase = "batches" /\ start = 1
    /\ pids = {} /\ ended = {} /\ status = 0
    /\ given = <<>> /\ seen = {} /\ fails = 0
    /\ other \in {"none", "alive"}

Items == job.items
Size(first, last) == FoldLeft(LAMBDA sum, size : sum + size + 1, 0, SubSeq(Items, first, last))

\* compute_batches: a batch has at least one item.  (With -I it has one.)
BatchEnd(first) ==
    IF job.replace THEN first
    ELSE Max({last \in first..Len(Items) :
               \/ last = first
               \/ /\ job.maxArgs # None => last - first < job.maxArgs
                  /\ Size(first, last) <= MaxBytes})

Batch == <<start, BatchEnd(start)>>
Count == BatchEnd(start) - start + 1

\* -x: an item too large by itself, or a batch cut short of -n.
TooLong ==
    /\ job.strict /\ ~job.replace
    /\ \/ job.maxArgs = None /\ Count = 1 /\ Size(start, start) > MaxBytes
       \/ job.maxArgs # None /\ Count < job.maxArgs /\ BatchEnd(start) < Len(Items)

Parallel == job.maxProcs > 1
HasBatch == phase = "batches" /\ start <= Len(Items)
\* (mutant: one too many)
MustWait_OneMore == job.maxProcs > 0 /\ Cardinality(pids) > job.maxProcs
MustWait == job.maxProcs > 0 /\ Cardinality(pids) >= job.maxProcs

\* update_exit_status.
Update(new) ==
    CASE new = 0 -> status
      [] new = 255 -> 124
      [] new \in {126, 127} -> new
      [] new \in 1..125 /\ status = 0 -> 123
      [] OTHER -> IF status = 0 THEN new ELSE status

StopAtLimit ==
    /\ HasBatch /\ TooLong
    /\ status' = 1 /\ phase' = "drain"
    /\ UNCHANGED <<job, start, pids, ended, given, seen, other, fails>>

Ready == HasBatch /\ ~TooLong /\ ~MustWait
ForkFails == fails < MaxFails /\ fails' = fails + 1

Handed == given' = Append(given, Batch) /\ start' = BatchEnd(start) + 1

\* fork_and_run, or run_command, which waits for this child only.
Run ==
    /\ Ready
    /\ Handed
    /\ pids' = pids \cup {start}
    /\ phase' = IF Parallel THEN "batches" ELSE "running"
    /\ UNCHANGED <<job, ended, status, seen, other, fails>>

\* In parallel the batch is dropped, and nothing remembers it.
RunFails ==
    /\ Ready /\ ForkFails
    /\ start' = BatchEnd(start) + 1
    /\ status' = IF Parallel THEN status ELSE Update(1)
    /\ UNCHANGED <<job, phase, pids, ended, given, seen, other>>

\* Without items the command runs once, unless -r, -n or -I is given: its status
\* is returned as it is.
RunEmpty ==
    /\ phase = "batches" /\ Items = <<>>
    /\ IF job.replace \/ job.maxArgs # None
       THEN status' = 0 /\ UNCHANGED seen
       ELSE \E s \in Statuses : status' = s /\ seen' = {s}
    /\ phase' = "done"
    /\ UNCHANGED <<job, start, pids, ended, given, other, fails>>

WaitPid ==
    /\ phase = "running"
    /\ \E e \in ended : /\ e.batch \in pids
                        /\ status' = Update(e.status)
                        /\ ended' = ended \ {e} /\ pids' = pids \ {e.batch}
    /\ phase' = "batches"
    /\ UNCHANGED <<job, start, given, seen, other, fails>>

\* wait_for_any: also a child that is not among the pids.
WaitAny ==
    /\ (HasBatch /\ ~TooLong /\ MustWait) \/ (phase = "drain" /\ pids # {})
    /\ \E e \in ended : /\ status' = Update(e.status)
                        /\ ended' = ended \ {e} /\ pids' = pids \ {e.batch}
    /\ UNCHANGED <<job, phase, start, given, seen, other, fails>>

Drain ==
    /\ phase = "batches" /\ start > Len(Items) /\ Items # <<>>
    /\ phase' = "drain"
    /\ UNCHANGED <<job, start, pids, ended, status, given, seen, other, fails>>

Return ==
    /\ phase = "drain" /\ pids = {}
    /\ phase' = "done"
    /\ UNCHANGED <<job, start, pids, ended, status, given, seen, other, fails>>

\* A command ends.
Ends(b) ==
    /\ b \in pids /\ \A e \in ended : e.batch # b
    /\ \E s \in Statuses : ended' = ended \cup {[batch |-> b, status |-> s]} /\ seen' = seen \cup {s}
    /\ UNCHANGED <<job, phase, start, pids, status, given, other, fails>>

ForeignEnds ==
    /\ other = "alive" /\ phase # "done"
    /\ \E s \in Statuses : ended' = ended \cup {[batch |-> Foreign, status |-> s]}
    /\ other' = "over"
    /\ UNCHANGED <<job, phase, start, pids, status, given, seen, fails>>

Step == StopAtLimit \/ Run \/ RunFails \/ RunEmpty \/ WaitPid \/ WaitAny \/ Drain \/ Return
CommandEnds == \E b \in pids : Ends(b)

Next == Step \/ CommandEnds \/ ForeignEnds

\* That xargs returns takes commands that end.
Spec == Init /\ [][Next]_xvars /\ WF_xvars(Step) /\ WF_xvars(CommandEnds)

-----------------------------------------------------------------------------
(* Properties                                                              *)

\* "Run up to MAXPROCS processes at a time" (xargs.rs:29), whatever else wait()
\* reaps.  (-P 0 is one at a time: max_procs > 1 decides.)
AtMostMaxProcs == Cardinality(pids) <= Max({1, job.maxProcs})

\* xargs stopped at its limit.
Cut == start <= Len(Items)

\* The items are handed on once each and in their order, whatever their sizes,
\* -n and -P are; at the end no command is left unwaited; left out are only
\* batches behind -x, and those for which a fork failed.
EveryItemOnce ==
    /\ \A i \in 1..Len(given) :
        /\ given[i][1] <= given[i][2]
        /\ i > 1 /\ fails = 0 => given[i][1] = given[i-1][2] + 1
        /\ i > 1 => given[i][1] > given[i-1][2]
    /\ phase = "done" =>
        /\ pids = {}
        /\ fails = 0 /\ ~Cut /\ Items # <<>> =>
             given # <<>> /\ given[1][1] = 1 /\ Last(given)[2] = Len(Items)

\* "0: All commands succeeded; 123: any command returned 1-125; 124: exited with
\* 255; 126, 127" (xargs.rs:33): in whatever order the commands end, the status
\* is 0 only if all succeeded, and otherwise that of one that failed - provided
\* that no fork failed and no child of another is reaped.  (Of a command that runs
\* without items the status is passed on as it is, be it 1 or 124.)
StatusIsOfACommand ==
    phase = "done" /\ fails = 0 /\ ~Cut /\ other = "none" =>
        /\ status = 0 <=> seen \subseteq {0}
        /\ Items # <<>> =>
            /\ status = 123 => seen \cap (1..125) # {}
            /\ status = 124 => 255 \in seen
            /\ status \in {126, 127} => status \in seen
        /\ Items = <<>> => seen \subseteq {status}

\* Every command gets its items, no more of them run than may, and xargs tells of
\* those that failed.
XargsIsRight == AtMostMaxProcs /\ EveryItemOnce /\ StatusIsOfACommand

\* xargs returns when its commands do.
XargsReturns == <>(phase = "done")
=============================================================================
