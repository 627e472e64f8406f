------------------------------ MODULE FileTools ------------------------------
(***************************************************************************)
(* The applets that replace a file by what they made of it: sed -i, patch, *)
(* sort -o, dos2unix, vi, cp, mv, ln, and the compressors.                 *)
(*                                                                         *)
(* Each is a sequence of system calls (its Plan); between two of them      *)
(* another one may run, and it may be killed.  Calls fail.  A copy reads   *)
(* and writes a block at a time.  Names lead to inodes: a removed file is  *)
(* still there for whoever has it open.                                    *)
(***************************************************************************)
EXTENDS Integers, Sequences, FiniteSets

CONSTANTS Scenarios,   \* commands and the files they meet
          MaxFaults,   \* bound: kinds of call that fail, renames apart
          MaxKills     \* bound: commands killed

VARIABLES
  scenario,   \* never changes
  name,       \* name[n]: the inode n leads to, 0 for none
  data,       \* data[i]: what inode i holds, a sequence of blocks
  proc,       \* proc[p]: the command of process p
  faults,     \* the kinds of call that failed
  kills
vars == <<scenario, name, data, proc, faults, kills>>

Procs == DOMAIN scenario.commands
Temp == <<"temp1", "temp2">>
FileNames == {"f", "g", "backup", "temp1", "temp2"}
Content(n) == IF name[n] = 0 THEN <<>> ELSE data[name[n]]

-----------------------------------------------------------------------------
(* What the tools make of data.                                            *)

Block(is, of) == [is |-> is, of |-> of]
Plain(k) == Block("plain", <<k>>)
Hole == Block("hole", <<>>)
Magic == Block("head", <<>>)
End == Block("end", <<>>)
Sum(d) == Block("sum", d)

Edited(d) == [i \in DOMAIN d |-> Block("edited", d[i].of)]

\* LZW codes simply end; bzip2's sums are written, and not read; gzip, xz and
\* zstd have one that is compared.
Packed(tool, d) ==
    <<Magic>> \o d \o (CASE tool = "compress" -> <<>>
                        [] tool = "bzip2" -> <<End>>
                        [] OTHER -> <<Sum(d)>>)
Body(tool, d) == IF tool = "compress" THEN Tail(d) ELSE SubSeq(d, 2, Len(d) - 1)
\* gzip writes no block at all for an empty file, and inflate wants one.
WellFormed(tool, d) ==
    /\ d # <<>> /\ d[1] = Magic
    /\ tool = "gzip" => Len(d) > 2
    /\ tool # "compress" =>
         Len(d) > 1 /\ d[Len(d)] = IF tool = "bzip2" THEN End ELSE Sum(Body(tool, d))

Editors == {"sed", "patch", "sort", "dos2unix", "vi"}
Packers == {"gzip", "compress", "bzip2", "xz", "zstd"}

\* What command c writes for the data d, and whether d is what it should be.
Output(c, d) ==
    CASE c.tool \in Editors -> [ok |-> TRUE, data |-> Edited(d)]
      [] c.tool \in Packers /\ ~c.unpack -> [ok |-> TRUE, data |-> Packed(c.tool, d)]
      [] c.tool \in Packers /\ c.unpack ->
           IF WellFormed(c.tool, d) THEN [ok |-> TRUE, data |-> Body(c.tool, d)]
           \* bunzip2 writes each block before it meets the next one.
           ELSE [ok |-> FALSE, data |-> IF c.tool = "bzip2" /\ d # <<>> /\ d[1] = Magic
                                    THEN Tail(d) ELSE <<>>]
      [] OTHER -> [ok |-> TRUE, data |-> d]

-----------------------------------------------------------------------------
(* The tools.  A call that fails ends the command ("exit"), after removing *)
(* the file ("undo"), or with status 0 ("silent"), or is ignored: "go on". *)
(* "skip" is a write of several calls of which each may fail unnoticed.    *)

Call(do, file, fails) == [do |-> do, file |-> file, fails |-> fails]
If(condition, calls) == IF condition THEN calls ELSE <<>>

Sed(c, p) ==
    <<Call("open", c.from, "exit"), Call("read", c.from, "go on")>>
    \o If(c.backup, <<Call("create", "backup", "exit"), Call("save", "backup", "exit")>>)
    \o <<Call("create", Temp[p], "undo"), Call("write", Temp[p], "undo"),
         Call("rename", Temp[p], "undo")>>

\* A file that is not there reads as empty.
Patch(c) ==
    <<Call("open", c.from, "go on"), Call("read", c.from, "go on")>>
    \o If(c.backup, <<Call("create", "backup", "go on"), Call("save", "backup", "go on")>>)
    \o <<Call("create", c.to, "exit"), Call("write", c.to, "skip")>>

Sort(c) == <<Call("open", c.from, "exit"), Call("read", c.from, "go on"),
             Call("create", c.to, "exit"), Call("write", c.to, "exit")>>
Dos2unix(c) == <<Call("open", c.from, "silent"), Call("read", c.from, "go on"),
                 Call("create", c.to, "silent"), Call("write", c.to, "skip")>>
Vi(c) == <<Call("open", c.from, "go on"), Call("read", c.from, "go on"),
           Call("create", c.to, "exit"), Call("write", c.to, "skip")>>

Cp(c) == <<Call("open", c.from, "exit"), Call("differ", c.to, "exit")>>
         \o If(c.force, <<Call("unlink", c.to, "go on")>>)
         \o <<Call("create", c.to, "exit"), Call("copy", c.to, "exit")>>

\* (mutant: the source is removed whatever became of the copy)
Mv_RemovesAnyway(c) ==
    If(c.force, <<Call("unlink", c.to, "go on")>>)
    \o <<Call("rename", c.from, "go on"),
         Call("open", c.from, "exit"), Call("create", c.to, "exit"), Call("copy", c.to, "go on"),
         Call("unlink", c.from, "exit")>>

Mv(c) == If(c.force, <<Call("unlink", c.to, "go on")>>)
         \o <<Call("rename", c.from, "go on"),
              Call("open", c.from, "exit"), Call("create", c.to, "exit"), Call("copy", c.to, "undo"),
              Call("unlink", c.from, "exit")>>

Ln(c) == If(c.force, <<Call("link", c.to, "go on"), Call("unlink", c.to, "go on")>>)
         \o <<Call("link", c.to, "exit")>>

\* gzip, compress, bzip2: the target is created, and with it emptied, first.
Streamed(c) ==
    LET verdict == If(c.unpack, <<Call("verdict", c.from, "exit")>>)
        write == <<Call("write", c.to, IF c.tool = "compress" THEN "go on" ELSE "skip")>>
    IN  <<Call("open", c.from, "exit"), Call("create", c.to, "exit"), Call("read", c.from, "go on")>>
        \o (IF c.tool = "bzip2" THEN write \o verdict ELSE verdict \o write)
        \o If(~c.keep, <<Call("unlink", c.from, "go on")>>)

\* (mutant: writes without looking at how much was written)
Whole_Unchecked(c) ==
    <<Call("open", c.from, "exit"), Call("read", c.from, "go on"), Call("verdict", c.from, "exit")>>
    \o If(~c.force, <<Call("absent", c.to, "exit")>>)
    \o <<Call("create", c.to, "exit"), Call("write", c.to, "go on")>>
    \o If(~c.keep, <<Call("unlink", c.from, "go on")>>)

\* xz, zstd
Whole(c) ==
    <<Call("open", c.from, "exit"), Call("read", c.from, "go on"), Call("verdict", c.from, "exit")>>
    \o If(~c.force, <<Call("absent", c.to, "exit")>>)
    \o <<Call("create", c.to, "exit"), Call("write", c.to, "exit")>>
    \o If(~c.keep, <<Call("unlink", c.from, "go on")>>)

Plan(p) ==
    LET c == scenario.commands[p]
    IN  CASE c.tool = "sed" -> Sed(c, p)
          [] c.tool = "patch" -> Patch(c)
          [] c.tool = "sort" -> Sort(c)
          [] c.tool = "dos2unix" -> Dos2unix(c)
          [] c.tool = "vi" -> Vi(c)
          [] c.tool = "cp" -> Cp(c)
          [] c.tool = "mv" -> Mv(c)
          [] c.tool = "ln" -> Ln(c)
          [] c.tool \in {"gzip", "compress", "bzip2"} -> Streamed(c)
          [] c.tool \in {"xz", "zstd"} -> Whole(c)

-----------------------------------------------------------------------------
(* in, out: the inodes of the descriptors.  off: how far the call is.  end: *)
(* where out ends.  got: what was read.  made: what is to be written.      *)

Started == [pc |-> 1, in |-> 0, out |-> 0, off |-> 0, end |-> 0, got |-> <<>>,
            made |-> [ok |-> TRUE, data |-> <<>>], status |-> "running"]

Init ==
    /\ scenario \in Scenarios
    /\ name = [n \in FileNames |-> CASE n = "f" -> 1
                                     [] n = "g" /\ scenario.g = "the same file" -> 1
                                     [] n = "g" /\ scenario.g = "another file" -> 2
                                     [] OTHER -> 0]
    /\ data = <<scenario.f, IF scenario.g = "another file" THEN <<Plain(9)>> ELSE <<>>>>
    /\ proc = [p \in Procs |-> Started]
    /\ faults = {} /\ kills = 0

At(p, do) == proc[p].status = "running" /\ Plan(p)[proc[p].pc].do = do
This(p) == Plan(p)[proc[p].pc]
File(p) == This(p).file
From(p) == scenario.commands[p].from

Ends(p, status) == proc' = [proc EXCEPT ![p].status = status]
Continues(p, r) ==
    proc' = [proc EXCEPT ![p] = IF r.pc = Len(Plan(p)) THEN [r EXCEPT !.status = "ok"]
                                ELSE [r EXCEPT !.pc = @ + 1, !.off = 0]]

\* The call did not work.
Fails(p) ==
    /\ CASE This(p).fails = "go on" -> Continues(p, proc[p])
         [] This(p).fails = "skip" -> proc' = [proc EXCEPT ![p].off = @ + 1]
         [] This(p).fails = "silent" -> Ends(p, "ok")
         [] OTHER -> Ends(p, "failed")
    /\ name' = IF This(p).fails = "undo" THEN [name EXCEPT ![File(p)] = 0] ELSE name
    /\ UNCHANGED <<scenario, data, kills>>
Works == UNCHANGED <<scenario, faults, kills>>
Refused(p) == Fails(p) /\ UNCHANGED faults

-----------------------------------------------------------------------------
Open(p) ==
    /\ At(p, "open")
    /\ IF name[File(p)] # 0
       THEN Continues(p, [proc[p] EXCEPT !.in = name[File(p)]]) /\ UNCHANGED <<name, data>> /\ Works
       ELSE Refused(p)

\* Nothing is read from a descriptor that was never opened.
Source(p) == IF proc[p].in = 0 THEN <<>> ELSE data[proc[p].in]
ReadBlock(p) ==
    /\ At(p, "read") /\ proc[p].off < Len(Source(p))
    /\ proc' = [proc EXCEPT ![p].got = Append(@, Source(p)[proc[p].off + 1]), ![p].off = @ + 1]
    /\ UNCHANGED <<name, data>> /\ Works
\* The end of the file, and what looks like it: read_all stops at n <= 0.
HasRead(p) ==
    /\ Continues(p, [proc[p] EXCEPT !.made = Output(scenario.commands[p], proc[p].got)])
    /\ UNCHANGED <<scenario, name, data, kills>>
ReadEnd(p) ==
    /\ At(p, "read") /\ proc[p].off >= Len(Source(p))
    /\ HasRead(p) /\ UNCHANGED faults

Unused == CHOOSE i \in 1..(Len(data) + 1) :
            (\A n \in FileNames : name[n] # i) /\ \A p \in Procs : proc[p].in # i /\ proc[p].out # i
\* dos2unix opens without O_CREAT, but has just read the file.
Create(p) ==
    LET i == IF name[File(p)] # 0 THEN name[File(p)] ELSE Unused
    IN  /\ At(p, "create")
        /\ scenario.commands[p].tool = "dos2unix" => name[File(p)] # 0
        /\ name' = [name EXCEPT ![File(p)] = i]
        /\ data' = [j \in 1..(IF i > Len(data) THEN i ELSE Len(data)) |->
                      IF j = i THEN <<>> ELSE data[j]]
        /\ Continues(p, [proc[p] EXCEPT !.out = i, !.end = 0]) /\ Works

Put(d, k, b) == [i \in 1..(IF k > Len(d) THEN k ELSE Len(d)) |->
                   IF i = k THEN b ELSE IF i <= Len(d) THEN d[i] ELSE Hole]
Written(p) == IF This(p).do = "save" THEN proc[p].got ELSE proc[p].made.data
Writing(p) == At(p, "write") \/ At(p, "save")
\* A backup that could not be opened is not written (patch).
Left(p) == proc[p].off < Len(Written(p)) /\ proc[p].out # 0
WriteBlock(p) ==
    /\ Writing(p) /\ Left(p)
    /\ data' = [data EXCEPT ![proc[p].out] = Put(@, proc[p].end + 1, Written(p)[proc[p].off + 1])]
    /\ proc' = [proc EXCEPT ![p].off = @ + 1, ![p].end = @ + 1]
    /\ UNCHANGED name /\ Works
Close(p) ==
    /\ Writing(p) /\ ~Left(p)
    /\ Continues(p, [proc[p] EXCEPT !.out = 0])
    /\ UNCHANGED <<name, data>> /\ Works

CopyBlock(p) ==
    /\ At(p, "copy") /\ proc[p].off < Len(Source(p))
    /\ data' = [data EXCEPT ![proc[p].out] = Put(@, proc[p].end + 1, Source(p)[proc[p].off + 1])]
    /\ proc' = [proc EXCEPT ![p].off = @ + 1, ![p].end = @ + 1]
    /\ UNCHANGED name /\ Works
CopyEnd(p) ==
    /\ At(p, "copy") /\ proc[p].off >= Len(Source(p))
    /\ Continues(p, [proc[p] EXCEPT !.in = 0, !.out = 0])
    /\ UNCHANGED <<name, data>> /\ Works

\* The last call of sed; mv ends with it, or goes on without it.  Two names of
\* one file are left as they are.
Rename(p) ==
    LET to == scenario.commands[p].to
    IN  /\ At(p, "rename")
        /\ IF name[File(p)] = 0 THEN Refused(p)
           ELSE /\ name' = IF name[to] = name[File(p)] THEN name
                           ELSE [name EXCEPT ![to] = name[File(p)], ![File(p)] = 0]
                /\ Ends(p, "ok") /\ UNCHANGED data /\ Works
Unlink(p) ==
    /\ At(p, "unlink")
    /\ IF name[File(p)] = 0 THEN Refused(p)
       ELSE name' = [name EXCEPT ![File(p)] = 0] /\ Continues(p, proc[p]) /\ UNCHANGED data /\ Works
\* Only a name that is taken lets ln -f go on.
Link(p) ==
    /\ At(p, "link")
    /\ IF name[From(p)] # 0 /\ name[File(p)] = 0
       THEN name' = [name EXCEPT ![File(p)] = name[From(p)]] /\ Ends(p, "ok") /\ UNCHANGED data /\ Works
       ELSE IF name[From(p)] # 0 THEN Refused(p)
       ELSE Ends(p, "failed") /\ UNCHANGED <<name, data>> /\ Works

\* What a tool looks at before it goes on.
Test(p) ==
    /\ \E do \in {"differ", "absent", "verdict"} : At(p, do)
    /\ IF \/ This(p).do = "differ" /\ name[File(p)] # proc[p].in
          \/ This(p).do = "absent" /\ name[File(p)] = 0
          \/ This(p).do = "verdict" /\ proc[p].made.ok
       THEN Continues(p, proc[p]) /\ UNCHANGED <<name, data>> /\ Works
       ELSE Refused(p)

-----------------------------------------------------------------------------
\* A call fails.  A write that fails is of one block or more; a copy can fail
\* on either side; no name can be put in place across file systems.
Fault(p, kind) ==
    /\ Cardinality((faults \cup {kind}) \ {"rename"}) <= MaxFaults
    /\ faults' = faults \cup {kind}
    /\ \/ kind = "open" /\ (At(p, "open") \/ At(p, "create")) /\ Fails(p)
       \/ kind = "read" /\ At(p, "read") /\ HasRead(p)
       \/ /\ kind = "read" /\ At(p, "copy")
          \* cp takes it for the end of the file, mv does not.
          /\ IF scenario.commands[p].tool = "mv" THEN Fails(p)
             ELSE Continues(p, proc[p]) /\ UNCHANGED <<scenario, name, data, kills>>
       \/ kind = "write" /\ Writing(p) /\ Left(p) /\ Fails(p)
       \/ kind = "write" /\ At(p, "copy") /\ proc[p].off < Len(Source(p)) /\ Fails(p)
       \/ kind = "rename" /\ At(p, "rename") /\ name[File(p)] # name[scenario.commands[p].to] /\ Fails(p)
       \/ kind = "unlink" /\ At(p, "unlink") /\ Fails(p)

Kill(p) ==
    /\ proc[p].status = "running" /\ kills < MaxKills
    /\ Ends(p, "killed") /\ kills' = kills + 1
    /\ UNCHANGED <<scenario, name, data, faults>>

Step(p) ==
    \/ Open(p) \/ ReadBlock(p) \/ ReadEnd(p) \/ Create(p) \/ WriteBlock(p) \/ Close(p)
    \/ CopyBlock(p) \/ CopyEnd(p) \/ Rename(p) \/ Unlink(p) \/ Link(p) \/ Test(p)
    \/ \E kind \in {"open", "read", "write", "rename", "unlink"} : Fault(p, kind)
    \/ Kill(p)
Next == \E p \in Procs : Step(p)
Spec == Init /\ [][Next]_vars
-----------------------------------------------------------------------------
(* Properties, for one command unless they say otherwise                   *)

Command == scenario.commands[1]
Alone == Len(scenario.commands) = 1
Status == proc[1].status
Wanted == Output(Command, scenario.f)

\* What a tool does not notice: failed reads are the end of the file for all
\* but mv, and gzip, compress, bzip2, patch, dos2unix and vi look at no write.
Unnoticed(c) ==
    CASE c.tool \in {"mv", "ln"} -> {}
      [] c.tool \in {"sed", "sort", "cp", "xz", "zstd"} -> {"read"}
      [] c.tool = "dos2unix" -> {"open", "read", "write"}
      [] c.tool \in {"patch", "vi"} -> {"open", "read", "write"}
      [] OTHER -> {"read", "write"}
\* mv -f and ln -f remove the target first, and it may be the source.
OntoItself(c) == c.force /\ c.from = c.to

\* "0: All files moved successfully" (mv.rs:28; alike cp.rs:37, gzip.rs:26): a
\* command that ends well has left all of what it was to make, under the name
\* it was to have, unless a failure it does not look at came in between.
SuccessIsComplete ==
    Alone /\ Status = "ok" /\ faults \cap Unnoticed(Command) = {} =>
        Content(Command.to) = Wanted.data

\* The data outlive the command, whichever call fails and whenever it is
\* killed: some file holds the original or all of what was made of it.  Not so
\* for what truncates the only copy, and after failures that go unnoticed.
Rewrites(c) ==
    \/ c.tool \in {"sort", "dos2unix", "vi"}
    \/ c.tool = "patch" /\ ~c.backup
NothingIsLost ==
    Alone /\ ~Rewrites(Command) /\ ~OntoItself(Command)
          /\ (Command.tool # "cp" => faults \cap Unnoticed(Command) = {}) =>
        \E n \in FileNames : name[n] # 0 /\ Content(n) \in {scenario.f, Wanted.data}

\* "On any error the original file is left intact" (sed.rs:1036): a reader of a
\* file under sed -i finds the old text or the new one, however many edit it,
\* unless reading it failed.
EditedAsAWhole ==
    /\ \A p \in Procs : scenario.commands[p].tool = "sed"
    /\ "read" \notin faults
    => Content("f") \in {scenario.f, Edited(scenario.f)}

\* A backup is whole before the file changes, with sed -i.bak and patch -b
\* (sed.rs:1024: "copy the original before touching it").
BackupComesFirst ==
    Alone /\ Command.backup /\ faults \cap Unnoticed(Command) = {} =>
        scenario.f \in {Content("f"), Content("backup")}

\* A copy that failed "does not masquerade as a complete file" (mv.rs:236).
FailedMoveLeavesNoPart ==
    Alone /\ Command.tool = "mv" /\ Status = "failed" /\ ~OntoItself(Command) =>
        /\ Content("f") = scenario.f
        /\ name["g"] # 0 => \/ data[name["g"]] = scenario.f
                            \/ data[name["g"]] = <<Plain(9)>>

\* Two packers at work on one file leave it packed, or as it was.
RacesLoseNothing ==
    /\ \A p \in Procs : scenario.commands[p].tool \in Packers /\ proc[p].status \in {"ok", "failed"}
    /\ faults = {}
    => \E n \in {"f", "g"} : name[n] # 0 /\ Content(n) \in {scenario.f, Wanted.data}

\* What a packer wrote, its unpacker restores; gzip's empty file excepted.
UnpacksAsPacked ==
    /\ Alone /\ Status = "ok" /\ faults = {} /\ Command.tool \in Packers /\ ~Command.unpack
    /\ ~(Command.tool = "gzip" /\ scenario.f = <<>>)
    => Output([Command EXCEPT !.unpack = TRUE], Content("g")) = [ok |-> TRUE, data |-> scenario.f]
=============================================================================
