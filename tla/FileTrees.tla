------------------------------ MODULE FileTrees ------------------------------
(***************************************************************************)
(* cp -R, mv of a directory to another file system, and rm -r              *)
(* (src/src/applets/file/cp.rs, mv.rs, rm.rs).                             *)
(*                                                                         *)
(* They walk a tree by path names, an entry at a time, in the order the    *)
(* directories give them; calls fail, and another process adds a file.     *)
(* mv copies first, following links, and then removes the source, which it *)
(* walks once more.  The copying of one file is a step here (FileTools     *)
(* takes it apart).                                                        *)
(***************************************************************************)
EXTENDS Integers, Sequences, SequencesExt, FiniteSets

CONSTANTS Trees,      \* file systems at the start
          Commands,   \* [tool, from, to, force, noDeref, noClobber]
          MaxFaults   \* bound: calls that fail

VARIABLES
  before,   \* fs at the start
  fs,       \* fs[path]: [kind |-> "file", of |-> data], [kind |-> "link", of |-> path] or a directory
  cmd,
  phase,    \* "start", "copy", "remove", "done"
  frames,   \* directories under way: [path, to, todo]
  failed,   \* exit_code
  faults,   \* how many calls failed
  unseen,   \* a failed stat or getdents64 hid part of the tree
  added     \* the other process has added its file
vars == <<before, fs, cmd, phase, frames, failed, faults, unseen, added>>

Dir == [kind |-> "dir", of |-> <<>>]
File(d) == [kind |-> "file", of |-> <<d>>]

\* Where a path leads in file system f, links followed (stat), and whether at all.
RECURSIVE Real(_, _)
Real(f, path) ==
    IF path = <<>> THEN <<>>
    ELSE LET here == Append(Real(f, Front(path)), Last(path))
         IN  IF here \in DOMAIN f /\ f[here].kind = "link" THEN Real(f, f[here].of) ELSE here
Exists(f, path) == Real(f, path) \in DOMAIN f
IsDir(f, path) == Exists(f, path) /\ f[Real(f, path)].kind = "dir"
\* The name itself (lstat).
Name(f, path) == Append(Real(f, Front(path)), Last(path))
IsLink(f, path) == Name(f, path) \in DOMAIN f /\ f[Name(f, path)].kind = "link"
Entries(f, path) == {Last(x) : x \in {y \in DOMAIN f : y # <<>> /\ Front(y) = Real(f, path)}}

Init ==
    /\ fs \in Trees /\ before = fs /\ cmd \in Commands
    /\ phase = "start" /\ frames = <<>>
    /\ failed = FALSE /\ faults = 0 /\ unseen = FALSE /\ added = FALSE

-----------------------------------------------------------------------------
Put(path, node) == fs' = [x \in DOMAIN fs \cup {path} |-> IF x = path THEN node ELSE fs[x]]
Drop(path) == fs' = [x \in DOMAIN fs \ {path} |-> fs[x]]
Keep == UNCHANGED <<before, cmd, faults, unseen, added>>
Errs(rest) == failed' = TRUE /\ frames' = rest /\ UNCHANGED fs
Skips(rest) == frames' = rest /\ UNCHANGED <<fs, failed>>

\* The frames when name is taken out of the innermost directory.
Without(n) == [frames EXCEPT ![Len(frames)].todo = @ \ {n}]

\* copy_file: the target is written through a link, unless cp -f removes it first.
CopyFile(path, to, rest) ==
    LET same == Exists(fs, to) /\ Real(fs, path) = Real(fs, to)
        target == IF cmd.force /\ cmd.tool = "cp" THEN Name(fs, to) ELSE Real(fs, to)
    IN  IF (same /\ cmd.tool = "cp") \/ (target \in DOMAIN fs /\ fs[target].kind = "dir") THEN Errs(rest)
        ELSE /\ Put(target, IF same THEN File("nothing") ELSE fs[Real(fs, path)])
             /\ frames' = rest /\ UNCHANGED failed

\* copy_directory: mkdir, or a directory that is there.
CopyDir(path, to, rest) ==
    IF Name(fs, to) \in DOMAIN fs /\ ~IsDir(fs, to) THEN Errs(rest)
    ELSE /\ frames' = Append(rest, [path |-> path, to |-> to, todo |-> Entries(fs, path)])
         /\ IF Exists(fs, to) THEN UNCHANGED fs ELSE Put(Name(fs, to), Dir)
         /\ UNCHANGED failed

\* copy_symlink: the link itself; -f makes room.
CopyLink(path, to, rest) ==
    IF Name(fs, to) \in DOMAIN fs /\ ~(cmd.force /\ fs[Name(fs, to)].kind # "dir") THEN Errs(rest)
    ELSE Put(Name(fs, to), fs[Name(fs, path)]) /\ frames' = rest /\ UNCHANGED failed

\* mv goes past what it cannot look at, below the argument itself.
CopyItem(path, to, rest) ==
    IF cmd.noClobber /\ Name(fs, to) \in DOMAIN fs THEN Skips(rest)
    ELSE IF cmd.noDeref /\ IsLink(fs, path) THEN CopyLink(path, to, rest)
    ELSE IF IsDir(fs, path) THEN CopyDir(path, to, rest)
    ELSE IF Exists(fs, path) THEN CopyFile(path, to, rest)
    ELSE IF cmd.tool = "mv" /\ rest # <<>> THEN Skips(rest) ELSE Errs(rest)

\* rm looks at the name (lstat), mv at what it leads to (stat).
RemoveItem(path, rest) ==
    LET gone == IF cmd.tool = "mv" THEN ~Exists(fs, path) ELSE Name(fs, path) \notin DOMAIN fs
        isDir == IsDir(fs, path) /\ (cmd.tool = "mv" \/ ~IsLink(fs, path))
    IN  CASE gone -> IF cmd.tool = "mv" \/ cmd.force THEN Skips(rest) ELSE Errs(rest)
          [] ~gone /\ isDir ->
               /\ frames' = Append(rest, [path |-> path, to |-> <<>>, todo |-> Entries(fs, path)])
               /\ UNCHANGED <<fs, failed>>
          [] OTHER -> Drop(Name(fs, path)) /\ frames' = rest /\ UNCHANGED failed

-----------------------------------------------------------------------------
Start ==
    /\ phase = "start"
    /\ phase' = IF cmd.tool = "rm" THEN "remove" ELSE "copy"
    /\ IF cmd.tool = "rm" THEN RemoveItem(cmd.from, <<>>) ELSE CopyItem(cmd.from, cmd.to, <<>>)
    /\ Keep

Top == Last(frames)
CopyEntry(n) ==
    /\ phase = "copy" /\ frames # <<>> /\ n \in Top.todo
    /\ CopyItem(Append(Top.path, n), Append(Top.to, n), Without(n))
    /\ Keep /\ UNCHANGED phase
RemoveEntry(n) ==
    /\ phase = "remove" /\ frames # <<>> /\ n \in Top.todo
    /\ RemoveItem(Append(Top.path, n), Without(n))
    /\ Keep /\ UNCHANGED phase

\* (mutant: the source goes whatever became of the copy)
Copied_Regardless ==
    /\ phase = "copy" /\ (frames # <<>> => Top.todo = {})
    /\ IF frames # <<>> THEN frames' = Front(frames) /\ UNCHANGED <<fs, phase, failed>>
       ELSE IF cmd.tool = "cp"
       THEN phase' = "done" /\ UNCHANGED <<fs, frames, failed>>
       ELSE phase' = "remove" /\ RemoveItem(cmd.from, <<>>)
    /\ Keep

\* The end of a directory; the copy is the end of cp, and of a mv with errors.
Copied ==
    /\ phase = "copy" /\ (frames # <<>> => Top.todo = {})
    /\ IF frames # <<>> THEN frames' = Front(frames) /\ UNCHANGED <<fs, phase, failed>>
       ELSE IF cmd.tool = "cp" \/ failed
       THEN phase' = "done" /\ UNCHANGED <<fs, frames, failed>>
       ELSE phase' = "remove" /\ RemoveItem(cmd.from, <<>>)
    /\ Keep

\* rmdir: not of a link, and not of a directory with something in it.
Removed ==
    /\ phase = "remove" /\ (frames # <<>> => Top.todo = {})
    /\ IF frames = <<>> THEN phase' = "done" /\ UNCHANGED <<fs, frames, failed>>
       ELSE LET empty == Entries(fs, Top.path) = {} /\ ~IsLink(fs, Top.path)
            IN  /\ frames' = Front(frames)
                /\ IF empty THEN Drop(Name(fs, Top.path)) ELSE UNCHANGED fs
                /\ failed' = (failed \/ (~empty /\ cmd.tool = "rm" /\ ~cmd.force))
                /\ UNCHANGED phase
    /\ Keep

\* open, write, mkdir, unlink: an error, that mv does not see when it removes
\* and rm -f never.
Fails(n) ==
    /\ phase \in {"copy", "remove"} /\ frames # <<>> /\ n \in Top.todo /\ faults < MaxFaults
    /\ faults' = faults + 1 /\ frames' = Without(n)
    /\ failed' = (failed \/ phase = "copy" \/ (cmd.tool = "rm" /\ ~cmd.force))
    /\ UNCHANGED <<before, fs, cmd, phase, unseen, added>>

\* mv's stat fails: the entry is passed over.  getdents64 fails: it is taken for
\* the end of the directory.
Unseen(names) ==
    /\ phase \in {"copy", "remove"} /\ frames # <<>> /\ faults < MaxFaults
    /\ names # {} /\ names \subseteq Top.todo
    /\ names = Top.todo \/ (cmd.tool = "mv" /\ Cardinality(names) = 1)
    /\ faults' = faults + 1 /\ unseen' = TRUE
    /\ frames' = [frames EXCEPT ![Len(frames)].todo = @ \ names]
    /\ UNCHANGED <<before, fs, cmd, phase, failed, added>>

\* Another process adds a file to the source.
New == Append(cmd.from, "new")
Added ==
    /\ ~added /\ phase # "done" /\ IsDir(fs, cmd.from) /\ New \notin DOMAIN fs
    /\ added' = TRUE /\ Put(New, File("new"))
    /\ UNCHANGED <<before, cmd, phase, frames, failed, faults, unseen>>

Next == \/ Start \/ Copied \/ Removed \/ Added
        \/ \E n \in UNION {fr.todo : fr \in ToSet(frames)} : CopyEntry(n) \/ RemoveEntry(n) \/ Fails(n)
        \/ \E names \in SUBSET UNION {fr.todo : fr \in ToSet(frames)} : Unseen(names)
Spec == Init /\ [][Next]_vars

-----------------------------------------------------------------------------
(* Properties                                                              *)

Under(path, dir) == IsPrefix(dir, path)
Data(f) == {f[x].of : x \in {y \in DOMAIN f : f[y].kind = "file"}}
Links == {x \in DOMAIN before : before[x].kind = "link"}
LinksToDirs == {x \in Links : IsDir(before, x)}

\* A tree that is moved is never lost: whatever fails, and even if mv is killed
\* between two steps, each file of it is in the source or in the copy.  Not so
\* when a call that looks at an entry or reads a directory fails, which hides part
\* of the tree from the copy only, and for a file that arrives after the copy.
MovedTreeIsKept ==
    cmd.tool \in {"mv", "cp"} /\ ~unseen =>
        {before[x].of : x \in {y \in DOMAIN before : before[y].kind = "file" /\ Under(y, cmd.from)}}
        \subseteq Data(fs)

\* "0: All files moved successfully" (mv.rs:28; cp.rs:37): then every file of
\* the source can be read at the same place in the target.
CopyIsComplete ==
    phase = "done" /\ cmd.tool \in {"mv", "cp"} /\ ~failed /\ ~unseen /\ ~cmd.noClobber =>
        \A x \in DOMAIN before :
            Under(x, cmd.from) /\ before[x].kind = "file" =>
                LET y == cmd.to \o SubSeq(x, Len(cmd.from) + 1, Len(x))
                IN  Exists(fs, y) /\ fs[Real(fs, y)] = before[x]

\* What is removed lies in the source: rm "Use lstat to not follow symlinks"
\* (rm.rs:126).  mv does follow them, into a directory that a link leads to.
RemovesOnlyItsOwn ==
    (cmd.tool = "mv" => LinksToDirs = {}) =>
        \A x \in DOMAIN before : ~Under(x, cmd.from) => x \in DOMAIN fs

\* "0: All files removed successfully" (rm.rs:25), unless -f hides the errors.
RemovalIsComplete ==
    phase = "done" /\ cmd.tool = "rm" /\ ~failed /\ ~cmd.force =>
        \A x \in DOMAIN fs : ~Under(x, cmd.from)
=============================================================================
