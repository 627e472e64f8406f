------------------------------ MODULE AbpInstall ------------------------------
(***************************************************************************)
(* `abp add' and `abp del' (src/crates/abp/src/install.rs, remove.rs): one *)
(* abp process that changes the file system, the package records and the   *)
(* ownership index, step by step.  Any step marked with a fault may fail,  *)
(* and the process may be killed between any two steps.  The calls to the  *)
(* database are atomic here: AbpDatabase shows that for a single process   *)
(* they are.                                                               *)
(*                                                                         *)
(* A package archive (.abp file) is a value p of Pkgs.  What the model     *)
(* looks at of it is in the constants below; FilesOf is its manifest,      *)
(* which verification has compared with the payload.  Files lie one        *)
(* directory deep.  resolve_with_local is taken by its contract: an order  *)
(* of the packages that puts dependencies first (module AbpResolver).      *)
(***************************************************************************)
EXTENDS AbpIndex, Sequences

CONSTANTS
    Pkgs, NameOf, VersionOf, FilesOf,
    DependsOf, ProvidesOf, ConflictsOf, ReplacesOf,    \* sets of names
    ConfigFiles,    \* is_config_file: under /etc/, or .conf, .cfg, .ini
    Available,      \* names in the repository index
    DirOf,          \* the directory of a path
    None,           \* no record
    Gone, Foreign, Broken, \* no such file; a file of nobody; half-written
    InitialFiles,   \* paths that hold a file of nobody at first
    AddRequests,    \* sets of packages a user may ask to add at once
    Flags,          \* subset of {"force", "no_deps", "purge"}: options in use
    Faults,         \* the faults that may occur
    MaxFaults       \* bound: faults in a behaviour

Dirs == {DirOf[f] : f \in Paths}
FaultKinds == {"verify", "memory", "open", "write", "register", "torn",
               "put", "unregister", "delete", "crash"}

ASSUME InstallAssumption ==
    /\ NameOf \in [Pkgs -> Names] /\ FilesOf \in [Pkgs -> SUBSET Paths]
    /\ \A g \in {DependsOf, ProvidesOf, ConflictsOf, ReplacesOf} : g \in [Pkgs -> SUBSET Names]
    /\ ConfigFiles \subseteq Paths /\ InitialFiles \subseteq Paths
    /\ \A ps \in AddRequests : ps \subseteq Pkgs /\ IsFiniteSet(ps)
    /\ Faults \subseteq FaultKinds /\ MaxFaults \in Nat
    /\ None \notin Pkgs \cup Names /\ {Gone, Foreign, Broken} \cap Pkgs = {}

VARIABLES
    fs,     \* fs[f]: whose bytes are at path f
    dirs,   \* the directories that exist
    rec,    \* rec[n]: the archive package n's record was made from
    idx,    \* files.idx
    job,    \* what the process is doing
    faults  \* how many faults have occurred

disk == <<fs, dirs, rec, idx>>
vars == <<fs, dirs, rec, idx, job, faults>>

Contents == Pkgs \cup {Gone, Foreign, Broken}

(* pc: where the process is.                                               *)
(*   "replace", "check", "next"          install_packages                  *)
(*   "old files", "old lines", "unpack",                                   *)
(*   "extract", "register", "put"        install_single_package            *)
(*   "unregister", "undo"                its failure paths                 *)
(*   "rm files", "rm lines", "rm record" remove_single_package             *)
(* queue: packages still to install, in order.  victims: names still to    *)
(* remove, victim: the one being removed.  left: paths the current loop    *)
(* has not come to.  made, madeDirs: the Rollback.  before: the disk when  *)
(* the add began and, from there on, when the current package was first    *)
(* touched (a history, never read).                                        *)
Pcs == {"idle", "replace", "check", "next", "old files", "old lines", "unpack",
        "extract", "register", "put", "unregister", "undo",
        "rm files", "rm lines", "rm record"}

Idle == [pc |-> "idle", kind |-> "add", opts |-> {}, queue |-> <<>>, victims |-> {},
         victim |-> None, left |-> {}, whole |-> TRUE, made |-> {}, madeDirs |-> {}, before |-> None]

Disks == [fs : [Paths -> Contents], dirs : SUBSET Dirs, rec : [Names -> Pkgs \cup {None}],
          owners : SUBSET ((Paths \cup {Torn}) \X (Names \cup {Torn}))]
Job == [pc : Pcs, kind : {"add", "del"}, opts : SUBSET Flags, queue : Seq(Pkgs),
        victims : SUBSET Names, victim : Names \cup {None},
        left : SUBSET Paths, whole : BOOLEAN, made : SUBSET Paths, madeDirs : SUBSET Dirs,
        before : Disks \cup {None}]

TypeOK ==
    /\ fs \in [Paths -> Contents] /\ dirs \subseteq Dirs
    /\ rec \in [Names -> Pkgs \cup {None}] /\ idx \in Index
    /\ job \in Job
    /\ faults \in 0..MaxFaults

Init ==
    /\ fs = [f \in Paths |-> IF f \in InitialFiles THEN Foreign ELSE Gone]
    /\ dirs = {DirOf[f] : f \in InitialFiles}
    /\ rec = [n \in Names |-> None]
    /\ idx = EmptyIndex
    /\ job = Idle
    /\ faults = 0

-----------------------------------------------------------------------------
Installed(n) == rec[n] # None
Providers(d) == {n \in Names : Installed(n) /\ d \in ProvidesOf[rec[n]]}
NamesOf(ps) == {NameOf[p] : p \in ps}
InRequest(seq) == {seq[i] : i \in DOMAIN seq}
cur == Head(job.queue)          \* the package being installed
victim == job.victim

Fault(kind) ==
    /\ kind \in Faults /\ faults < MaxFaults
    /\ faults' = faults + 1
NoFault == UNCHANGED faults

Goto(pc) == job' = [job EXCEPT !.pc = pc]

\* After the last victim: an add goes on to its checks, a del is done.
RemovalDone(vs) ==
    IF vs # {} THEN [job EXCEPT !.pc = "replace", !.victims = vs, !.victim = None]
    ELSE IF job.kind = "add" THEN [job EXCEPT !.pc = "check", !.victims = {}, !.victim = None]
    ELSE Idle

-----------------------------------------------------------------------------
(* abp add                                                                 *)

\* (mutant: the order is the user's)
Resolved_AnyOrder(order) ==
    \A i \in DOMAIN order : \A d \in DependsOf[order[i]] :
        \/ Installed(d) \/ d \in NamesOf(InRequest(order))
        \/ d \in Available \/ Providers(d) # {}

\* What resolve_with_local and the ordering behind it promise of the order.
\* A dependency that is installed is not looked at again; one that is only in
\* the repository index or provided by an installed package is let pass.
Resolved(order) ==
    \A i \in DOMAIN order : \A d \in DependsOf[order[i]] :
        \/ Installed(d)
        \/ d \in NamesOf({order[j] : j \in 1..(i - 1)})
        \/ d \notin NamesOf(InRequest(order)) /\ (d \in Available \/ Providers(d) # {})

Orders(ps) == {s \in [1..Cardinality(ps) -> ps] : InRequest(s) = ps}

Snapshot == [fs |-> fs, dirs |-> dirs, rec |-> rec, owners |-> Owners(idx)]

\* Loading, resolving, and finding the packages these replace.
Add(ps, order, opts) ==
    /\ job.pc = "idle"
    /\ order \in Orders(ps)
    /\ "no_deps" \in opts \/ Resolved(order)
    /\ job' = [Idle EXCEPT !.pc = "replace", !.kind = "add", !.opts = opts, !.queue = order,
                 !.before = Snapshot,
                 !.victims = {n \in UNION {ReplacesOf[p] : p \in ps} \ NamesOf(ps) : Installed(n)}]
    /\ UNCHANGED <<disk, faults>>

Collision(ps) == \E p, q \in ps : NameOf[p] # NameOf[q] /\ FilesOf[p] \cap FilesOf[q] # {}

\* (mutant: looks at names only)
ActiveConflict_NameOnly(p) == \E c \in ConflictsOf[p] : Installed(c)

ActiveConflict(p) ==
    \E c \in ConflictsOf[p] : Installed(c) \/ Providers(c) # {}

SameVersionInstalled(p) ==
    Installed(NameOf[p]) /\ VersionOf[rec[NameOf[p]]] = VersionOf[p]

\* (mutant: an upgrade may take anything)
FileConflict_NewOnly(p) ==
    /\ ~Installed(NameOf[p])
    /\ \E f \in FilesOf[p] : FileOwner(idx, f) \notin {NoOwner, NameOf[p]}

FileConflict(p) ==
    /\ ~SameVersionInstalled(p)
    /\ \E f \in FilesOf[p] : FileOwner(idx, f) \notin {NoOwner, NameOf[p]}

\* (mutant: packages of one add are not compared with each other)
Refused_NoIntraCheck(ps, force) ==
    ~force /\ \E p \in ps : ActiveConflict(p) \/ FileConflict(p)

Refused(ps, force) ==
    \/ Collision(ps)
    \/ ~force /\ \E p \in ps : ActiveConflict(p) \/ FileConflict(p)

Check ==
    /\ job.pc = "check"
    /\ job' = IF Refused(InRequest(job.queue), "force" \in job.opts)
              THEN Idle ELSE [job EXCEPT !.pc = "next"]
    /\ UNCHANGED <<disk, faults>>

AddDone ==
    /\ job.pc = "next" /\ job.queue = <<>>
    /\ job' = Idle
    /\ UNCHANGED <<disk, faults>>

\* A package that does not verify is skipped; the others are still installed.
VerifyFails ==
    /\ job.pc = "next" /\ job.queue # <<>>
    /\ Fault("verify")
    /\ job' = [job EXCEPT !.queue = Tail(@)]
    /\ UNCHANGED disk

Verify ==
    /\ job.pc = "next" /\ job.queue # <<>>
    /\ job' = [job EXCEPT
                 !.pc = IF Installed(NameOf[cur]) THEN "old files" ELSE "unpack",
                 !.left = IF Installed(NameOf[cur]) THEN FilesOf[rec[NameOf[cur]]] ELSE {},
                 !.before = Snapshot]
    /\ UNCHANGED <<disk, faults>>

(* install_single_package: "If upgrading, remove old files first"          *)

\* (mutant: comes back to the same file)
UnlinkOld_NotDropped ==
    /\ job.pc = "old files"
    /\ IF job.left = {} THEN Goto("old lines") /\ UNCHANGED fs
       ELSE \E f \in job.left : fs' = [fs EXCEPT ![f] = Gone] /\ UNCHANGED job
    /\ UNCHANGED <<dirs, rec, idx, faults>>

UnlinkOld ==
    /\ job.pc = "old files"
    /\ IF job.left = {} THEN Goto("old lines") /\ UNCHANGED fs
       ELSE \E f \in job.left : /\ fs' = [fs EXCEPT ![f] = Gone]
                                /\ job' = [job EXCEPT !.left = @ \ {f}]
    /\ UNCHANGED <<dirs, rec, idx, faults>>

\* (mutant: an upgrade keeps the old registrations)
UnregisterOld_Skipped ==
    /\ job.pc = "old lines"
    /\ Goto("unpack")
    /\ UNCHANGED <<disk, faults>>

\* Its answer is ignored.
UnregisterOld ==
    /\ job.pc = "old lines"
    /\ \/ NoFault /\ idx' = WithoutOwner(idx, NameOf[cur])
       \/ Fault("unregister") /\ UNCHANGED idx
    /\ Goto("unpack")
    /\ UNCHANGED <<fs, dirs, rec>>

Unpack ==
    /\ job.pc = "unpack"
    /\ \/ NoFault /\ job' = [job EXCEPT !.pc = "extract", !.left = FilesOf[cur], !.whole = TRUE]
       \/ Fault("memory") /\ job' = Idle
    /\ UNCHANGED disk

(* extract_payload goes on after a member it could not extract.            *)

\* (mutant: a path is noted for rollback once it is written)
ExtractTo_NotedLate(f, bytes, opened) ==
    /\ fs' = IF opened THEN [fs EXCEPT ![f] = bytes] ELSE fs
    /\ job' = [job EXCEPT !.left = @ \ {f},
                          !.made = IF bytes = cur THEN @ \cup {f} ELSE @,
                          !.madeDirs = @ \cup (dirs' \ dirs),
                          !.whole = @ /\ opened /\ bytes = cur]

ExtractTo(f, bytes, opened) ==
    /\ fs' = IF opened THEN [fs EXCEPT ![f] = bytes] ELSE fs
    /\ job' = [job EXCEPT !.left = @ \ {f},
                          !.made = IF opened THEN @ \cup {f} ELSE @,
                          !.madeDirs = @ \cup (dirs' \ dirs),
                          !.whole = @ /\ opened /\ bytes = cur]

ExtractMember ==
    /\ job.pc = "extract"
    /\ \E f \in job.left :
         \/ NoFault /\ dirs' = dirs \cup {DirOf[f]} /\ ExtractTo(f, cur, TRUE)
         \/ Fault("write") /\ dirs' = dirs \cup {DirOf[f]} /\ ExtractTo(f, Broken, TRUE)
         \/ Fault("open") /\ dirs' \in {dirs, dirs \cup {DirOf[f]}} /\ ExtractTo(f, Gone, FALSE)
    /\ UNCHANGED <<rec, idx>>

\* (mutant: members that failed are not counted)
ExtractDone_Lenient ==
    /\ job.pc = "extract" /\ job.left = {}
    /\ job' = [job EXCEPT !.pc = "register", !.left = FilesOf[cur]]
    /\ UNCHANGED <<disk, faults>>

ExtractDone ==
    /\ job.pc = "extract" /\ job.left = {}
    /\ job' = IF job.whole THEN [job EXCEPT !.pc = "register", !.left = FilesOf[cur]]
              ELSE [job EXCEPT !.pc = "undo"]
    /\ UNCHANGED <<disk, faults>>

RegisterMember ==
    /\ job.pc = "register"
    /\ \E f \in job.left :
         \/ /\ NoFault
            /\ idx' = AppendEntry(idx, f, NameOf[cur], "all")
            /\ job' = [job EXCEPT !.left = @ \ {f}]
         \/ /\ Fault("register")
            /\ UNCHANGED idx
            /\ job' = [job EXCEPT !.pc = "unregister", !.left = {}]
         \/ /\ Fault("torn")
            /\ \E cut \in Cuts \ {"nothing", "all"} :
                 idx' = AppendEntry(idx, f, NameOf[cur], cut)
            /\ job' = [job EXCEPT !.pc = "unregister", !.left = {}]
    /\ UNCHANGED <<fs, dirs, rec>>

RegisterDone ==
    /\ job.pc = "register" /\ job.left = {}
    /\ Goto("put")
    /\ UNCHANGED <<disk, faults>>

\* (mutant: a failed put takes back the files, not the registrations)
Put_KeepsLines ==
    /\ job.pc = "put"
    /\ \/ /\ NoFault
          /\ rec' = [rec EXCEPT ![NameOf[cur]] = cur]
          /\ job' = [job EXCEPT !.pc = "next", !.queue = Tail(@),
                                !.made = {}, !.madeDirs = {}, !.before = None]
       \/ Fault("put") /\ UNCHANGED rec /\ Goto("undo")
    /\ UNCHANGED <<fs, dirs, idx>>

Put ==
    /\ job.pc = "put"
    /\ \/ /\ NoFault
          /\ rec' = [rec EXCEPT ![NameOf[cur]] = cur]
          /\ job' = [job EXCEPT !.pc = "next", !.queue = Tail(@),
                                !.made = {}, !.madeDirs = {}, !.before = None]
       \/ /\ Fault("put")
          /\ UNCHANGED rec
          /\ Goto("unregister")
    /\ UNCHANGED <<fs, dirs, idx>>

UnregisterNew ==
    /\ job.pc = "unregister"
    /\ \/ NoFault /\ idx' = WithoutOwner(idx, NameOf[cur])
       \/ Fault("unregister") /\ UNCHANGED idx
    /\ Goto("undo")
    /\ UNCHANGED <<fs, dirs, rec>>

(* Rollback::undo: files, then directories; rmdir fails on one in use.     *)

UndoFile ==
    /\ job.pc = "undo"
    /\ \E f \in job.made : /\ fs' = [fs EXCEPT ![f] = Gone]
                           /\ job' = [job EXCEPT !.made = @ \ {f}]
    /\ UNCHANGED <<dirs, rec, idx, faults>>

UndoDirs ==
    /\ job.pc = "undo" /\ job.made = {}
    /\ dirs' = {d \in dirs : \/ d \notin job.madeDirs
                             \/ \E f \in Paths : DirOf[f] = d /\ fs[f] # Gone}
    /\ job' = Idle
    /\ UNCHANGED <<fs, rec, idx, faults>>

-----------------------------------------------------------------------------
(* abp del, and the packages an add replaces                               *)

Dependents(n) == {m \in Names : Installed(m) /\ n \in DependsOf[rec[m]]}

Del(ns, opts) ==
    /\ job.pc = "idle" /\ ns # {}
    /\ \A n \in ns : Installed(n)
    /\ "force" \in opts \/ \A n \in ns : Dependents(n) \subseteq ns
    /\ job' = [Idle EXCEPT !.pc = "replace", !.kind = "del", !.opts = opts, !.victims = ns]
    /\ UNCHANGED <<disk, faults>>

\* The next victim (in the order the user, or the packages, name them), or none.  A replaced package is never purged.
BeginRemove ==
    LET keep == IF job.kind = "del" /\ "purge" \in job.opts THEN {} ELSE ConfigFiles
    IN  /\ job.pc = "replace"
        /\ \/ job.victims = {} /\ job' = RemovalDone({})
           \/ \E n \in job.victims :
                job' = [job EXCEPT !.pc = "rm files", !.victim = n,
                                   !.left = FilesOf[rec[n]] \ keep]
        /\ UNCHANGED <<disk, faults>>

RemoveFile ==
    /\ job.pc = "rm files"
    /\ IF job.left = {} THEN Goto("rm lines") /\ UNCHANGED fs
       ELSE \E f \in job.left : /\ fs' = [fs EXCEPT ![f] = Gone]
                                /\ job' = [job EXCEPT !.left = @ \ {f}]
    /\ UNCHANGED <<dirs, rec, idx, faults>>

RemoveLines ==
    /\ job.pc = "rm lines"
    /\ \/ NoFault /\ idx' = WithoutOwner(idx, victim)
       \/ Fault("unregister") /\ UNCHANGED idx
    /\ Goto("rm record")
    /\ UNCHANGED <<fs, dirs, rec>>

\* A del stops at the first record it cannot delete; an add does not look.
RemoveRecord ==
    /\ job.pc = "rm record"
    /\ \/ /\ NoFault
          /\ rec' = [rec EXCEPT ![victim] = None]
          /\ job' = RemovalDone(job.victims \ {victim})
       \/ /\ Fault("delete")
          /\ UNCHANGED rec
          /\ job' = IF job.kind = "del" THEN Idle ELSE RemovalDone(job.victims \ {victim})
    /\ UNCHANGED <<fs, dirs, idx>>

-----------------------------------------------------------------------------
Crash ==
    /\ job.pc # "idle"
    /\ Fault("crash")
    /\ job' = Idle
    /\ UNCHANGED disk

Work ==
    \/ Check \/ AddDone \/ VerifyFails \/ Verify \/ UnlinkOld \/ UnregisterOld \/ Unpack
    \/ ExtractMember \/ ExtractDone \/ RegisterMember \/ RegisterDone \/ Put
    \/ UnregisterNew \/ UndoFile \/ UndoDirs
    \/ BeginRemove \/ RemoveFile \/ RemoveLines \/ RemoveRecord

Next ==
    \/ \E ps \in AddRequests, opts \in SUBSET (Flags \ {"purge"}) :
         \E order \in Orders(ps) : Add(ps, order, opts)
    \/ \E ns \in SUBSET Names, opts \in SUBSET (Flags \ {"no_deps"}) : Del(ns, opts)
    \/ Work
    \/ \E kill \in Faults \cap {"crash"} : Crash

Spec == Init /\ [][Next]_vars

\* A process that is not stopped takes its next step.
FairSpec == Spec /\ WF_vars(Work)

-----------------------------------------------------------------------------
(* Properties                                                              *)

IsIdle == job.pc = "idle"
FilesHeld(n) == IF Installed(n) THEN FilesOf[rec[n]] ELSE {}
Intact(n) == \A f \in FilesHeld(n) : fs[f] = rec[n] /\ <<f, n>> \in Owners(idx)

\* The record of a package is written last, when everything it says is true:
\* whatever failed or crashed before, and even with --force, at the moment a
\* record appears each of its files is on disk, complete, and registered.
CommitIsComplete ==
    [][\A n \in Names : (rec'[n] # rec[n] /\ rec'[n] # None) => Intact(n)']_vars

\* Between transactions the three stores agree: an installed package has its
\* own bytes in each of its files, and the index says exactly who holds what.
StoresAgree ==
    IsIdle => /\ \A n \in Names : Intact(n)
              /\ \A o \in Owners(idx) : o[1] \in FilesHeld(o[2])

\* Without --force a file registered to a package is only ever overwritten or
\* unlinked while that very package is being upgraded or removed.
Working == IF job.pc \in {"rm files", "rm lines", "rm record"} THEN victim ELSE NameOf[cur]
OthersFilesAreSafe ==
    [][\A f \in Paths : fs'[f] # fs[f] => FileOwner(idx, f) \in {NoOwner, Working}]_vars

\* No path belongs to two packages: "two packages cannot both own one path"
\* (install.rs:128).
ExclusiveOwnership ==
    IsIdle => \A m, n \in Names : m # n => FilesHeld(m) \cap FilesHeld(n) = {}

\* A package whose installation fails and is rolled back leaves nothing behind
\* when it was new, none of its paths was taken and no line of the index was cut
\* inside a name: no file, no directory, no registration.  (A line cut there is
\* nobody's, and unregister_files keeps it: install.rs:371 promises more.)
Untorn(ix) == \A o \in Owners(ix) : Torn \notin {o[1], o[2]}
RolledBack == job.pc = "undo" /\ job'.pc = "idle" /\ faults' = faults
Restored == fs' = job.before.fs /\ dirs' = job.before.dirs /\ rec' = job.before.rec
            /\ Owners(idx)' = job.before.owners
RollbackRestoresFresh ==
    [][(/\ RolledBack
        /\ job.before.rec[NameOf[cur]] = None
        /\ \A f \in FilesOf[cur] : job.before.fs[f] = Gone
        /\ Untorn(idx)) => Restored]_vars

\* "ANY later failure ... can be fully undone, leaving the system as it was
\* before this package was touched" (install.rs:357).
RollbackRestores == [][RolledBack => Restored]_vars

\* Only installed packages are owners, so what owns a path can be removed, even
\* after lines of the index were cut: what is left of those is nobody's.
OwnersAreInstalled == IsIdle => \A o \in Owners(idx) : o[2] = Torn \/ Installed(o[2])

\* What an installed package depends on is installed, or provided.
DependenciesInstalled ==
    IsIdle => \A n \in Names : Installed(n) =>
                \A d \in DependsOf[rec[n]] : Installed(d) \/ Providers(d) # {}

\* Without --force a package does not become installed next to one it declares
\* a conflict with, by name or by what that one provides -- except to another
\* package of the same add, which nothing checks.  A package that also replaces
\* what it conflicts with goes in, provided the other really went.
ConflictsEnforced ==
    [][\A n \in Names : (rec'[n] # rec[n] /\ rec'[n] # None /\ job.opts = {}) =>
          \A c \in ConflictsOf[rec'[n]] : ~Installed(c) /\ Providers(c) = {}]_vars

\* A transaction comes to an end, whatever fails in it.
TransactionsEnd == ~IsIdle ~> IsIdle
=============================================================================
