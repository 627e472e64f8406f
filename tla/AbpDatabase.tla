------------------------------ MODULE AbpDatabase ------------------------------
(***************************************************************************)
(* The installed-package database of abp on disk                           *)
(* (src/crates/abp/src/database.rs):                                       *)
(*                                                                         *)
(*   packages/<name>   one record per installed package                    *)
(*   files.idx         the file-ownership index (module AbpIndex)          *)
(*                                                                         *)
(* Several abp processes use it at once: no function takes a lock.  Each   *)
(* function is split into its system calls; between two of them any other  *)
(* process may run, and a process may be killed.  A record and a rewritten *)
(* index reach their file through atomic_write: a temporary file           *)
(* "<file>.tmp.<pid>", then rename().                                      *)
(***************************************************************************)
EXTENDS AbpIndex

CONSTANTS Versions,    \* what distinguishes two records of one package
          Procs,       \* abp processes, by pid
          Absent,      \* no such file; no argument
          Partial,     \* a file that holds only a part of what was written
          CutsPossible,\* the outcomes of an append: a subset of Cuts
          MaxLines,    \* bound: lines in the index
          MaxCrashes   \* bound: processes killed in a behaviour

IndexFile == "files.idx"

Record(n) == [name : {n}, version : Versions]
Targets == Names \cup {IndexFile}
WholeContents(t) == IF t = IndexFile THEN Index ELSE Record(t)
Contents == Index \cup UNION {Record(n) : n \in Names}

ASSUME DatabaseAssumption ==
    /\ IndexFile \notin Names
    /\ CutsPossible \subseteq Cuts
    /\ MaxLines \in Nat /\ MaxCrashes \in Nat
    /\ Absent # Partial
    /\ Absent \notin Paths \cup Names

ASSUME WholeIsNotPartial == {Absent, Partial} \cap Contents = {}

VARIABLES
    disk,     \* disk[t]: the file t, a record or the index
    tmp,      \* tmp[<<t, p>>]: the temporary file t.tmp.p
    op,       \* op[p]: the database call process p is in
    crashes   \* how many processes were killed

vars == <<disk, tmp, op, crashes>>

\* pc: the system call that comes next.  path, name: the call's arguments.
\* fd: the append's descriptor still refers to the file the name leads to.
Op == [pc : {"idle", "open", "write", "rename", "append"},
       target : Targets, data : Contents \cup {Absent},
       path : Paths \cup {Absent}, name : Names \cup {Absent}, fd : BOOLEAN]

Idle == [pc |-> "idle", target |-> IndexFile, data |-> Absent,
         path |-> Absent, name |-> Absent, fd |-> FALSE]

TypeOK ==
    /\ disk \in [Targets -> Contents \cup {Absent, Partial}]
    /\ tmp \in [Targets \X Procs -> Contents \cup {Absent, Partial}]
    /\ op \in [Procs -> Op]
    /\ crashes \in Nat

Init ==
    /\ disk = [t \in Targets |-> Absent]
    /\ tmp = [x \in Targets \X Procs |-> Absent]
    /\ op = [p \in Procs |-> Idle]
    /\ crashes = 0

-----------------------------------------------------------------------------
(* Calls that rewrite a file: they prepare the new contents...             *)

\* (mutant: removes the old record first)
PutPackage_UnlinkFirst(p, n, v) ==
    /\ op[p].pc = "idle"
    /\ op' = [op EXCEPT ![p] =
                [Idle EXCEPT !.pc = "open", !.target = n, !.name = n,
                             !.data = [name |-> n, version |-> v]]]
    /\ disk' = [disk EXCEPT ![n] = Absent]
    /\ UNCHANGED <<tmp, crashes>>

PutPackage(p, n, v) ==
    /\ op[p].pc = "idle"
    /\ op' = [op EXCEPT ![p] =
                [Idle EXCEPT !.pc = "open", !.target = n, !.name = n,
                             !.data = [name |-> n, version |-> v]]]
    /\ UNCHANGED <<disk, tmp, crashes>>

\* Without an index there is nothing to rebuild: the call returns true.
UnregisterFiles(p, n) ==
    /\ op[p].pc = "idle"
    /\ disk[IndexFile] \in Index
    /\ op' = [op EXCEPT ![p] =
                [Idle EXCEPT !.pc = "open", !.target = IndexFile, !.name = n,
                             !.data = WithoutOwner(disk[IndexFile], n)]]
    /\ UNCHANGED <<disk, tmp, crashes>>

UnregisterFile(p, f) ==
    /\ op[p].pc = "idle"
    /\ disk[IndexFile] \in Index
    /\ op' = [op EXCEPT ![p] =
                [Idle EXCEPT !.pc = "open", !.target = IndexFile, !.path = f,
                             !.data = WithoutPath(disk[IndexFile], f)]]
    /\ UNCHANGED <<disk, tmp, crashes>>

(* ... and atomic_write puts them in place.                                *)

\* (mutant: writes the file itself)
OpenTmp_InPlace(p) ==
    /\ op[p].pc = "open"
    /\ disk' = [disk EXCEPT ![op[p].target] = Partial]
    /\ tmp' = [tmp EXCEPT ![<<op[p].target, p>>] = Partial]
    /\ op' = [op EXCEPT ![p].pc = "write"]
    /\ UNCHANGED crashes

\* (mutant: no pid in the temporary file's name)
OpenTmp_SharedName(p) ==
    /\ op[p].pc = "open"
    /\ tmp' = [x \in DOMAIN tmp |-> IF x[1] = op[p].target THEN Partial ELSE tmp[x]]
    /\ op' = [op EXCEPT ![p].pc = "write"]
    /\ UNCHANGED <<disk, crashes>>

\* O_CREAT | O_TRUNC: whatever an earlier process of this pid left is gone.
OpenTmp(p) ==
    /\ op[p].pc = "open"
    /\ tmp' = [tmp EXCEPT ![<<op[p].target, p>>] = Partial]
    /\ op' = [op EXCEPT ![p].pc = "write"]
    /\ UNCHANGED <<disk, crashes>>

WriteTmp(p) ==
    /\ op[p].pc = "write"
    /\ tmp' = [tmp EXCEPT ![<<op[p].target, p>>] = op[p].data]
    /\ op' = [op EXCEPT ![p].pc = "rename"]
    /\ UNCHANGED <<disk, crashes>>

\* A descriptor another process holds on the old index no longer leads to it.
RenameTmp(p) ==
    LET t == op[p].target
    IN  /\ op[p].pc = "rename"
        /\ disk' = [disk EXCEPT ![t] = tmp[<<t, p>>]]
        /\ tmp' = [tmp EXCEPT ![<<t, p>>] = Absent]
        /\ op' = [q \in Procs |->
                    IF q = p THEN Idle
                    ELSE IF t = IndexFile THEN [op[q] EXCEPT !.fd = FALSE]
                    ELSE op[q]]
        /\ UNCHANGED crashes

\* (mutant: leaves the temporary file behind)
AtomicWriteFails_NoUnlink(p) ==
    /\ op[p].pc \in {"open", "write", "rename"}
    /\ op' = [op EXCEPT ![p] = Idle]
    /\ UNCHANGED <<disk, tmp, crashes>>

\* open, write or rename fails: the temporary file is unlinked, false returned.
AtomicWriteFails(p) ==
    /\ op[p].pc \in {"open", "write", "rename"}
    /\ tmp' = IF op[p].pc = "open" THEN tmp
              ELSE [tmp EXCEPT ![<<op[p].target, p>>] = Absent]
    /\ op' = [op EXCEPT ![p] = Idle]
    /\ UNCHANGED <<disk, crashes>>

-----------------------------------------------------------------------------
(* Calls of one or two system calls                                        *)

DeletePackage(p, n) ==
    /\ op[p].pc = "idle"
    /\ disk[n] # Absent
    /\ disk' = [disk EXCEPT ![n] = Absent]
    /\ UNCHANGED <<tmp, op, crashes>>

\* register_file: open(O_CREAT | O_APPEND) ...
RegisterFile(p, f, n) ==
    /\ op[p].pc = "idle"
    /\ disk' = [disk EXCEPT ![IndexFile] = IF @ = Absent THEN EmptyIndex ELSE @]
    /\ op' = [op EXCEPT ![p] = [Idle EXCEPT !.pc = "append", !.path = f,
                                            !.name = n, !.fd = TRUE]]
    /\ UNCHANGED <<tmp, crashes>>

\* ... and write: all of the entry, a part of it, or nothing.
AppendLine(p, cut) ==
    /\ op[p].pc = "append"
    /\ disk' = IF op[p].fd /\ disk[IndexFile] \in Index
               THEN [disk EXCEPT ![IndexFile] =
                       AppendEntry(@, op[p].path, op[p].name, cut)]
               ELSE disk
    /\ op' = [op EXCEPT ![p] = Idle]
    /\ UNCHANGED <<tmp, crashes>>

\* The process is killed, or the machine stops, between two system calls.
Crash(p) ==
    /\ op[p].pc # "idle"
    /\ crashes < MaxCrashes
    /\ op' = [op EXCEPT ![p] = Idle]
    /\ crashes' = crashes + 1
    /\ UNCHANGED <<disk, tmp>>

HasRoom == disk[IndexFile] \in Index => Cardinality(LinesOf(disk[IndexFile])) < MaxLines

Step(p) ==
    \/ \E n \in Names, v \in Versions : PutPackage(p, n, v)
    \/ \E n \in Names : UnregisterFiles(p, n)
    \/ \E f \in Paths : UnregisterFile(p, f)
    \/ OpenTmp(p)
    \/ WriteTmp(p)
    \/ RenameTmp(p)
    \/ AtomicWriteFails(p)
    \/ \E n \in Names : DeletePackage(p, n)
    \/ HasRoom /\ \E f \in Paths, n \in Names : RegisterFile(p, f, n)
    \/ \E cut \in CutsPossible : AppendLine(p, cut)
    \/ Crash(p)

Next == \E p \in Procs : Step(p)

Spec == Init /\ [][Next]_vars

-----------------------------------------------------------------------------
(* Reading                                                                 *)

\* get_package: from_bytes rejects a record that ends early.
Stored(n) == IF disk[n] \in Record(n) THEN disk[n] ELSE Absent

\* is_installed
IsInstalled(n) == Stored(n) # Absent

\* list_packages reads every entry of packages/ whose name is a valid package
\* name, and "<name>.tmp.<pid>" is one; the record inside says <name>.
Listed ==
    {n \in Names : \/ IsInstalled(n)
                   \/ \E p \in Procs : tmp[<<n, p>>] \in Record(n)}

-----------------------------------------------------------------------------
(* Properties                                                              *)

\* "This prevents a crash mid-write from corrupting the record" (atomic_write,
\* database.rs:838): whatever the processes do and whoever is killed, a reader
\* of a record or of the index never sees half of a rewrite, nor the contents
\* of another file.
TargetsWhole == \A t \in Targets : disk[t] \in WholeContents(t) \cup {Absent}

\* Two processes never write through one temporary file, so what a process
\* renames is exactly what it prepared: the pid in the name keeps them apart.
RenamesItsOwnData ==
    \A p \in Procs : op[p].pc = "rename" => tmp[<<op[p].target, p>>] = op[p].data

\* atomic_write cleans up on every failing path: as long as no process was
\* killed, a temporary file exists only while its process is between creating
\* it and renaming it, so list_packages does not meet one left behind.
TempFilesCleaned ==
    crashes = 0 =>
        \A t \in Targets, p \in Procs :
            tmp[<<t, p>>] # Absent => op[p].target = t /\ op[p].pc \in {"write", "rename"}

\* A line leaves the index only by a step of a process that is unregistering
\* its package or its path: unregister_files "rewrites ownership data for ALL
\* packages" (database.rs:560) and must put the others' back.
IndexLines == IF disk[IndexFile] \in Index THEN Owners(disk[IndexFile]) ELSE {}
UnregistersOnlyItsOwn ==
    [][\A l \in IndexLines \ IndexLines' :
         \E p \in Procs : /\ op[p].pc = "rename"
                          /\ op[p].target = IndexFile
                          /\ (op[p].path = l[1] \/ op[p].name = l[2])]_vars

\* register_file returns true only when its line is in the index: the caller
\* goes on to write the package record on the strength of that answer.
RegisteredIsRecorded ==
    [][\A p \in Procs :
         AppendLine(p, "all") => <<op[p].path, op[p].name>> \in IndexLines']_vars

\* "packages/ # Package records (one file per package)" and "List all installed
\* packages" (database.rs:364, 443): while no call is under way, list_packages
\* names exactly the packages that are installed.
ListsInstalledOnly ==
    (\A p \in Procs : op[p].pc = "idle") => \A n \in Listed : IsInstalled(n)

-----------------------------------------------------------------------------
(* What the database promises                                              *)

\* The calls on records under way, as the abstract store sees them.
PendingPut(p) == IF op[p].pc \in {"open", "write", "rename"} /\ op[p].target # IndexFile
                 THEN op[p].data ELSE Absent

Records == INSTANCE AbpRecordStore
             WITH store <- [n \in Names |-> Stored(n)],
                  pending <- [p \in Procs |-> PendingPut(p)],
                  owners <- IndexLines

\* The records are an atomic map, for any number of processes and crashes: a
\* put takes effect once and completely, or not at all.
RecordsAreAtomic == Records!Spec

\* The index is a relation between paths and packages, for one process.
IndexIsARelation == Records!OwnersSpec

\* All of it together, which one process without kills is enough for (two are not:
\* UnregistersOnlyItsOwn; nor one with kills: ListsInstalledOnly).
OneProcessSuffices ==
    /\ []ListsInstalledOnly
    /\ UnregistersOnlyItsOwn /\ RegisteredIsRecorded /\ IndexIsARelation
=============================================================================
