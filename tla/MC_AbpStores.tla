----------------------------- MODULE MC_AbpStores -----------------------------
(***************************************************************************)
(* What abp keeps on disk when processes interfere or are killed: the      *)
(* database under two processes (AbpDatabase), and adds and removals with  *)
(* every option (AbpInstall) of which any step may fail or be the last.    *)
(*                                                                         *)
(* A behaviour runs one part, the other being in its initial state.        *)
(***************************************************************************)
EXTENDS AbpDatabase, TLC

CONSTANTS None, Gone, Foreign, Broken   \* of AbpInstall

VARIABLE part

-----------------------------------------------------------------------------
(* The packages.                                                           *)
(*   a1, a2   two versions of a; a1 has f1 f2, a2 has f2 f3                *)
(*   b1       has f3 (as a2 does) and the configuration file f4            *)

Three == {"a1", "a2", "b1"}
NothingOf == [p \in Three |-> {}]

VARIABLES ifs, idirs, irec, iidx, ijob, ifaults

Install == INSTANCE AbpInstall WITH
    Pkgs <- Three, Names <- {"a", "b"}, Paths <- {"f1", "f2", "f3", "f4"},
    NameOf <- ("a1" :> "a") @@ ("a2" :> "a") @@ ("b1" :> "b"),
    VersionOf <- ("a1" :> 1) @@ ("a2" :> 2) @@ ("b1" :> 1),
    FilesOf <- ("a1" :> {"f1", "f2"}) @@ ("a2" :> {"f2", "f3"}) @@ ("b1" :> {"f3", "f4"}),
    DependsOf <- NothingOf, ProvidesOf <- NothingOf, ConflictsOf <- NothingOf,
    ReplacesOf <- NothingOf, ConfigFiles <- {"f4"}, Available <- {}, InitialFiles <- {"f3"},
    DirOf <- ("f1" :> "bin") @@ ("f2" :> "bin") @@ ("f3" :> "bin") @@ ("f4" :> "etc"),
    AddRequests <- {{p} : p \in Three},
    Flags <- {"force", "no_deps", "purge"}, MaxFaults <- 2,
    Faults <- {"verify", "memory", "open", "write", "register", "put", "unregister", "delete", "crash"},
    fs <- ifs, dirs <- idirs, rec <- irec, idx <- iidx, job <- ijob, faults <- ifaults
ivars == <<ifs, idirs, irec, iidx, ijob, ifaults>>

-----------------------------------------------------------------------------
StoresInit == part \in {"database", "install"} /\ Init /\ Install!Init

StoresNext ==
    \/ part = "database" /\ Next /\ UNCHANGED <<part, ivars>>
    \/ part = "install" /\ Install!Next /\ UNCHANGED <<part, vars>>

StoresSpec ==
    /\ StoresInit /\ [][StoresNext]_<<part, vars, ivars>>
    /\ WF_ivars(part = "install" /\ Install!Work)

-----------------------------------------------------------------------------
\* Whatever fails, and wherever abp is killed, a record appears only when what it says
\* is true (install.rs:246).
CommitIsComplete == Install!CommitIsComplete

\* A transaction comes to an end, whatever fails in it.
TransactionsEnd == Install!TransactionsEnd
=============================================================================
