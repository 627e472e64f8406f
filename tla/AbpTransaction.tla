---------------------------- MODULE AbpTransaction ----------------------------
(***************************************************************************)
(* The transaction log of abp (src/crates/abp/src/transaction.rs): a list  *)
(* of operations, of which execute() tracks the files they create and      *)
(* copies the files they remove to a backup directory, and whose rollback  *)
(* unlinks the former and copies back the latter.  The files themselves    *)
(* are created and removed by the caller; no command uses the log yet.     *)
(*                                                                         *)
(* The backup directory is named for the second in which the transaction   *)
(* was made, and cleaning it up is an rmdir: backups remain in it.         *)
(*                                                                         *)
(* Files are copied by loops that end at the first read that fails and do  *)
(* not look at what write_all returns, so that a copy which stops half-way *)
(* passes for a whole one, there and back.                                 *)
(***************************************************************************)
EXTENDS Naturals, SequencesExt

CONSTANTS Files, FileContents, NoSuchFile,
          CutShort,     \* what a copy has that stopped half-way
          Operations,   \* [creates, removes]: sequences of files
          MaxOps,       \* bound: operations of a transaction
          MaxTime,      \* bound: seconds
          MaxRuns       \* bound: transactions

ASSUME TransactionAssumption ==
    /\ \A op \in Operations : op.creates \in Seq(Files) /\ op.removes \in Seq(Files)
    /\ MaxOps \in Nat /\ MaxTime \in Nat
    /\ CutShort # NoSuchFile

VARIABLES
    files,      \* files[f]
    backup,     \* backup[t][f]: the copy in the directory of second t
    now,        \* the second of the latest transaction
    runs,       \* how many transactions there were
    tx,         \* the transaction: its operations, and how far execute() is
    completed,  \* completed operations, for rollback
    atStart,    \* the files when execute() was called
    short,      \* the files whose copy in the backup directory stopped half-way
    lost        \* the files that were not copied back, or not to their end

tvars == <<files, backup, now, runs, tx, completed, atStart, short, lost>>

NoFiles == [f \in Files |-> NoSuchFile]
\* fresh: no earlier transaction left copies in this one's directory.
NoTx == [state |-> "none", ops |-> <<>>, time |-> 0, at |-> 1, left |-> <<>>, fresh |-> TRUE]

TransactionInit ==
    /\ files = NoFiles /\ runs = 0
    /\ backup = [t \in 0..MaxTime |-> NoFiles] /\ now = 0
    /\ tx = NoTx /\ completed = <<>> /\ atStart = NoFiles
    /\ short = {} /\ lost = {}

Idle == tx.state \in {"none", "completed", "rolled back"}

\* The caller's own work, before or after a transaction.
CallerWrites(f, c) ==
    /\ Idle /\ files[f] # c
    /\ files' = [files EXCEPT ![f] = c]
    /\ UNCHANGED <<backup, now, runs, tx, completed, atStart, short, lost>>

\* Transaction::new, add_install, add_remove, add_upgrade, execute.
Execute(ops, time) ==
    /\ Idle /\ runs < MaxRuns /\ time >= now
    /\ runs' = runs + 1 /\ now' = time
    /\ tx' = [state |-> "in progress", ops |-> ops, time |-> time, at |-> 1,
              left |-> ops[1].removes, fresh |-> backup[time] = NoFiles]
    /\ completed' = <<>> /\ atStart' = files /\ short' = {} /\ lost' = {}
    /\ UNCHANGED <<files, backup>>

Running == tx.state = "in progress" /\ tx.at <= Len(tx.ops)

\* execute_remove backs up file by file; one that is absent is passed over.
BackupFile ==
    /\ Running /\ tx.left # <<>>
    /\ LET f == Head(tx.left)
       IN  IF files[f] = NoSuchFile THEN UNCHANGED <<backup, short>>
           ELSE backup' = [backup EXCEPT ![tx.time][f] = files[f]] /\ short' = short \ {f}
    /\ tx' = [tx EXCEPT !.left = Tail(@)]
    /\ UNCHANGED <<files, now, runs, completed, atStart, lost>>

\* A read or a write of the copy fails: backup_file answers Ok all the same.
BackupStops ==
    /\ Running /\ tx.left # <<>> /\ files[Head(tx.left)] # NoSuchFile
    /\ backup' = [backup EXCEPT ![tx.time][Head(tx.left)] = CutShort]
    /\ short' = short \cup {Head(tx.left)}
    /\ tx' = [tx EXCEPT !.left = Tail(@)]
    /\ UNCHANGED <<files, now, runs, completed, atStart, lost>>

\* The file cannot be opened, or its copy cannot be created.  The operation is
\* not among the completed ones: its earlier copies are left alone.
BackupFails ==
    /\ Running /\ tx.left # <<>> /\ files[Head(tx.left)] # NoSuchFile
    /\ tx' = [tx EXCEPT !.state = "rollback"]
    /\ UNCHANGED <<files, backup, now, runs, completed, atStart, short, lost>>

OperationDone ==
    /\ Running /\ tx.left = <<>>
    /\ completed' = <<tx.at>> \o completed
    /\ tx' = [tx EXCEPT !.at = @ + 1,
                        !.left = IF tx.at < Len(tx.ops) THEN tx.ops[tx.at + 1].removes ELSE <<>>]
    /\ UNCHANGED <<files, backup, now, runs, atStart, short, lost>>

\* rmdir removes the backup directory only when nothing was copied there.
Commit ==
    /\ tx.state = "in progress" /\ tx.at > Len(tx.ops)
    /\ tx' = [tx EXCEPT !.state = "completed"]
    /\ UNCHANGED <<files, backup, now, runs, completed, atStart, short, lost>>

\* What an operation created, and what it removed of which there is a copy.
Created(i) == ToSet(tx.ops[i].creates)
Copied(i) == {f \in ToSet(tx.ops[i].removes) : backup[tx.time][f] # NoSuchFile}

\* (mutant: copies back before it unlinks)
TakeBack_RestoreFirst(i) ==
    \E kept \in SUBSET Created(i), refused, cut \in SUBSET Copied(i) :
        /\ files' = [f \in Files |-> IF f \in Created(i) \ kept THEN NoSuchFile
                                    ELSE IF f \in cut THEN CutShort
                                    ELSE IF f \in Copied(i) \ refused THEN backup[tx.time][f]
                                    ELSE files[f]]
        /\ lost' = (lost \ Copied(i)) \cup refused \cup cut

\* Unlink what an operation created, then copy back what it removed.  Nobody asks whether
\* a file could be unlinked (kept if not), its place opened (refused if not), and all of
\* it written (cut if not).
TakeBack(i) ==
    \E kept \in SUBSET Created(i), refused, cut \in SUBSET Copied(i) :
        /\ files' = [f \in Files |-> IF f \in cut THEN CutShort
                                    ELSE IF f \in Copied(i) \ refused THEN backup[tx.time][f]
                                    ELSE IF f \in Created(i) \ kept THEN NoSuchFile
                                    ELSE files[f]]
        /\ lost' = (lost \ Copied(i)) \cup refused \cup cut

\* One completed operation, the latest first.
Rollback ==
    /\ tx.state = "rollback" /\ completed # <<>> /\ completed' = Tail(completed)
    /\ TakeBack(Head(completed))
    /\ UNCHANGED <<backup, now, runs, tx, atStart, short>>

RolledBack ==
    /\ tx.state = "rollback" /\ completed = <<>>
    /\ tx' = [tx EXCEPT !.state = "rolled back"]
    /\ UNCHANGED <<files, backup, now, runs, completed, atStart, short, lost>>

TransactionNext ==
    \/ \E f \in Files, c \in FileContents \cup {NoSuchFile} : CallerWrites(f, c)
    \/ \E n \in 1..MaxOps : \E ops \in [1..n -> Operations], t \in 0..MaxTime : Execute(ops, t)
    \/ BackupFile \/ BackupStops \/ BackupFails \/ OperationDone \/ Commit
    \/ Rollback \/ RolledBack

TransactionSpec == TransactionInit /\ [][TransactionNext]_tvars

-----------------------------------------------------------------------------
(* Properties                                                              *)

\* The first operation that names f: the last one to be rolled back.
Naming(f) == {i \in DOMAIN tx.ops : f \in ToSet(tx.ops[i].creates) \cup ToSet(tx.ops[i].removes)}
FirstRemoves(f) == \E i \in Naming(f) : /\ \A j \in Naming(f) : i <= j
                                        /\ f \in ToSet(tx.ops[i].removes)

\* "atomic package operations with rollback capability" (transaction.rs:3): when
\* an operation fails, every file is back as it was before the transaction,
\* also one that an upgrade both removes and creates, and that later operations
\* create or remove again; a file that cannot be unlinked or copied keeps none of the
\* others from it.  Given up are files whose latest copy, there or back, stopped
\* half-way, which nobody notices (transaction.rs:309, :336, :422); files an operation
\* was to create before any was to remove them; and that the directory of the same
\* second has no copies of an earlier transaction.
RollbackRestoresFiles ==
    [][tx'.state = "rolled back" /\ tx.state = "rollback" /\ tx.fresh =>
          \A f \in Files \ (short \cup lost) :
              Naming(f) = {} \/ FirstRemoves(f) => files[f] = atStart[f]]_tvars
=============================================================================
