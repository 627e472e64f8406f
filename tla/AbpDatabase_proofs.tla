-------------------------- MODULE AbpDatabase_proofs --------------------------
(***************************************************************************)
(* Theorems about the package database, for any packages, paths, number of *)
(* processes and crashes.                                                  *)
(***************************************************************************)
EXTENDS AbpDatabase

-----------------------------------------------------------------------------
(* Type correctness and the contents of the files.                         *)

\* What a call under way is about to write belongs in the file it writes.
Fits(o) ==
    /\ o.pc \in {"open", "write", "rename"} => o.data \in WholeContents(o.target)
    /\ o.pc = "append" => o.path \in Paths /\ o.name \in Names

DataFits == \A p \in Procs : Fits(op[p])

IInv == TypeOK /\ TargetsWhole /\ RenamesItsOwnData /\ DataFits

LEMMA TargetsWholeType ==
    \A t \in Targets : WholeContents(t) \subseteq Contents
BY DEF Targets, WholeContents, Contents

LEMMA InitIInv == Init => IInv
<1> SUFFICES ASSUME Init PROVE IInv
  OBVIOUS
<1>1. Idle \in Op
  BY DEF Idle, Op, Targets
<1>2. TypeOK
  BY <1>1 DEF Init, TypeOK
<1>3. TargetsWhole
  BY DEF Init, TargetsWhole
<1>4. RenamesItsOwnData /\ DataFits
  BY DEF Init, RenamesItsOwnData, DataFits, Fits, Idle
<1> QED BY <1>2, <1>3, <1>4 DEF IInv

\* What every step of process p does: it changes p's call to o, leaves whole
\* contents in the files, and touches no other process's temporary files.
LEMMA OneProcessSteps ==
    ASSUME IInv, NEW p \in Procs, NEW o \in Op,
           op' \in [Procs -> Op], op'[p] = o,
           \A q \in Procs \ {p} : /\ op'[q].pc = op[q].pc
                                  /\ op'[q].target = op[q].target
                                  /\ op'[q].data = op[q].data
                                  /\ op'[q].path = op[q].path
                                  /\ op'[q].name = op[q].name,
           disk' \in [Targets -> Contents \cup {Absent, Partial}],
           \A t \in Targets : disk'[t] \in WholeContents(t) \cup {Absent},
           tmp' \in [Targets \X Procs -> Contents \cup {Absent, Partial}],
           \A t \in Targets, q \in Procs \ {p} : tmp'[<<t, q>>] = tmp[<<t, q>>],
           crashes' \in Nat,
           Fits(o),
           o.pc = "rename" => tmp'[<<o.target, p>>] = o.data
    PROVE  IInv'
<1>1. TypeOK'
  BY DEF TypeOK
<1>2. TargetsWhole'
  BY DEF TargetsWhole, WholeContents, Record
<1>3. DataFits'
  <2>1. \A q \in Procs \ {p} : Fits(op[q])
    BY DEF IInv, DataFits
  <2> QED BY <2>1 DEF DataFits, Fits, WholeContents, Record
<1>4. RenamesItsOwnData'
  <2> SUFFICES ASSUME NEW q \in Procs, op'[q].pc = "rename"
               PROVE  tmp'[<<op'[q].target, q>>] = op'[q].data
    BY DEF RenamesItsOwnData
  <2>1. CASE q = p
    BY <2>1
  <2>2. CASE q # p
    <3>1. tmp[<<op[q].target, q>>] = op[q].data
      BY <2>2 DEF IInv, RenamesItsOwnData
    <3>2. op[q].target \in Targets
      BY DEF IInv, TypeOK, Op
    <3> QED BY <2>2, <3>1, <3>2
  <2> QED BY <2>1, <2>2
<1> QED BY <1>1, <1>2, <1>3, <1>4 DEF IInv

\* The same for a step that changes only p's call ...
LEMMA CallSteps ==
    ASSUME IInv, NEW p \in Procs, NEW o \in Op, op' = [op EXCEPT ![p] = o],
           UNCHANGED <<disk, tmp>>, crashes' \in Nat, Fits(o), o.pc # "rename"
    PROVE  IInv'
<1>1. /\ op \in [Procs -> Op]
      /\ disk \in [Targets -> Contents \cup {Absent, Partial}]
      /\ tmp \in [Targets \X Procs -> Contents \cup {Absent, Partial}]
  BY DEF IInv, TypeOK
<1>2. \A t \in Targets : disk[t] \in WholeContents(t) \cup {Absent}
  BY DEF IInv, TargetsWhole
<1>3. op' \in [Procs -> Op] /\ op'[p] = o /\ \A q \in Procs \ {p} : op'[q] = op[q]
  BY <1>1
<1> QED BY <1>1, <1>2, <1>3, OneProcessSteps

\* ... that also changes one file ...
LEMMA FileSteps ==
    ASSUME IInv, NEW p \in Procs, NEW o \in Op, op' = [op EXCEPT ![p] = o],
           NEW t \in Targets, NEW y \in WholeContents(t) \cup {Absent},
           disk' = [disk EXCEPT ![t] = y],
           UNCHANGED <<tmp, crashes>>, Fits(o), o.pc # "rename"
    PROVE  IInv'
<1>1. /\ op \in [Procs -> Op] /\ crashes \in Nat
      /\ disk \in [Targets -> Contents \cup {Absent, Partial}]
      /\ tmp \in [Targets \X Procs -> Contents \cup {Absent, Partial}]
  BY DEF IInv, TypeOK
<1>2. \A u \in Targets : disk'[u] \in WholeContents(u) \cup {Absent}
  BY <1>1 DEF IInv, TargetsWhole
<1>3. disk' \in [Targets -> Contents \cup {Absent, Partial}]
  BY <1>1, TargetsWholeType
<1>4. op' \in [Procs -> Op] /\ op'[p] = o /\ \A q \in Procs \ {p} : op'[q] = op[q]
  BY <1>1
<1> QED BY <1>1, <1>2, <1>3, <1>4, OneProcessSteps

\* ... or one of p's own temporary files.
LEMMA TmpSteps ==
    ASSUME IInv, NEW p \in Procs, NEW o \in Op, op' = [op EXCEPT ![p] = o],
           NEW t \in Targets, NEW x \in Contents \cup {Absent, Partial},
           tmp' = [tmp EXCEPT ![<<t, p>>] = x],
           UNCHANGED <<disk, crashes>>, Fits(o),
           o.pc = "rename" => o.target = t /\ x = o.data
    PROVE  IInv'
<1>1. /\ op \in [Procs -> Op] /\ crashes \in Nat
      /\ disk \in [Targets -> Contents \cup {Absent, Partial}]
      /\ tmp \in [Targets \X Procs -> Contents \cup {Absent, Partial}]
  BY DEF IInv, TypeOK
<1>2. \A u \in Targets : disk[u] \in WholeContents(u) \cup {Absent}
  BY DEF IInv, TargetsWhole
<1>3. /\ tmp' \in [Targets \X Procs -> Contents \cup {Absent, Partial}]
      /\ tmp'[<<t, p>>] = x
      /\ \A u \in Targets, q \in Procs \ {p} : tmp'[<<u, q>>] = tmp[<<u, q>>]
  BY <1>1
<1>4. op' \in [Procs -> Op] /\ op'[p] = o /\ \A q \in Procs \ {p} : op'[q] = op[q]
  BY <1>1
<1>5. /\ disk' \in [Targets -> Contents \cup {Absent, Partial}]
      /\ \A u \in Targets : disk'[u] \in WholeContents(u) \cup {Absent}
  BY <1>1, <1>2
<1>6. crashes' \in Nat
  BY <1>1
<1>7. o.pc = "rename" => tmp'[<<o.target, p>>] = o.data
  BY <1>3
<1> QED BY <1>3, <1>4, <1>5, <1>6, <1>7, OneProcessSteps

LEMMA StepIInv ==
    ASSUME IInv, NEW p \in Procs, Step(p)
    PROVE  IInv'
<1>a. Idle \in Op /\ Idle.pc = "idle" /\ Fits(Idle)
  BY DEF Idle, Op, Targets, Fits
<1>b. IndexFile \in Targets /\ Names \subseteq Targets
  BY DEF Targets
<1>c. op \in [Procs -> Op] /\ crashes \in Nat
  BY DEF IInv, TypeOK
<1>1. CASE \E n \in Names, v \in Versions : PutPackage(p, n, v)
  <2>1. PICK n \in Names, v \in Versions : PutPackage(p, n, v)
    BY <1>1
  <2> DEFINE o == [Idle EXCEPT !.pc = "open", !.target = n, !.name = n,
                               !.data = [name |-> n, version |-> v]]
  <2>2. [name |-> n, version |-> v] \in Record(n) /\ n # IndexFile
    BY DatabaseAssumption DEF Record
  <2>3. o \in Op /\ o.pc = "open" /\ Fits(o)
    BY <2>2 DEF Op, Idle, Targets, Contents, WholeContents, Fits
  <2>4. op' = [op EXCEPT ![p] = o] /\ UNCHANGED <<disk, tmp, crashes>>
    BY <2>1 DEF PutPackage
  <2> HIDE DEF o
  <2> QED BY <1>c, <2>3, <2>4, CallSteps
<1>2. CASE \E n \in Names : UnregisterFiles(p, n)
  <2>1. PICK n \in Names : UnregisterFiles(p, n)
    BY <1>2
  <2> DEFINE o == [Idle EXCEPT !.pc = "open", !.target = IndexFile, !.name = n,
                               !.data = WithoutOwner(disk[IndexFile], n)]
  <2>2. WithoutOwner(disk[IndexFile], n) \in Index
    BY <2>1, WithoutType DEF UnregisterFiles
  <2>3. o \in Op /\ o.pc = "open" /\ Fits(o)
    BY <2>2 DEF Op, Idle, Targets, Contents, WholeContents, Fits
  <2>4. op' = [op EXCEPT ![p] = o] /\ UNCHANGED <<disk, tmp, crashes>>
    BY <2>1 DEF UnregisterFiles
  <2> HIDE DEF o
  <2> QED BY <1>c, <2>3, <2>4, CallSteps
<1>3. CASE \E f \in Paths : UnregisterFile(p, f)
  <2>1. PICK f \in Paths : UnregisterFile(p, f)
    BY <1>3
  <2> DEFINE o == [Idle EXCEPT !.pc = "open", !.target = IndexFile, !.path = f,
                               !.data = WithoutPath(disk[IndexFile], f)]
  <2>2. WithoutPath(disk[IndexFile], f) \in Index
    BY <2>1, WithoutType DEF UnregisterFile
  <2>3. o \in Op /\ o.pc = "open" /\ Fits(o)
    BY <2>2 DEF Op, Idle, Targets, Contents, WholeContents, Fits
  <2>4. op' = [op EXCEPT ![p] = o] /\ UNCHANGED <<disk, tmp, crashes>>
    BY <2>1 DEF UnregisterFile
  <2> HIDE DEF o
  <2> QED BY <1>c, <2>3, <2>4, CallSteps
<1>4. CASE OpenTmp(p)
  <2> DEFINE o == [op[p] EXCEPT !.pc = "write"]
  <2>1. o \in Op /\ o.pc = "write" /\ Fits(o) /\ op[p].target \in Targets
    BY <1>c, <1>4 DEF OpenTmp, IInv, DataFits, Fits, Op
  <2>2. op' = [op EXCEPT ![p] = o] /\ UNCHANGED <<disk, crashes>>
    BY <1>4 DEF OpenTmp
  <2>3. tmp' = [tmp EXCEPT ![<<op[p].target, p>>] = Partial]
    BY <1>4 DEF OpenTmp
  <2> HIDE DEF o
  <2> QED BY <2>1, <2>2, <2>3, TmpSteps
<1>5. CASE WriteTmp(p)
  <2> DEFINE o == [op[p] EXCEPT !.pc = "rename"]
  <2>1. /\ o \in Op /\ o.pc = "rename" /\ Fits(o)
        /\ o.target = op[p].target /\ o.data = op[p].data
        /\ op[p].target \in Targets /\ op[p].data \in WholeContents(op[p].target)
    BY <1>c, <1>5 DEF WriteTmp, IInv, DataFits, Fits, Op
  <2>2. op' = [op EXCEPT ![p] = o] /\ UNCHANGED <<disk, crashes>>
    BY <1>5 DEF WriteTmp
  <2>3. tmp' = [tmp EXCEPT ![<<op[p].target, p>>] = op[p].data]
    BY <1>5 DEF WriteTmp
  <2>4. op[p].data \in Contents
    BY <2>1, TargetsWholeType
  <2> HIDE DEF o
  <2> QED BY <2>1, <2>2, <2>3, <2>4, TmpSteps
<1>6. CASE RenameTmp(p)
  <2> DEFINE t == op[p].target
  <2>1. t \in Targets /\ tmp[<<t, p>>] \in WholeContents(t)
    BY <1>6, <1>c DEF RenameTmp, IInv, RenamesItsOwnData, DataFits, Fits, Op
  <2>2. disk' = [disk EXCEPT ![t] = tmp[<<t, p>>]] /\ UNCHANGED crashes
    BY <1>6 DEF RenameTmp
  <2>3. tmp' = [tmp EXCEPT ![<<t, p>>] = Absent]
    BY <1>6 DEF RenameTmp
  <2>4. \A q \in Procs : [op[q] EXCEPT !.fd = FALSE] \in Op
    BY <1>c DEF Op
  <2>5. \A q \in Procs \ {p} : op'[q] = op[q] \/ op'[q] = [op[q] EXCEPT !.fd = FALSE]
    BY <1>6 DEF RenameTmp
  <2>6. op'[p] = Idle /\ op' \in [Procs -> Op]
    BY <1>6, <1>a, <1>c, <2>4 DEF RenameTmp
  <2>7. \A q \in Procs \ {p} : /\ op'[q].pc = op[q].pc
                               /\ op'[q].target = op[q].target
                               /\ op'[q].data = op[q].data
                               /\ op'[q].path = op[q].path
                               /\ op'[q].name = op[q].name
    <3> TAKE q \in Procs \ {p}
    <3>1. op[q] \in Op
      BY <1>c
    <3>2. CASE op'[q] = [op[q] EXCEPT !.fd = FALSE]
      BY <3>1, <3>2 DEF Op
    <3> QED BY <2>5, <3>2
  <2> HIDE DEF t
  <2>8. /\ disk' \in [Targets -> Contents \cup {Absent, Partial}]
        /\ \A u \in Targets : disk'[u] \in WholeContents(u) \cup {Absent}
    BY <2>1, <2>2, TargetsWholeType DEF IInv, TypeOK, TargetsWhole
  <2>9. /\ tmp' \in [Targets \X Procs -> Contents \cup {Absent, Partial}]
        /\ \A u \in Targets, q \in Procs \ {p} : tmp'[<<u, q>>] = tmp[<<u, q>>]
    BY <2>1, <2>3 DEF IInv, TypeOK
  <2> QED BY <1>a, <1>c, <2>2, <2>6, <2>7, <2>8, <2>9, OneProcessSteps
<1>7. CASE AtomicWriteFails(p)
  <2> DEFINE x == IF op[p].pc = "open" THEN tmp[<<op[p].target, p>>] ELSE Absent
  <2>1. op' = [op EXCEPT ![p] = Idle] /\ UNCHANGED <<disk, crashes>>
    BY <1>7 DEF AtomicWriteFails
  <2>2. /\ tmp' = [tmp EXCEPT ![<<op[p].target, p>>] = x]
        /\ x \in Contents \cup {Absent, Partial}
        /\ op[p].target \in Targets
    BY <1>7, <1>c DEF AtomicWriteFails, IInv, TypeOK, Op
  <2> HIDE DEF x
  <2> QED BY <1>a, <2>1, <2>2, TmpSteps
<1>8. CASE \E n \in Names : DeletePackage(p, n)
  <2>1. PICK n \in Names : DeletePackage(p, n)
    BY <1>8
  <2>2. /\ disk' = [disk EXCEPT ![n] = Absent] /\ UNCHANGED <<tmp, crashes>>
        /\ op' = [op EXCEPT ![p] = op[p]] /\ op[p] \in Op /\ op[p].pc = "idle"
    BY <1>c, <2>1 DEF DeletePackage
  <2>3. Fits(op[p])
    BY DEF IInv, DataFits
  <2> QED BY <1>b, <2>2, <2>3, FileSteps
<1>9. CASE HasRoom /\ \E f \in Paths, n \in Names : RegisterFile(p, f, n)
  <2>1. PICK f \in Paths, n \in Names : RegisterFile(p, f, n)
    BY <1>9
  <2> DEFINE o == [Idle EXCEPT !.pc = "append", !.path = f, !.name = n, !.fd = TRUE]
             y == IF disk[IndexFile] = Absent THEN EmptyIndex ELSE disk[IndexFile]
  <2>2. o \in Op /\ o.pc = "append" /\ Fits(o)
    BY DEF Op, Idle, Targets, Fits
  <2>3. y \in WholeContents(IndexFile) \cup {Absent}
    BY EmptyIndexType, <1>b DEF IInv, TargetsWhole, WholeContents
  <2>4. op' = [op EXCEPT ![p] = o] /\ UNCHANGED <<tmp, crashes>>
    BY <2>1 DEF RegisterFile
  <2>5. disk' = [disk EXCEPT ![IndexFile] = y]
    BY <2>1, <1>b DEF RegisterFile, IInv, TypeOK
  <2> HIDE DEF o, y
  <2> QED BY <1>b, <2>2, <2>3, <2>4, <2>5, FileSteps
<1>10. CASE \E cut \in CutsPossible : AppendLine(p, cut)
  <2>1. PICK cut \in CutsPossible : AppendLine(p, cut)
    BY <1>10
  <2>2. op' = [op EXCEPT ![p] = Idle] /\ UNCHANGED <<tmp, crashes>>
    BY <2>1 DEF AppendLine
  <2>3. CASE op[p].fd /\ disk[IndexFile] \in Index
    <3>1. AppendEntry(disk[IndexFile], op[p].path, op[p].name, cut) \in Index
      <4>1. op[p].path \in Paths /\ op[p].name \in Names
        BY <2>1 DEF AppendLine, IInv, DataFits, Fits
      <4>2. cut \in Cuts
        BY DatabaseAssumption
      <4> QED BY <2>3, <4>1, <4>2, AppendEntryType
    <3>2. disk' = [disk EXCEPT ![IndexFile] =
                     AppendEntry(disk[IndexFile], op[p].path, op[p].name, cut)]
      BY <2>1, <2>3, <1>b DEF AppendLine, IInv, TypeOK
    <3> QED BY <1>a, <1>b, <2>2, <3>1, <3>2, FileSteps DEF WholeContents
  <2>4. CASE ~(op[p].fd /\ disk[IndexFile] \in Index)
    <3>1. UNCHANGED disk
      BY <2>1, <2>4 DEF AppendLine
    <3> QED BY <1>a, <1>c, <2>2, <3>1, CallSteps
  <2> QED BY <2>3, <2>4
<1>11. CASE Crash(p)
  <2>1. op' = [op EXCEPT ![p] = Idle] /\ UNCHANGED <<disk, tmp>> /\ crashes' = crashes + 1
    BY <1>11 DEF Crash
  <2>2. crashes' \in Nat
    BY <1>c, <2>1
  <2> QED BY <1>a, <2>1, <2>2, CallSteps
<1> QED BY <1>1, <1>2, <1>3, <1>4, <1>5, <1>6, <1>7, <1>8, <1>9, <1>10, <1>11 DEF Step

LEMMA SpecIInv == Spec => []IInv
<1>1. IInv /\ [Next]_vars => IInv'
  <2>1. ASSUME IInv, Next PROVE IInv'
    BY <2>1, StepIInv DEF Next
  <2>2. ASSUME IInv, UNCHANGED vars PROVE IInv'
    BY <2>2 DEF vars, IInv, TypeOK, TargetsWhole, RenamesItsOwnData, DataFits, Fits,
                WholeContents, Record
  <2> QED BY <2>1, <2>2
<1> QED BY <1>1, InitIInv, PTL DEF Spec

\* The model's variables always have their types.
THEOREM TypeCorrect == Spec => []TypeOK
BY SpecIInv, PTL DEF IInv

\* Whatever is interleaved and whoever is killed, the name of a record or of
\* the index never leads to a part of a rewrite or to foreign contents.
THEOREM ReadersSeeWholeFiles == Spec => []TargetsWhole
BY SpecIInv, PTL DEF IInv

\* What a process renames into place is what it prepared, although any number
\* of processes may be rewriting the same file.
THEOREM ProcessesRenameTheirOwnData == Spec => []RenamesItsOwnData
BY SpecIInv, PTL DEF IInv

-----------------------------------------------------------------------------
(* The records implement the abstract store.                               *)

storeBar == [n \in Names |-> Stored(n)]
pendingBar == [p \in Procs |-> PendingPut(p)]

LEMMA AbsentIsNoRecord == \A n \in Names : Absent \notin Record(n)
BY WholeIsNotPartial DEF Contents

LEMMA PendingUpdate ==
    ASSUME NEW p \in Procs, NEW x, PendingPut(p)' = x,
           \A q \in Procs \ {p} : PendingPut(q)' = PendingPut(q)
    PROVE  pendingBar' = [pendingBar EXCEPT ![p] = x]
<1>1. \A q \in Procs : PendingPut(q)' = IF q = p THEN x ELSE PendingPut(q)
  OBVIOUS
<1>2. pendingBar' = [q \in Procs |-> IF q = p THEN x ELSE PendingPut(q)]
  BY <1>1 DEF pendingBar
<1>3. [pendingBar EXCEPT ![p] = x] = [q \in Procs |-> IF q = p THEN x ELSE PendingPut(q)]
  BY DEF pendingBar
<1> QED BY <1>2, <1>3

\* A step that keeps the records and p's pending put maps to a stutter.
LEMMA StutterMaps ==
    ASSUME IInv, NEW p \in Procs,
           \A n \in Names : disk'[n] = disk[n],
           \A q \in Procs \ {p} : op'[q] = op[q],
           PendingPut(p)' = PendingPut(p)
    PROVE  UNCHANGED <<storeBar, pendingBar>>
<1>1. \A n \in Names : Stored(n)' = Stored(n)
  BY DEF Stored, Record
<1>2. \A q \in Procs : PendingPut(q)' = PendingPut(q)
  BY DEF PendingPut
<1> QED BY <1>1, <1>2 DEF storeBar, pendingBar

\* A call that ends without effect, by failing or by a crash.
LEMMA AbandonMaps ==
    ASSUME IInv, NEW p \in Procs, UNCHANGED disk, op' = [op EXCEPT ![p] = Idle]
    PROVE  Records!GiveUp(p) \/ UNCHANGED <<storeBar, pendingBar>>
<1>1. op \in [Procs -> Op]
  BY DEF IInv, TypeOK
<1>2. PendingPut(p)' = Absent /\ \A q \in Procs \ {p} : op'[q] = op[q]
  BY <1>1 DEF PendingPut, Idle
<1>3. CASE PendingPut(p) = Absent
  BY <1>2, <1>3, StutterMaps
<1>4. CASE PendingPut(p) # Absent
  <2>1. pendingBar' = [pendingBar EXCEPT ![p] = Absent]
    <3>1. \A q \in Procs \ {p} : PendingPut(q)' = PendingPut(q)
      BY <1>2 DEF PendingPut
    <3> QED BY <1>2, <3>1, PendingUpdate
  <2>2. storeBar' = storeBar
    BY DEF storeBar, Stored, Record
  <2> QED BY <1>4, <2>1, <2>2 DEF Records!GiveUp, pendingBar, storeBar
<1> QED BY <1>3, <1>4

LEMMA StepMaps ==
    ASSUME IInv, NEW p \in Procs, Step(p)
    PROVE  Records!Next \/ UNCHANGED <<storeBar, pendingBar>>
<1>a. op \in [Procs -> Op] /\ disk \in [Targets -> Contents \cup {Absent, Partial}]
  BY DEF IInv, TypeOK
<1>b. IndexFile \in Targets /\ Names \subseteq Targets /\ IndexFile \notin Names
  BY DatabaseAssumption DEF Targets
<1>1. CASE \E n \in Names, v \in Versions : PutPackage(p, n, v)
  <2>1. PICK n \in Names, v \in Versions : PutPackage(p, n, v)
    BY <1>1
  <2> DEFINE r == [name |-> n, version |-> v]
             o == [Idle EXCEPT !.pc = "open", !.target = n, !.name = n, !.data = r]
  <2>2. op' = [op EXCEPT ![p] = o] /\ UNCHANGED disk /\ op[p].pc = "idle"
    BY <2>1 DEF PutPackage
  <2>3. o.pc = "open" /\ o.target = n /\ o.data = r
    BY DEF Idle
  <2>4. r \in Records!AnyRecord
    BY DEF Records!AnyRecord
  <2> HIDE DEF o, r
  <2>5. PendingPut(p) = Absent /\ PendingPut(p)' = r
    BY <1>a, <1>b, <2>2, <2>3 DEF PendingPut
  <2>6. \A q \in Procs \ {p} : PendingPut(q)' = PendingPut(q)
    BY <1>a, <2>2 DEF PendingPut
  <2>7. pendingBar[p] = Absent /\ pendingBar' = [pendingBar EXCEPT ![p] = r]
    BY <2>5, <2>6 DEF pendingBar
  <2>8. storeBar' = storeBar
    BY <2>2 DEF storeBar, Stored, Record
  <2>9. Records!Call(p)
    BY <2>4, <2>7, <2>8 DEF Records!Call, pendingBar, storeBar
  <2> QED BY <2>9 DEF Records!Next
<1>2. CASE (\E n \in Names : UnregisterFiles(p, n)) \/ (\E f \in Paths : UnregisterFile(p, f))
  <2>1. PICK o : /\ op' = [op EXCEPT ![p] = o] /\ UNCHANGED disk
                 /\ op[p].pc = "idle" /\ o.target = IndexFile
    <3> DEFINE Started(o) == /\ op' = [op EXCEPT ![p] = o] /\ UNCHANGED disk
                             /\ op[p].pc = "idle" /\ o.target = IndexFile
    <3>1. ASSUME NEW n \in Names, UnregisterFiles(p, n) PROVE \E o : Started(o)
      <4> WITNESS [Idle EXCEPT !.pc = "open", !.target = IndexFile, !.name = n,
                               !.data = WithoutOwner(disk[IndexFile], n)]
      <4> QED BY <3>1 DEF UnregisterFiles, Idle
    <3>2. ASSUME NEW f \in Paths, UnregisterFile(p, f) PROVE \E o : Started(o)
      <4> WITNESS [Idle EXCEPT !.pc = "open", !.target = IndexFile, !.path = f,
                               !.data = WithoutPath(disk[IndexFile], f)]
      <4> QED BY <3>2 DEF UnregisterFile, Idle
    <3> QED BY <1>2, <3>1, <3>2
  <2>2. PendingPut(p) = Absent /\ PendingPut(p)' = Absent
    BY <1>a, <2>1 DEF PendingPut
  <2> QED BY <1>a, <2>1, <2>2, StutterMaps
<1>3. CASE OpenTmp(p) \/ WriteTmp(p)
  <2>1. PICK c \in {"write", "rename"} :
          op' = [op EXCEPT ![p].pc = c] /\ UNCHANGED disk /\ op[p].pc \in {"open", "write"}
    BY <1>3 DEF OpenTmp, WriteTmp
  <2>2. op'[p] = [op[p] EXCEPT !.pc = c] /\ \A q \in Procs \ {p} : op'[q] = op[q]
    BY <1>a, <2>1
  <2>3. op'[p].pc = c /\ op'[p].target = op[p].target /\ op'[p].data = op[p].data
    BY <1>a, <2>2 DEF Op
  <2>4. PendingPut(p)' = PendingPut(p)
    BY <2>1, <2>3 DEF PendingPut
  <2> QED BY <2>1, <2>2, <2>4, StutterMaps
<1>4. CASE RenameTmp(p)
  <2> DEFINE t == op[p].target
  <2>1. /\ t \in Targets /\ tmp[<<t, p>>] = op[p].data
        /\ op[p].data \in WholeContents(t)
    BY <1>4, <1>a DEF RenameTmp, IInv, RenamesItsOwnData, DataFits, Fits, Op
  <2>2. disk' = [disk EXCEPT ![t] = op[p].data]
    BY <1>4, <2>1 DEF RenameTmp
  <2>3. op'[p] = Idle
    BY <1>4 DEF RenameTmp
  <2>4. \A q \in Procs \ {p} : PendingPut(q)' = PendingPut(q)
    <3> TAKE q \in Procs \ {p}
    <3>1. op[q] \in Op /\ (op'[q] = op[q] \/ op'[q] = [op[q] EXCEPT !.fd = FALSE])
      BY <1>4, <1>a DEF RenameTmp
    <3>2. op'[q].pc = op[q].pc /\ op'[q].target = op[q].target /\ op'[q].data = op[q].data
      <4>1. CASE op'[q] = [op[q] EXCEPT !.fd = FALSE]
        BY <3>1, <4>1 DEF Op
      <4> QED BY <3>1, <4>1
    <3> QED BY <3>2 DEF PendingPut
  <2>5. PendingPut(p)' = Absent
    BY <2>3 DEF PendingPut, Idle
  <2>6. CASE t = IndexFile
    <3>1. PendingPut(p) = Absent
      BY <2>6 DEF PendingPut
    <3>2. \A n \in Names : Stored(n)' = Stored(n)
      BY <1>a, <1>b, <2>2, <2>6 DEF Stored, Record
    <3> QED BY <2>4, <2>5, <3>1, <3>2 DEF storeBar, pendingBar
  <2>7. CASE t # IndexFile
    <3>1. t \in Names /\ op[p].data \in Record(t)
      BY <2>1, <2>7 DEF Targets, WholeContents
    <3>2. PendingPut(p) = op[p].data /\ op[p].data # Absent /\ op[p].data.name = t
      BY <1>4, <2>7, <3>1, AbsentIsNoRecord DEF PendingPut, RenameTmp, Record
    <3>3. \A n \in Names : Stored(n)' = IF n = t THEN op[p].data ELSE Stored(n)
      BY <1>a, <1>b, <2>2, <3>1 DEF Stored, Record
    <3>4. storeBar' = [storeBar EXCEPT ![t] = op[p].data]
      BY <3>3 DEF storeBar
    <3>5. pendingBar' = [pendingBar EXCEPT ![p] = Absent]
      BY <2>4, <2>5, PendingUpdate
    <3>7. pendingBar[p] = op[p].data
      BY <3>2 DEF pendingBar
    <3>6. Records!TakeEffect(p)
      BY <3>2, <3>4, <3>5, <3>7 DEF Records!TakeEffect, storeBar, pendingBar
    <3> QED BY <3>6 DEF Records!Next
  <2> QED BY <2>6, <2>7
<1>5. CASE AtomicWriteFails(p) \/ Crash(p)
  <2>1. UNCHANGED disk /\ op' = [op EXCEPT ![p] = Idle]
    BY <1>5 DEF AtomicWriteFails, Crash
  <2> QED BY <2>1, AbandonMaps DEF Records!Next
<1>6. CASE \E n \in Names : DeletePackage(p, n)
  <2>1. PICK n \in Names : DeletePackage(p, n)
    BY <1>6
  <2>2. disk' = [disk EXCEPT ![n] = Absent] /\ UNCHANGED op /\ disk[n] # Absent
    BY <2>1 DEF DeletePackage
  <2>3. disk[n] \in Record(n)
    BY <1>b, <2>2 DEF IInv, TargetsWhole, WholeContents
  <2>4. storeBar' = [storeBar EXCEPT ![n] = Absent] /\ storeBar[n] # Absent
    BY <1>a, <1>b, <2>2, <2>3, AbsentIsNoRecord DEF storeBar, Stored, Record
  <2>5. pendingBar' = pendingBar
    BY <2>2 DEF pendingBar, PendingPut
  <2>6. Records!Delete(n)
    BY <2>4, <2>5 DEF Records!Delete, storeBar, pendingBar
  <2> QED BY <2>6 DEF Records!Next
<1>7. CASE \E f \in Paths, n \in Names : RegisterFile(p, f, n)
  <2>1. PICK o : /\ op' = [op EXCEPT ![p] = o] /\ o.pc = "append" /\ op[p].pc = "idle"
                 /\ \A n \in Names : disk'[n] = disk[n]
    BY <1>7, <1>a, <1>b DEF RegisterFile, Idle
  <2>2. PendingPut(p) = Absent /\ PendingPut(p)' = Absent
    BY <1>a, <2>1 DEF PendingPut
  <2> QED BY <1>a, <2>1, <2>2, StutterMaps
<1>8. CASE \E cut \in CutsPossible : AppendLine(p, cut)
  <2>1. /\ op' = [op EXCEPT ![p] = Idle] /\ op[p].pc = "append"
        /\ \A n \in Names : disk'[n] = disk[n]
    BY <1>8, <1>a, <1>b DEF AppendLine
  <2>2. PendingPut(p) = Absent /\ PendingPut(p)' = Absent
    BY <1>a, <2>1 DEF PendingPut, Idle
  <2> QED BY <1>a, <2>1, <2>2, StutterMaps
<1> QED BY <1>1, <1>2, <1>3, <1>4, <1>5, <1>6, <1>7, <1>8 DEF Step

\* Records are put and deleted atomically, however many abp processes run and
\* wherever they are killed: the detailed database implements the abstract map.
THEOREM DatabaseImplementsRecordStore == Spec => RecordsAreAtomic
<1>1. Init => Records!Init
  <2> SUFFICES ASSUME Init PROVE Records!Init
    OBVIOUS
  <2>1. \A n \in Names : Stored(n) = Absent
    BY AbsentIsNoRecord DEF Init, Stored, Targets
  <2>2. \A p \in Procs : PendingPut(p) = Absent
    BY DEF Init, PendingPut, Idle
  <2> QED BY <2>1, <2>2 DEF Records!Init
<1>2. IInv /\ [Next]_vars => [Records!Next]_(Records!vars)
  <2>1. ASSUME IInv, Next PROVE Records!Next \/ UNCHANGED Records!vars
    BY <2>1, StepMaps DEF Next, Records!vars, storeBar, pendingBar
  <2>2. ASSUME UNCHANGED vars PROVE UNCHANGED Records!vars
    BY <2>2 DEF vars, Records!vars, Stored, Record, PendingPut
  <2> QED BY <2>1, <2>2
<1> QED BY <1>1, <1>2, SpecIInv, PTL DEF Spec, RecordsAreAtomic, Records!Spec

-----------------------------------------------------------------------------
(* What a step leaves alone.                                               *)

\* A step of p changes no other process's call, but for its descriptor.
LEMMA OthersGoOn ==
    ASSUME IInv, NEW p \in Procs, Step(p), NEW q \in Procs, q # p
    PROVE  /\ op'[q].pc = op[q].pc /\ op'[q].target = op[q].target
           /\ \A t \in Targets : tmp'[<<t, q>>] = tmp[<<t, q>>]
<1>1. op \in [Procs -> Op] /\ op[q] \in Op /\ tmp \in [Targets \X Procs -> Contents \cup {Absent, Partial}]
  BY DEF IInv, TypeOK
<1>2. CASE RenameTmp(p)
  <2>1. op'[q] = op[q] \/ op'[q] = [op[q] EXCEPT !.fd = FALSE]
    BY <1>2 DEF RenameTmp
  <2>2. op'[q].pc = op[q].pc /\ op'[q].target = op[q].target
    BY <1>1, <2>1 DEF Op
  <2>3. \A t \in Targets : tmp'[<<t, q>>] = tmp[<<t, q>>]
    BY <1>1, <1>2 DEF RenameTmp
  <2> QED BY <2>2, <2>3
<1>3. CASE ~RenameTmp(p)
  <2>1. op' = op \/ \E o : op' = [op EXCEPT ![p] = o]
    <3>1. \A c : op' = [op EXCEPT ![p].pc = c] => \E o : op' = [op EXCEPT ![p] = o]
      OBVIOUS
    <3> QED BY <1>3, <3>1 DEF Step, PutPackage, UnregisterFiles, UnregisterFile, OpenTmp, WriteTmp,
                              AtomicWriteFails, DeletePackage, RegisterFile, AppendLine, Crash
  <2>2. tmp' = tmp \/ \E t, x : tmp' = [tmp EXCEPT ![<<t, p>>] = x]
    BY <1>3 DEF Step, PutPackage, UnregisterFiles, UnregisterFile, OpenTmp, WriteTmp,
                AtomicWriteFails, DeletePackage, RegisterFile, AppendLine, Crash
  <2> QED BY <1>1, <2>1, <2>2
<1> QED BY <1>2, <1>3

-----------------------------------------------------------------------------
(* Temporary files.                                                        *)

Cleaned(p) == \A t \in Targets :
    tmp[<<t, p>>] # Absent => op[p].target = t /\ op[p].pc \in {"write", "rename"}
CrashesBounded == crashes <= MaxCrashes

LEMMA StepCleaned ==
    ASSUME IInv, NEW p \in Procs, Step(p), Cleaned(p), ~Crash(p)
    PROVE  Cleaned(p)'
<1>1. /\ op \in [Procs -> Op] /\ op[p] \in Op
      /\ tmp \in [Targets \X Procs -> Contents \cup {Absent, Partial}]
  BY DEF IInv, TypeOK
<1>2. CASE /\ op[p].pc \in {"idle", "append"} /\ tmp' = tmp
  BY <1>2 DEF Cleaned
<1>3. CASE OpenTmp(p) \/ WriteTmp(p)
  <2>1. PICK c, x : /\ c \in {"write", "rename"}
                    /\ op' = [op EXCEPT ![p].pc = c]
                    /\ tmp' = [tmp EXCEPT ![<<op[p].target, p>>] = x]
    BY <1>3 DEF OpenTmp, WriteTmp
  <2>2. op'[p].pc \in {"write", "rename"} /\ op'[p].target = op[p].target
    BY <1>1, <2>1 DEF Op
  <2>3. \A t \in Targets : t # op[p].target => tmp'[<<t, p>>] = tmp[<<t, p>>]
    BY <1>1, <2>1
  <2> QED BY <2>2, <2>3 DEF Cleaned
<1>4. CASE RenameTmp(p) \/ AtomicWriteFails(p)
  <2>1. /\ op[p].pc = "open" => tmp' = tmp
        /\ op[p].pc # "open" => tmp' = [tmp EXCEPT ![<<op[p].target, p>>] = Absent]
    BY <1>4 DEF RenameTmp, AtomicWriteFails
  <2>2. \A t \in Targets : tmp'[<<t, p>>] = Absent
    BY <1>1, <2>1 DEF Cleaned
  <2> QED BY <2>2 DEF Cleaned
<1> QED BY <1>2, <1>3, <1>4 DEF Step, PutPackage, UnregisterFiles, UnregisterFile, DeletePackage,
                                RegisterFile, AppendLine

LEMMA StepTempFilesCleaned ==
    ASSUME IInv, TempFilesCleaned, NEW p \in Procs, Step(p)
    PROVE  TempFilesCleaned'
<1>1. CASE Crash(p)
  <2>1. crashes' # 0
    BY <1>1 DEF Crash, IInv, TypeOK
  <2> QED BY <2>1 DEF TempFilesCleaned
<1>2. CASE ~Crash(p)
  <2>1. crashes' = crashes
    BY <1>2 DEF Step, PutPackage, UnregisterFiles, UnregisterFile, OpenTmp, WriteTmp, RenameTmp,
                AtomicWriteFails, DeletePackage, RegisterFile, AppendLine
  <2>2. TempFilesCleaned <=> (crashes = 0 => \A q \in Procs : Cleaned(q))
    BY DEF TempFilesCleaned, Cleaned
  <2>3. ASSUME \A q \in Procs : Cleaned(q), NEW q \in Procs PROVE Cleaned(q)'
    <3>1. CASE q = p
      BY <1>2, <2>3, <3>1, StepCleaned
    <3>2. CASE q # p
      BY <2>3, <3>2, OthersGoOn DEF Cleaned
    <3> QED BY <3>1, <3>2
  <2>4. TempFilesCleaned' <=> (crashes' = 0 => \A q \in Procs : Cleaned(q)')
    BY DEF TempFilesCleaned, Cleaned
  <2> QED BY <2>1, <2>2, <2>3, <2>4
<1> QED BY <1>1, <1>2

LEMMA InitTempFilesCleaned == Init => TempFilesCleaned
BY DEF Init, TempFilesCleaned

\* atomic_write cleans up after itself, however many processes write, whatever
\* fails: while nobody was killed, a temporary file belongs to a call under way.
THEOREM NoTempFileIsLeft == Spec => []TempFilesCleaned
<1>1. IInv /\ TempFilesCleaned /\ [Next]_vars => TempFilesCleaned'
  <2>1. ASSUME IInv, TempFilesCleaned, UNCHANGED vars PROVE TempFilesCleaned'
    BY <2>1 DEF vars, TempFilesCleaned
  <2> QED BY <2>1, StepTempFilesCleaned DEF Next
<1> QED BY <1>1, SpecIInv, InitTempFilesCleaned, PTL DEF Spec

LEMMA SpecCrashesBounded == Spec => []CrashesBounded
<1>1. Init => CrashesBounded
  BY DatabaseAssumption DEF Init, CrashesBounded
<1>2. IInv /\ CrashesBounded /\ [Next]_vars => CrashesBounded'
  <2> SUFFICES ASSUME IInv, CrashesBounded, [Next]_vars PROVE CrashesBounded'
    OBVIOUS
  <2>1. crashes \in Nat
    BY DEF IInv, TypeOK
  <2>2. crashes' = crashes \/ (crashes < MaxCrashes /\ crashes' = crashes + 1)
    BY DEF vars, Next, Step, PutPackage, UnregisterFiles, UnregisterFile, OpenTmp, WriteTmp, RenameTmp,
           AtomicWriteFails, DeletePackage, RegisterFile, AppendLine, Crash
  <2> QED BY <2>1, <2>2, DatabaseAssumption DEF CrashesBounded
<1> QED BY <1>1, <1>2, SpecIInv, PTL DEF Spec

\* Killing a process is all it takes for list_packages to name what is not
\* installed; without that it never does, for any number of processes.
THEOREM NoPhantoms == ASSUME MaxCrashes = 0 PROVE Spec => []ListsInstalledOnly
<1>1. IInv /\ TempFilesCleaned /\ CrashesBounded => ListsInstalledOnly
  <2> SUFFICES ASSUME IInv, TempFilesCleaned, CrashesBounded, \A p \in Procs : op[p].pc = "idle",
                      NEW n \in Listed
               PROVE  IsInstalled(n)
    BY DEF ListsInstalledOnly
  <2>1. crashes = 0
    BY DEF CrashesBounded, IInv, TypeOK
  <2>2. \A p \in Procs : tmp[<<n, p>>] = Absent
    BY <2>1 DEF TempFilesCleaned, Listed, Targets
  <2>3. Absent \notin Record(n)
    BY AbsentIsNoRecord DEF Listed
  <2> QED BY <2>2, <2>3 DEF Listed
<1> QED BY <1>1, SpecIInv, NoTempFileIsLeft, SpecCrashesBounded, PTL

-----------------------------------------------------------------------------
(* The index under one process.                                            *)

\* One abp process at a time, whose appends are complete or do not happen.
Alone == \A p, q \in Procs : p = q
WholeAppends == CutsPossible \subseteq {"nothing", "all"}

\* What a rewrite of the index was computed from is still there.
Rewrites(ix, o) ==
    \/ \E n \in Names : o.name = n /\ o.path = Absent /\ o.data = WithoutOwner(ix, n)
    \/ \E f \in Paths : o.path = f /\ o.name = Absent /\ o.data = WithoutPath(ix, f)
UpToDate(p) ==
    /\ op[p].pc \in {"open", "write", "rename"} /\ op[p].target = IndexFile =>
         disk[IndexFile] \in Index /\ Rewrites(disk[IndexFile], op[p])
    /\ op[p].pc = "append" => op[p].fd /\ disk[IndexFile] \in Index
NoCutLine == disk[IndexFile] \in Index => disk[IndexFile].tail = NoTail
AInv == NoCutLine /\ \A p \in Procs : UpToDate(p)

LEMMA InitAInv == Init => AInv
<1> SUFFICES ASSUME Init PROVE AInv
  OBVIOUS
<1>1. disk[IndexFile] = Absent /\ Absent \notin Index
  BY WholeIsNotPartial DEF Init, Targets, Contents
<1>2. \A p \in Procs : op[p].pc = "idle"
  BY DEF Init, Idle
<1> QED BY <1>1, <1>2 DEF AInv, NoCutLine, UpToDate

\* What each step does to the index, and to the call.
LEMMA IndexSteps ==
    ASSUME WholeAppends, IInv, AInv, NEW p \in Procs, Step(p)
    PROVE  \/ disk'[IndexFile] = disk[IndexFile]
           \/ /\ op[p].pc = "idle" /\ disk[IndexFile] = Absent /\ disk'[IndexFile] = EmptyIndex
              /\ op'[p].pc = "append"
           \/ /\ AppendLine(p, "all") /\ op[p].path \in Paths /\ op[p].name \in Names
              /\ disk[IndexFile] \in Index
              /\ disk'[IndexFile] = AppendEntry(disk[IndexFile], op[p].path, op[p].name, "all")
           \/ /\ op[p].pc = "rename" /\ op[p].target = IndexFile /\ op'[p].pc = "idle"
              /\ disk'[IndexFile] = op[p].data
<1>1. /\ disk \in [Targets -> Contents \cup {Absent, Partial}] /\ op \in [Procs -> Op]
      /\ IndexFile \in Targets /\ Names \subseteq Targets /\ IndexFile \notin Names
  BY DatabaseAssumption DEF IInv, TypeOK, Targets
<1>2. CASE RenameTmp(p)
  <2>1. op[p].pc = "rename" /\ tmp[<<op[p].target, p>>] = op[p].data /\ op[p].target \in Targets
    BY <1>1, <1>2 DEF RenameTmp, IInv, RenamesItsOwnData, Op
  <2>2. op'[p].pc = "idle" /\ disk' = [disk EXCEPT ![op[p].target] = op[p].data]
    BY <1>2, <2>1 DEF RenameTmp, Idle
  <2> QED BY <1>1, <2>1, <2>2
<1>3. ASSUME NEW n \in Names, DeletePackage(p, n) PROVE disk'[IndexFile] = disk[IndexFile]
  BY <1>1, <1>3 DEF DeletePackage
<1>4. ASSUME NEW f \in Paths, NEW n \in Names, RegisterFile(p, f, n)
      PROVE  \/ disk'[IndexFile] = disk[IndexFile]
             \/ /\ op[p].pc = "idle" /\ disk[IndexFile] = Absent /\ disk'[IndexFile] = EmptyIndex
                /\ op'[p].pc = "append"
  BY <1>1, <1>4 DEF RegisterFile, Idle
<1>5. ASSUME NEW cut \in CutsPossible, AppendLine(p, cut)
      PROVE  \/ disk'[IndexFile] = disk[IndexFile]
             \/ /\ AppendLine(p, "all") /\ op[p].path \in Paths /\ op[p].name \in Names
                /\ disk[IndexFile] \in Index
                /\ disk'[IndexFile] = AppendEntry(disk[IndexFile], op[p].path, op[p].name, "all")
  <2>1. op[p].path \in Paths /\ op[p].name \in Names /\ disk[IndexFile] \in Index /\ op[p].fd
    BY <1>5 DEF AppendLine, IInv, DataFits, Fits, AInv, UpToDate
  <2>2. disk'[IndexFile] = AppendEntry(disk[IndexFile], op[p].path, op[p].name, cut)
    BY <1>1, <1>5, <2>1 DEF AppendLine
  <2>3. CASE cut = "nothing"
    BY <2>2, <2>3 DEF AppendEntry
  <2> QED BY <1>5, <2>1, <2>2, <2>3 DEF WholeAppends
<1> QED BY <1>2, <1>3, <1>4, <1>5 DEF Step, PutPackage, UnregisterFiles, UnregisterFile, OpenTmp,
                                      WriteTmp, AtomicWriteFails, Crash

LEMMA StepUpToDate ==
    ASSUME Alone, WholeAppends, IInv, AInv, NEW p \in Procs, Step(p)
    PROVE  UpToDate(p)'
<1>1. /\ disk \in [Targets -> Contents \cup {Absent, Partial}] /\ op \in [Procs -> Op] /\ op[p] \in Op
      /\ IndexFile \in Targets /\ IndexFile \notin Names
  BY DatabaseAssumption DEF IInv, TypeOK, Targets
<1>2. CASE op'[p].pc = "idle"
  BY <1>2 DEF UpToDate
<1>3. ASSUME NEW n \in Names, NEW v \in Versions, PutPackage(p, n, v) PROVE UpToDate(p)'
  <2>1. op'[p].pc = "open" /\ op'[p].target = n
    BY <1>1, <1>3 DEF PutPackage, Idle
  <2> QED BY <1>1, <2>1 DEF UpToDate
<1>4. ASSUME NEW n \in Names, UnregisterFiles(p, n) PROVE UpToDate(p)'
  <2>1. /\ op'[p].pc = "open" /\ op'[p].name = n /\ op'[p].path = Absent
        /\ op'[p].data = WithoutOwner(disk[IndexFile], n)
        /\ disk' = disk /\ disk[IndexFile] \in Index
    BY <1>1, <1>4 DEF UnregisterFiles, Idle
  <2> QED BY <2>1 DEF UpToDate, Rewrites
<1>5. ASSUME NEW f \in Paths, UnregisterFile(p, f) PROVE UpToDate(p)'
  <2>1. /\ op'[p].pc = "open" /\ op'[p].path = f /\ op'[p].name = Absent
        /\ op'[p].data = WithoutPath(disk[IndexFile], f)
        /\ disk' = disk /\ disk[IndexFile] \in Index
    BY <1>1, <1>5 DEF UnregisterFile, Idle
  <2> QED BY <2>1 DEF UpToDate, Rewrites
<1>6. CASE OpenTmp(p) \/ WriteTmp(p)
  <2>1. PICK c \in {"write", "rename"} : op' = [op EXCEPT ![p].pc = c]
    BY <1>6 DEF OpenTmp, WriteTmp
  <2>2. disk' = disk /\ op[p].pc \in {"open", "write"}
    BY <1>6 DEF OpenTmp, WriteTmp
  <2>3. /\ op'[p].pc = c /\ op'[p].target = op[p].target /\ op'[p].data = op[p].data
        /\ op'[p].name = op[p].name /\ op'[p].path = op[p].path
    BY <1>1, <2>1 DEF Op
  <2> QED BY <2>2, <2>3 DEF AInv, UpToDate, Rewrites
<1>7. ASSUME NEW n \in Names, DeletePackage(p, n) PROVE UpToDate(p)'
  <2>1. op' = op /\ op[p].pc = "idle"
    BY <1>7 DEF DeletePackage
  <2> QED BY <2>1 DEF UpToDate
<1>8. ASSUME NEW f \in Paths, NEW n \in Names, RegisterFile(p, f, n) PROVE UpToDate(p)'
  <2>1. op'[p].pc = "append" /\ op'[p].fd = TRUE
    BY <1>1, <1>8 DEF RegisterFile, Idle
  <2>2. disk'[IndexFile] \in Index
    BY <1>1, <1>8, EmptyIndexType DEF RegisterFile, IInv, TargetsWhole, WholeContents
  <2> QED BY <2>1, <2>2 DEF UpToDate
<1>9. RenameTmp(p) \/ AtomicWriteFails(p) \/ Crash(p) \/ (\E cut \in CutsPossible : AppendLine(p, cut))
        => op'[p].pc = "idle"
  BY <1>1 DEF RenameTmp, AtomicWriteFails, Crash, AppendLine, Idle
<1> QED BY <1>2, <1>3, <1>4, <1>5, <1>6, <1>7, <1>8, <1>9 DEF Step

\* A line appended to an index without a cut line is there, and not cut.
LEMMA Appended ==
    ASSUME NEW ix, ix \in Index, ix.tail = NoTail, NEW f, f \in Paths, NEW n, n \in Names
    PROVE  /\ AppendEntry(ix, f, n, "all") \in Index
           /\ AppendEntry(ix, f, n, "all").tail = NoTail
           /\ Owners(AppendEntry(ix, f, n, "all")) = Owners(ix) \cup {<<f, n>>}
<1>1. AppendEntry(ix, f, n, "all") \in Index
  BY AppendEntryType DEF Cuts
<1>2. /\ AppendEntry(ix, f, n, "all").tail = NoTail
      /\ Owners(AppendEntry(ix, f, n, "all")) = Owners(ix) \cup {<<f, n>>}
  BY OwnersAfterAppend
<1> QED BY <1>1, <1>2

LEMMA StepAInv ==
    ASSUME Alone, WholeAppends, IInv, AInv, NEW p \in Procs, Step(p)
    PROVE  AInv'
<1>1. NoCutLine'
  <2>1. CASE disk'[IndexFile] = disk[IndexFile]
    BY <2>1 DEF AInv, NoCutLine
  <2>2. CASE disk'[IndexFile] = EmptyIndex
    BY <2>2 DEF NoCutLine, EmptyIndex
  <2>3. CASE /\ disk[IndexFile] \in Index /\ op[p].path \in Paths /\ op[p].name \in Names
             /\ disk'[IndexFile] = AppendEntry(disk[IndexFile], op[p].path, op[p].name, "all")
    <3>1. disk[IndexFile].tail = NoTail
      BY <2>3 DEF AInv, NoCutLine
    <3>2. AppendEntry(disk[IndexFile], op[p].path, op[p].name, "all").tail = NoTail
      BY <2>3, <3>1, Appended
    <3> QED BY <2>3, <3>2 DEF NoCutLine
  <2>4. CASE op[p].pc = "rename" /\ op[p].target = IndexFile /\ disk'[IndexFile] = op[p].data
    <3>1. Rewrites(disk[IndexFile], op[p])
      BY <2>4 DEF AInv, UpToDate
    <3>2. \E lines : op[p].data = [lines |-> lines, tail |-> NoTail]
      BY <3>1 DEF Rewrites, WithoutOwner, WithoutPath
    <3>3. op[p].data.tail = NoTail
      BY <3>2
    <3> QED BY <2>4, <3>3 DEF NoCutLine
  <2>5. \/ disk'[IndexFile] = disk[IndexFile]
        \/ disk'[IndexFile] = EmptyIndex
        \/ /\ disk[IndexFile] \in Index /\ op[p].path \in Paths /\ op[p].name \in Names
           /\ disk'[IndexFile] = AppendEntry(disk[IndexFile], op[p].path, op[p].name, "all")
        \/ op[p].pc = "rename" /\ op[p].target = IndexFile /\ disk'[IndexFile] = op[p].data
    BY IndexSteps
  <2> QED BY <2>1, <2>2, <2>3, <2>4, <2>5
<1>2. \A q \in Procs : UpToDate(q)'
  BY StepUpToDate DEF Alone
<1> QED BY <1>1, <1>2 DEF AInv

LEMMA SpecAInv == ASSUME Alone, WholeAppends PROVE Spec => [](IInv /\ AInv)
<1>1. IInv /\ AInv /\ [Next]_vars => AInv'
  <2>1. ASSUME AInv, UNCHANGED vars PROVE AInv'
    BY <2>1 DEF vars, AInv, NoCutLine, UpToDate, Rewrites
  <2> QED BY <2>1, StepAInv DEF Next
<1> QED BY <1>1, SpecIInv, InitAInv, PTL DEF Spec

-----------------------------------------------------------------------------
\* The effect of a step on the relation the index stands for.
LEMMA LinesSteps ==
    ASSUME WholeAppends, IInv, AInv, NEW p \in Procs, Step(p)
    PROVE  \/ IndexLines' = IndexLines
           \/ /\ op[p].pc = "append" /\ op[p].path \in Paths /\ op[p].name \in Names
              /\ IndexLines' = IndexLines \cup {<<op[p].path, op[p].name>>}
           \/ /\ op[p].pc = "rename" /\ op[p].target = IndexFile
              /\ \/ op[p].name \in Names /\ IndexLines' = {o \in IndexLines : o[2] # op[p].name}
                 \/ op[p].path \in Paths /\ IndexLines' = {o \in IndexLines : o[1] # op[p].path}
<1>1. \A ix : disk[IndexFile] = ix => IndexLines = IF ix \in Index THEN Owners(ix) ELSE {}
  BY DEF IndexLines
<1>2. \A ix : disk'[IndexFile] = ix => IndexLines' = IF ix \in Index THEN Owners(ix) ELSE {}
  BY DEF IndexLines, Owners, LinesOf, Index, Line, OpenLine, NoTail, NoTab, Torn
<1>3. CASE disk'[IndexFile] = disk[IndexFile]
  BY <1>1, <1>2, <1>3
<1>4. CASE disk[IndexFile] = Absent /\ disk'[IndexFile] = EmptyIndex
  <2>1. Absent \notin Index
    BY WholeIsNotPartial DEF Contents
  <2> QED BY <1>1, <1>2, <1>4, <2>1, OwnersOfEmpty, EmptyIndexType
<1>5. CASE /\ AppendLine(p, "all") /\ disk[IndexFile] \in Index
           /\ op[p].path \in Paths /\ op[p].name \in Names
           /\ disk'[IndexFile] = AppendEntry(disk[IndexFile], op[p].path, op[p].name, "all")
  <2>1. disk'[IndexFile] \in Index
    BY <1>5, AppendEntryType DEF Cuts
  <2>2. Owners(disk'[IndexFile]) = Owners(disk[IndexFile]) \cup {<<op[p].path, op[p].name>>}
    BY <1>5, OwnersAfterAppend DEF AInv, NoCutLine
  <2> QED BY <1>1, <1>2, <1>5, <2>1, <2>2 DEF AppendLine
<1>6. CASE op[p].pc = "rename" /\ op[p].target = IndexFile /\ disk'[IndexFile] = op[p].data
  <2>1. disk[IndexFile] \in Index /\ Rewrites(disk[IndexFile], op[p])
    BY <1>6 DEF AInv, UpToDate
  <2>2. CASE op[p].name \in Names /\ op[p].data = WithoutOwner(disk[IndexFile], op[p].name)
    <3>1. disk'[IndexFile] \in Index
      BY <1>6, <2>1, <2>2, WithoutType
    <3>2. Owners(disk'[IndexFile]) = {o \in Owners(disk[IndexFile]) : o[2] # op[p].name}
      BY <1>6, <2>1, <2>2, OwnersAfterWithout
    <3> QED BY <1>1, <1>2, <1>6, <2>1, <2>2, <3>1, <3>2
  <2>3. CASE op[p].path \in Paths /\ op[p].data = WithoutPath(disk[IndexFile], op[p].path)
    <3>1. disk'[IndexFile] \in Index
      BY <1>6, <2>1, <2>3, WithoutType
    <3>2. Owners(disk'[IndexFile]) = {o \in Owners(disk[IndexFile]) : o[1] # op[p].path}
      BY <1>6, <2>1, <2>3, OwnersAfterWithout
    <3> QED BY <1>1, <1>2, <1>6, <2>1, <2>3, <3>1, <3>2
  <2> QED BY <2>1, <2>2, <2>3 DEF Rewrites
<1> QED BY <1>3, <1>4, <1>5, <1>6, IndexSteps

LEMMA SameLines == UNCHANGED vars => IndexLines' = IndexLines
BY DEF vars, IndexLines, Owners, LinesOf, Index, Line, OpenLine, NoTail, NoTab, Torn

\* unregister_files "rewrites ownership data for ALL packages" (database.rs:560):
\* for one process it puts the others' back, whatever fails and whenever it is
\* killed.  (With two processes it does not: db_lost_update.)
THEOREM AloneUnregistersOnlyItsOwn ==
    ASSUME Alone, WholeAppends PROVE Spec => UnregistersOnlyItsOwn
<1>1. IInv /\ AInv /\ [Next]_vars =>
        [\A l \in IndexLines \ IndexLines' :
           \E p \in Procs : /\ op[p].pc = "rename"
                            /\ op[p].target = IndexFile
                            /\ (op[p].path = l[1] \/ op[p].name = l[2])]_vars
  <2> SUFFICES ASSUME IInv, AInv, Next, NEW l \in IndexLines \ IndexLines'
               PROVE  \E p \in Procs : /\ op[p].pc = "rename" /\ op[p].target = IndexFile
                                       /\ (op[p].path = l[1] \/ op[p].name = l[2])
    OBVIOUS
  <2>1. PICK p \in Procs : Step(p)
    BY DEF Next
  <2>2. CASE /\ op[p].pc = "append"
             /\ IndexLines' = IndexLines \cup {<<op[p].path, op[p].name>>}
    BY <2>2
  <2>3. CASE /\ op[p].pc = "rename" /\ op[p].target = IndexFile
             /\ \/ IndexLines' = {o \in IndexLines : o[2] # op[p].name}
                \/ IndexLines' = {o \in IndexLines : o[1] # op[p].path}
    BY <2>3
  <2>4. \/ IndexLines' = IndexLines
        \/ /\ op[p].pc = "append"
           /\ IndexLines' = IndexLines \cup {<<op[p].path, op[p].name>>}
        \/ /\ op[p].pc = "rename" /\ op[p].target = IndexFile
           /\ \/ IndexLines' = {o \in IndexLines : o[2] # op[p].name}
              \/ IndexLines' = {o \in IndexLines : o[1] # op[p].path}
    BY <2>1, LinesSteps
  <2> QED BY <2>2, <2>3, <2>4
<1> QED BY <1>1, SpecAInv, PTL DEF Spec, UnregistersOnlyItsOwn

\* register_file's true means that the line is there.
THEOREM AloneRegisteredIsRecorded ==
    ASSUME Alone, WholeAppends PROVE Spec => RegisteredIsRecorded
<1>1. IInv /\ AInv /\ [Next]_vars =>
        [\A p \in Procs : AppendLine(p, "all") => <<op[p].path, op[p].name>> \in IndexLines']_vars
  <2> SUFFICES ASSUME IInv, AInv, NEW p \in Procs, AppendLine(p, "all")
               PROVE  <<op[p].path, op[p].name>> \in IndexLines'
    OBVIOUS
  <2>1. /\ op[p].path \in Paths /\ op[p].name \in Names /\ disk[IndexFile] \in Index /\ op[p].fd
        /\ IndexFile \in Targets
    BY DEF AppendLine, IInv, DataFits, Fits, AInv, UpToDate, Targets
  <2>2. disk'[IndexFile] = AppendEntry(disk[IndexFile], op[p].path, op[p].name, "all")
    BY <2>1 DEF AppendLine, IInv, TypeOK
  <2>3. disk'[IndexFile] \in Index /\ <<op[p].path, op[p].name>> \in Owners(disk'[IndexFile])
    <3>1. disk[IndexFile].tail = NoTail
      BY <2>1 DEF AInv, NoCutLine
    <3>2. PICK ix : ix = disk[IndexFile]
      OBVIOUS
    <3>3. PICK f, n : f = op[p].path /\ n = op[p].name
      OBVIOUS
    <3>4. /\ AppendEntry(ix, f, n, "all") \in Index
          /\ <<f, n>> \in Owners(AppendEntry(ix, f, n, "all"))
      BY <2>1, <3>1, <3>2, <3>3, Appended
    <3>5. disk'[IndexFile] = AppendEntry(ix, f, n, "all")
      BY <2>2, <3>2, <3>3
    <3> QED BY <3>3, <3>4, <3>5
  <2>4. Owners(disk'[IndexFile]) = Owners(disk[IndexFile])' /\ Index' = Index
    BY DEF Owners, LinesOf, Index, Line, OpenLine, NoTail, NoTab, Torn
  <2> QED BY <2>3, <2>4 DEF IndexLines
<1> QED BY <1>1, SpecAInv, PTL DEF Spec, RegisteredIsRecorded

\* For one process the index is the relation of paths and packages it stands for:
\* every step of the database registers one pair, takes out all of a package or of
\* a path, or changes nothing -- an abstract step or a stutter.
THEOREM AloneIndexIsARelation ==
    ASSUME Alone, WholeAppends PROVE Spec => IndexIsARelation
<1>1. Init => Records!OwnersInit
  <2> SUFFICES ASSUME Init PROVE Records!OwnersInit
    OBVIOUS
  <2>1. disk[IndexFile] = Absent /\ Absent \notin Index
    BY WholeIsNotPartial DEF Init, Targets, Contents
  <2> QED BY <2>1 DEF Records!OwnersInit, IndexLines
<1>2. IInv /\ AInv /\ [Next]_vars => [Records!OwnersNext]_IndexLines
  <2>1. ASSUME IInv, AInv, NEW p \in Procs, Step(p)
        PROVE  Records!OwnersNext \/ IndexLines' = IndexLines
    BY <2>1, LinesSteps DEF Records!OwnersNext, Records!Register, Records!UnregisterFiles,
                            Records!UnregisterFile
  <2> QED BY <2>1, SameLines DEF Next
<1> QED BY <1>1, <1>2, SpecAInv, PTL DEF Spec, IndexIsARelation, Records!OwnersSpec

\* Everything the database promises to a single process that is not killed: the
\* properties of this section and NoPhantoms.
THEOREM OneProcessIsEnough ==
    ASSUME Alone, WholeAppends, MaxCrashes = 0 PROVE Spec => OneProcessSuffices
BY NoPhantoms, AloneUnregistersOnlyItsOwn, AloneRegisteredIsRecorded, AloneIndexIsARelation,
   PTL DEF OneProcessSuffices

=============================================================================
