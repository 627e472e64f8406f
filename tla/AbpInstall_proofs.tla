--------------------------- MODULE AbpInstall_proofs ---------------------------
(***************************************************************************)
(* Theorems about `abp add' and `abp del', for any packages, any faults    *)
(* and any number of them.                                                 *)
(***************************************************************************)
EXTENDS AbpInstall, SequenceTheorems

\* Where the package at the head of the queue is being installed, and where
\* packages are being removed.
Handling == {"old files", "old lines", "unpack", "extract", "register", "put", "unregister"}
Removing == {"replace", "rm files", "rm lines", "rm record"}
Plain == Pcs \ (Removing \cup {"extract", "register", "put"})

\* A cut append is repaired at once: unregister_files ends every line it keeps.
AppendsWhole == "torn" \notin Faults \/ {"unregister", "crash"} \cap Faults = {}

Types ==
    /\ fs \in [Paths -> Contents] /\ dirs \in SUBSET Dirs
    /\ rec \in [Names -> Pkgs \cup {None}] /\ idx \in Index
    /\ job \in Job
    /\ faults \in 0..MaxFaults

Queued == job.pc \in Handling => job.queue # <<>>
VictimsInstalled == job.pc \in Removing => \A n \in job.victims : rec[n] # None
LinesWhole == AppendsWhole =>
    idx.tail = NoTail \/ (job.pc = "unregister" /\ "torn" \in Faults)

\* What has been done for the package being installed.
Extracted ==
    job.pc = "extract" => /\ job.left \subseteq FilesOf[cur]
                          /\ job.whole => \A f \in FilesOf[cur] \ job.left : fs[f] = cur
Written == job.pc \in {"register", "put"} => \A f \in FilesOf[cur] : fs[f] = cur
Registered ==
    /\ job.pc \in {"register", "put"} => job.left \subseteq FilesOf[cur]
    /\ job.pc = "put" => job.left = {}
    /\ job.pc \in {"register", "put"} /\ AppendsWhole =>
         \A f \in FilesOf[cur] \ job.left : <<f, NameOf[cur]>> \in Owners(idx)

IInv == Types /\ Queued /\ VictimsInstalled /\ LinesWhole /\ Extracted /\ Written /\ Registered

LEMMA TypesAreTypes == Types <=> TypeOK
BY DEF Types, TypeOK

-----------------------------------------------------------------------------
(* The shapes of a step                                                    *)

LEMMA PlainStep ==
    ASSUME Types', job'.pc \in Plain,
           job'.pc \in Handling => job'.queue # <<>>,
           LinesWhole'
    PROVE  IInv'
BY DEF IInv, Queued, VictimsInstalled, Extracted, Written, Registered, Plain, Removing

LEMMA RemovalStep ==
    ASSUME Types', job'.pc \in Removing, \A n \in job'.victims : rec'[n] # None,
           LinesWhole'
    PROVE  IInv'
BY DEF IInv, Queued, VictimsInstalled, Extracted, Written, Registered, Handling, Removing

LEMMA FaultsType ==
    ASSUME Types, NEW kind, Fault(kind) \/ NoFault
    PROVE  faults' \in 0..MaxFaults
BY InstallAssumption DEF Types, Fault, NoFault

\* The head of the queue is a package, and a package has a name and files.
LEMMA CurType ==
    ASSUME Types, job.queue # <<>>
    PROVE  cur \in Pkgs /\ NameOf[cur] \in Names /\ FilesOf[cur] \in SUBSET Paths
           /\ Tail(job.queue) \in Seq(Pkgs)
<1>1. job.queue \in Seq(Pkgs)
  BY DEF Types, Job
<1>2. cur \in Pkgs /\ Tail(job.queue) \in Seq(Pkgs)
  BY <1>1, HeadTailProperties DEF cur
<1> QED BY <1>2, InstallAssumption

LEMMA IdleType == Idle \in Job /\ Idle.pc = "idle"
<1>1. <<>> \in Seq(Pkgs)
  OBVIOUS
<1> QED BY <1>1 DEF Idle, Job, Pcs

LEMMA GotoType ==
    ASSUME Types, NEW pc \in Pcs, Goto(pc)
    PROVE  job' \in Job /\ job'.pc = pc /\ job'.queue = job.queue
           /\ job'.left = job.left /\ job'.victims = job.victims /\ job'.victim = job.victim
BY DEF Types, Goto, Job

LEMMA WithoutOwnerType ==
    ASSUME Types, NEW n
    PROVE  WithoutOwner(idx, n) \in Index /\ WithoutOwner(idx, n).tail = NoTail
BY WithoutType DEF Types, WithoutOwner

LEMMA SnapshotType == Types => Snapshot \in Disks
<1> SUFFICES ASSUME Types PROVE Snapshot \in Disks
  OBVIOUS
<1>1. LinesOf(idx) \in SUBSET Line
  BY LinesOfType DEF Types
<1>2. Owners(idx) \in SUBSET ((Paths \cup {Torn}) \X (Names \cup {Torn}))
  BY <1>1 DEF Owners, Line
<1> QED BY <1>2 DEF Snapshot, Disks, Types

\* After a step that changes no stage a package goes through, lines are whole.
LEMMA LinesStayWhole ==
    ASSUME LinesWhole, job.pc # "unregister", idx' = idx
    PROVE  LinesWhole'
BY DEF LinesWhole, AppendsWhole

LEMMA InitIInv == Init => IInv
<1> SUFFICES ASSUME Init PROVE IInv
  OBVIOUS
<1>1. Types
  BY InstallAssumption, IdleType, EmptyIndexType DEF Init, Types, Contents, Dirs
<1>2. job.pc = "idle" /\ idx.tail = NoTail
  BY IdleType DEF Init, EmptyIndex
<1> QED BY <1>1, <1>2 DEF IInv, Queued, VictimsInstalled, LinesWhole, Extracted, Written,
                          Registered, Handling, Removing

-----------------------------------------------------------------------------
(* abp add                                                                 *)

LEMMA AddIInv ==
    ASSUME IInv, NEW ps \in AddRequests, NEW opts \in SUBSET Flags,
           NEW order \in Orders(ps), Add(ps, order, opts)
    PROVE  IInv'
<1> DEFINE vs == {n \in UNION {ReplacesOf[p] : p \in ps} \ NamesOf(ps) : Installed(n)}
<1>1. ps \subseteq Pkgs /\ IsFiniteSet(ps)
  BY InstallAssumption
<1>2. order \in Seq(Pkgs)
  <2>1. Cardinality(ps) \in Nat
    BY <1>1, FS_CardinalityType
  <2>2. order \in [1..Cardinality(ps) -> ps]
    BY DEF Orders
  <2>3. order \in Seq(ps)
    BY <2>1, <2>2
  <2> QED BY <1>1, <2>3
<1>3. vs \in SUBSET Names /\ \A n \in vs : rec[n] # None
  BY <1>1, InstallAssumption DEF Installed
<1>4. Snapshot \in Disks
  BY SnapshotType DEF IInv
<1>5. UNCHANGED <<disk, faults>> /\ job.pc = "idle"
      /\ job' = [Idle EXCEPT !.pc = "replace", !.kind = "add", !.opts = opts, !.queue = order,
                             !.before = Snapshot, !.victims = vs]
  BY DEF Add
<1> HIDE DEF vs
<1>6. job' \in Job /\ job'.pc = "replace" /\ job'.victims = vs
  BY <1>2, <1>3, <1>4, <1>5, IdleType DEF Job, Pcs
<1>7. Types' /\ LinesWhole'
  BY <1>5, <1>6, LinesStayWhole DEF IInv, Types, disk
<1> QED BY <1>3, <1>5, <1>6, <1>7, RemovalStep DEF Removing, disk

LEMMA DelIInv ==
    ASSUME IInv, NEW ns \in SUBSET Names, NEW opts \in SUBSET Flags, Del(ns, opts)
    PROVE  IInv'
<1>1. UNCHANGED <<disk, faults>> /\ job.pc = "idle" /\ (\A n \in ns : rec[n] # None)
      /\ job' = [Idle EXCEPT !.pc = "replace", !.kind = "del", !.opts = opts, !.victims = ns]
  BY DEF Del, Installed
<1>2. job' \in Job /\ job'.pc = "replace" /\ job'.victims = ns
  BY <1>1, IdleType DEF Job, Pcs
<1>3. Types' /\ LinesWhole'
  BY <1>1, <1>2, LinesStayWhole DEF IInv, Types, disk
<1> QED BY <1>1, <1>2, <1>3, RemovalStep DEF Removing, disk

\* Steps that change neither disk nor faults and lead to a plain stage.
LEMMA QuietStep ==
    ASSUME IInv, UNCHANGED <<disk, faults>>, job.pc # "unregister",
           job' \in Job, job'.pc \in Plain, job'.pc \in Handling => job'.queue # <<>>
    PROVE  IInv'
<1>1. Types' /\ LinesWhole'
  BY LinesStayWhole DEF IInv, Types, disk
<1> QED BY <1>1, PlainStep

LEMMA CheckIInv == IInv /\ (Check \/ AddDone) => IInv'
<1> SUFFICES ASSUME IInv, Check \/ AddDone PROVE IInv'
  OBVIOUS
<1>1. UNCHANGED <<disk, faults>> /\ job.pc # "unregister"
      /\ (job' = Idle \/ job' = [job EXCEPT !.pc = "next"])
  BY DEF Check, AddDone
<1>2. job' \in Job /\ job'.pc \in {"idle", "next"}
  BY <1>1, IdleType DEF IInv, Types, Job, Pcs
<1> QED BY <1>1, <1>2, QuietStep DEF Plain, Pcs, Removing, Handling

LEMMA VerifyFailsIInv == IInv /\ VerifyFails => IInv'
<1> SUFFICES ASSUME IInv, VerifyFails PROVE IInv'
  OBVIOUS
<1>1. /\ job.pc = "next" /\ job.queue # <<>> /\ Fault("verify") /\ UNCHANGED disk
      /\ job' = [job EXCEPT !.queue = Tail(@)]
  BY DEF VerifyFails
<1>2. job' \in Job /\ job'.pc = "next"
  BY <1>1, CurType DEF IInv, Types, Job
<1>3. Types' /\ LinesWhole'
  BY <1>1, <1>2, FaultsType, LinesStayWhole DEF IInv, Types, disk
<1> QED BY <1>2, <1>3, PlainStep DEF Plain, Pcs, Removing, Handling

LEMMA VerifyIInv == IInv /\ Verify => IInv'
<1> SUFFICES ASSUME IInv, Verify PROVE IInv'
  OBVIOUS
<1> DEFINE old == Installed(NameOf[cur])
           pc == IF old THEN "old files" ELSE "unpack"
           left == IF old THEN FilesOf[rec[NameOf[cur]]] ELSE {}
<1>1. /\ job.pc = "next" /\ job.queue # <<>> /\ UNCHANGED <<disk, faults>>
      /\ job' = [job EXCEPT !.pc = pc, !.left = left, !.before = Snapshot]
  BY DEF Verify
<1>2. left \in SUBSET Paths
  BY <1>1, CurType, InstallAssumption DEF IInv, Types, Installed
<1>3. pc \in {"old files", "unpack"} /\ Snapshot \in Disks
  BY SnapshotType DEF IInv
<1> HIDE DEF pc, left
<1>4. job' \in Job /\ job'.pc = pc /\ job'.queue = job.queue
  BY <1>1, <1>2, <1>3 DEF IInv, Types, Job, Pcs
<1> QED BY <1>1, <1>3, <1>4, QuietStep DEF Plain, Pcs, Removing, Handling

LEMMA UnlinkOldIInv == IInv /\ UnlinkOld => IInv'
<1> SUFFICES ASSUME IInv, UnlinkOld PROVE IInv'
  OBVIOUS
<1>1. /\ job.pc = "old files" /\ job.queue # <<>>
      /\ UNCHANGED <<dirs, rec, idx, faults>>
  BY DEF UnlinkOld, IInv, Queued, Handling
<1>2. job' \in Job /\ job'.pc \in {"old files", "old lines"} /\ job'.queue = job.queue
      /\ fs' \in [Paths -> Contents]
  <2>1. CASE job.left = {}
    BY <1>1, <2>1, GotoType DEF UnlinkOld, IInv, Types, Pcs
  <2>2. CASE job.left # {}
    <3>1. PICK f \in job.left : /\ fs' = [fs EXCEPT ![f] = Gone]
                                /\ job' = [job EXCEPT !.left = @ \ {f}]
      BY <2>2 DEF UnlinkOld
    <3>2. job' \in Job /\ job'.pc = job.pc /\ job'.queue = job.queue
      BY <3>1 DEF IInv, Types, Job
    <3> QED BY <1>1, <3>1, <3>2 DEF IInv, Types, Contents
  <2> QED BY <2>1, <2>2
<1>3. Types' /\ LinesWhole'
  BY <1>1, <1>2, LinesStayWhole DEF IInv, Types
<1> QED BY <1>1, <1>2, <1>3, PlainStep DEF Plain, Pcs, Removing, Handling

LEMMA UnregisterOldIInv == IInv /\ UnregisterOld => IInv'
<1> SUFFICES ASSUME IInv, UnregisterOld PROVE IInv'
  OBVIOUS
<1>1. /\ job.pc = "old lines" /\ job.queue # <<>> /\ Goto("unpack")
      /\ UNCHANGED <<fs, dirs, rec>> /\ (NoFault \/ Fault("unregister"))
      /\ (idx' = WithoutOwner(idx, NameOf[cur]) \/ idx' = idx)
  BY DEF UnregisterOld, IInv, Queued, Handling
<1>2. job' \in Job /\ job'.pc = "unpack" /\ job'.queue = job.queue
  BY <1>1, GotoType DEF IInv, Pcs
<1>3. idx' \in Index /\ LinesWhole'
  BY <1>1, WithoutOwnerType, LinesStayWhole DEF IInv, Types, LinesWhole
<1>4. Types'
  BY <1>1, <1>2, <1>3, FaultsType DEF IInv, Types
<1> QED BY <1>1, <1>2, <1>3, <1>4, PlainStep DEF Plain, Pcs, Removing, Handling

LEMMA UnpackIInv == IInv /\ Unpack => IInv'
<1> SUFFICES ASSUME IInv, Unpack PROVE IInv'
  OBVIOUS
<1>1. job.pc = "unpack" /\ job.queue # <<>> /\ UNCHANGED disk
  BY DEF Unpack, IInv, Queued, Handling
<1>2. CASE Fault("memory") /\ job' = Idle
  <2>1. Types' /\ LinesWhole'
    BY <1>1, <1>2, IdleType, FaultsType, LinesStayWhole DEF IInv, Types, disk
  <2> QED BY <1>2, <2>1, IdleType, PlainStep DEF Plain, Pcs, Removing, Handling
<1>3. CASE NoFault /\ job' = [job EXCEPT !.pc = "extract", !.left = FilesOf[cur], !.whole = TRUE]
  <2>1. job' \in Job /\ job'.pc = "extract" /\ job'.queue = job.queue /\ job'.left = FilesOf[cur]
    BY <1>1, <1>3, CurType DEF IInv, Types, Job, Pcs
  <2>2. Types' /\ LinesWhole'
    BY <1>1, <1>3, <2>1, FaultsType, LinesStayWhole DEF IInv, Types, disk
  <2>3. cur' = cur
    BY <2>1 DEF cur
  <2> QED BY <1>1, <2>1, <2>2, <2>3
             DEF IInv, Queued, VictimsInstalled, Extracted, Written, Registered, Removing
<1> QED BY <1>2, <1>3 DEF Unpack

\* One member: written, written in part, or not opened.
LEMMA ExtractMemberIInv == IInv /\ ExtractMember => IInv'
<1> SUFFICES ASSUME IInv, ExtractMember PROVE IInv'
  OBVIOUS
<1>1. PICK f \in job.left, b \in {cur, Broken, Gone}, o \in BOOLEAN :
        /\ ExtractTo(f, b, o) /\ dirs' \in {dirs, dirs \cup {DirOf[f]}}
        /\ \E kind : Fault(kind) \/ NoFault
  BY DEF ExtractMember
<1>2. job.pc = "extract" /\ job.queue # <<>> /\ UNCHANGED <<rec, idx>>
  BY DEF ExtractMember, IInv, Queued, Handling
<1>3. f \in Paths /\ b \in Contents
  BY <1>1, <1>2, CurType DEF IInv, Types, Job, Contents
<1>4. fs' = (IF o THEN [fs EXCEPT ![f] = b] ELSE fs)
      /\ fs' \in [Paths -> Contents] /\ dirs' \in SUBSET Dirs
  BY <1>1, <1>3 DEF ExtractTo, IInv, Types, Dirs
<1> DEFINE made == IF o THEN job.made \cup {f} ELSE job.made
           whole == job.whole /\ o /\ b = cur
<1>5. job' = [job EXCEPT !.left = @ \ {f}, !.made = made, !.madeDirs = @ \cup (dirs' \ dirs),
                         !.whole = whole]
  BY <1>1 DEF ExtractTo
<1>6. made \in SUBSET Paths /\ whole \in BOOLEAN
  BY <1>3 DEF IInv, Types, Job
<1> HIDE DEF made, whole
<1>7. /\ job' \in Job /\ job'.pc = job.pc /\ job'.queue = job.queue
      /\ job'.left = job.left \ {f} /\ job'.whole = whole
  BY <1>4, <1>5, <1>6 DEF IInv, Types, Job
<1>8. Types' /\ LinesWhole' /\ cur' = cur
  BY <1>1, <1>2, <1>4, <1>7, FaultsType, LinesStayWhole DEF IInv, Types, cur
<1>9. Extracted'
  <2>1. whole => fs' = [fs EXCEPT ![f] = cur] /\ job.whole
    BY <1>4 DEF whole
  <2>2. FilesOf[cur] \in SUBSET Paths
    BY <1>2, CurType DEF IInv
  <2>3. job.left \subseteq FilesOf[cur]
        /\ (job.whole => \A x \in FilesOf[cur] \ job.left : fs[x] = cur)
    BY <1>2 DEF IInv, Extracted
  <2>4. whole => \A x \in FilesOf[cur] \ job'.left : fs'[x] = cur
    BY <1>3, <1>7, <2>1, <2>2, <2>3 DEF IInv, Types
  <2> QED BY <1>7, <1>8, <2>3, <2>4 DEF Extracted
<1> QED BY <1>2, <1>7, <1>8, <1>9
           DEF IInv, Queued, VictimsInstalled, Written, Registered, Removing

LEMMA ExtractDoneIInv == IInv /\ ExtractDone => IInv'
<1> SUFFICES ASSUME IInv, ExtractDone PROVE IInv'
  OBVIOUS
<1>1. job.pc = "extract" /\ job.left = {} /\ job.queue # <<>> /\ UNCHANGED <<disk, faults>>
  BY DEF ExtractDone, IInv, Queued, Handling
<1>2. CASE job.whole /\ job' = [job EXCEPT !.pc = "register", !.left = FilesOf[cur]]
  <2>1. job' \in Job /\ job'.pc = "register" /\ job'.queue = job.queue /\ job'.left = FilesOf[cur]
    BY <1>1, <1>2, CurType DEF IInv, Types, Job, Pcs
  <2>2. Types' /\ LinesWhole' /\ cur' = cur
    BY <1>1, <2>1, LinesStayWhole DEF IInv, Types, disk, cur
  <2>3. \A f \in FilesOf[cur] : fs[f] = cur
    BY <1>1, <1>2 DEF IInv, Extracted
  <2> QED BY <1>1, <2>1, <2>2, <2>3
             DEF IInv, Queued, VictimsInstalled, Extracted, Written, Registered, Removing, disk
<1>3. CASE job' = [job EXCEPT !.pc = "undo"]
  <2>1. job' \in Job /\ job'.pc = "undo"
    BY <1>3 DEF IInv, Types, Job, Pcs
  <2> QED BY <1>1, <2>1, QuietStep DEF Plain, Pcs, Removing, Handling
<1> QED BY <1>2, <1>3 DEF ExtractDone

LEMMA RegisterMemberIInv == IInv /\ RegisterMember => IInv'
<1> SUFFICES ASSUME IInv, RegisterMember PROVE IInv'
  OBVIOUS
<1>1. job.pc = "register" /\ job.queue # <<>> /\ UNCHANGED <<fs, dirs, rec>>
  BY DEF RegisterMember, IInv, Queued, Handling
<1>2. cur \in Pkgs /\ NameOf[cur] \in Names /\ job.left \in SUBSET Paths /\ idx \in Index
  BY <1>1, CurType DEF IInv, Types, Job
<1>3. ASSUME NEW f \in job.left, NoFault,
             idx' = AppendEntry(idx, f, NameOf[cur], "all"),
             job' = [job EXCEPT !.left = @ \ {f}]
      PROVE  IInv'
  <2>1. job' \in Job /\ job'.pc = "register" /\ job'.queue = job.queue
        /\ job'.left = job.left \ {f}
    BY <1>1, <1>3 DEF IInv, Types, Job
  <2>2. idx' \in Index
    BY <1>2, <1>3, AppendEntryType DEF Cuts
  <2>3. AppendsWhole => /\ idx'.tail = NoTail
                        /\ Owners(idx)' = Owners(idx) \cup {<<f, NameOf[cur]>>}
    <3>1. AppendsWhole => idx.tail = NoTail
      BY <1>1 DEF IInv, LinesWhole
    <3>2. Owners(idx)' = Owners(idx')
      BY DEF Owners, LinesOf, NoTab, NoTail, Torn
    <3> QED BY <1>2, <1>3, <3>1, <3>2, OwnersAfterAppend
  <2>4. Types' /\ cur' = cur
    BY <1>1, <1>3, <2>1, <2>2, FaultsType DEF IInv, Types, cur
  <2>5. LinesWhole'
    BY <2>3 DEF LinesWhole, AppendsWhole
  <2>6. Registered'
    <3>1. job'.left \subseteq FilesOf[cur]
      BY <1>1, <2>1 DEF IInv, Registered
    <3>2. AppendsWhole => \A x \in FilesOf[cur] \ job'.left : <<x, NameOf[cur]>> \in Owners(idx)'
      BY <1>1, <2>1, <2>3 DEF IInv, Registered
    <3> QED BY <2>1, <2>4, <3>1, <3>2 DEF Registered, AppendsWhole
  <2> QED BY <1>1, <2>1, <2>4, <2>5, <2>6
             DEF IInv, Queued, VictimsInstalled, Extracted, Written, Removing
<1>4. ASSUME job' = [job EXCEPT !.pc = "unregister", !.left = {}], idx' \in Index,
             NEW kind, Fault(kind), idx' = idx \/ kind = "torn"
      PROVE  IInv'
  <2>1. job' \in Job /\ job'.pc = "unregister" /\ job'.queue = job.queue
    BY <1>4 DEF IInv, Types, Job, Pcs
  <2>2. Types'
    BY <1>1, <1>4, <2>1, FaultsType DEF IInv, Types
  <2>3. LinesWhole'
    BY <1>1, <1>4, <2>1 DEF IInv, LinesWhole, Fault, AppendsWhole
  <2> QED BY <1>1, <2>1, <2>2, <2>3, PlainStep DEF Plain, Pcs, Removing, Handling
<1>5. ASSUME NEW f \in job.left, NEW cut \in Cuts, Fault("torn"),
             idx' = AppendEntry(idx, f, NameOf[cur], cut),
             job' = [job EXCEPT !.pc = "unregister", !.left = {}]
      PROVE  IInv'
  <2>1. idx' \in Index
    BY <1>2, <1>5, AppendEntryType
  <2> QED BY <1>4, <1>5, <2>1
<1>6. PICK f \in job.left :
        \/ /\ NoFault
           /\ idx' = AppendEntry(idx, f, NameOf[cur], "all")
           /\ job' = [job EXCEPT !.left = @ \ {f}]
        \/ /\ Fault("register")
           /\ UNCHANGED idx
           /\ job' = [job EXCEPT !.pc = "unregister", !.left = {}]
        \/ /\ Fault("torn")
           /\ \E cut \in Cuts \ {"nothing", "all"} :
                idx' = AppendEntry(idx, f, NameOf[cur], cut)
           /\ job' = [job EXCEPT !.pc = "unregister", !.left = {}]
  BY DEF RegisterMember
<1> QED BY <1>2, <1>3, <1>4, <1>5, <1>6

LEMMA RegisterDoneIInv == IInv /\ RegisterDone => IInv'
<1> SUFFICES ASSUME IInv, RegisterDone PROVE IInv'
  OBVIOUS
<1>1. job.pc = "register" /\ job.left = {} /\ job.queue # <<>> /\ Goto("put")
      /\ UNCHANGED <<disk, faults>>
  BY DEF RegisterDone, IInv, Queued, Handling
<1>2. job' \in Job /\ job'.pc = "put" /\ job'.queue = job.queue /\ job'.left = {}
  BY <1>1, GotoType DEF IInv, Pcs
<1>3. Types' /\ LinesWhole' /\ cur' = cur /\ UNCHANGED <<fs, rec, idx>>
  BY <1>1, <1>2, LinesStayWhole DEF IInv, Types, disk, cur
<1>4. Owners(idx)' = Owners(idx)
  BY <1>3 DEF Owners, LinesOf, NoTab, NoTail, Torn
<1> QED BY <1>1, <1>2, <1>3, <1>4
           DEF IInv, Queued, VictimsInstalled, Extracted, Written, Registered, Removing,
               AppendsWhole

LEMMA PutIInv == IInv /\ Put => IInv'
<1> SUFFICES ASSUME IInv, Put PROVE IInv'
  OBVIOUS
<1>1. job.pc = "put" /\ job.queue # <<>> /\ UNCHANGED <<fs, dirs, idx>>
      /\ (NoFault \/ Fault("put"))
  BY DEF Put, IInv, Queued, Handling
<1>2. cur \in Pkgs /\ NameOf[cur] \in Names /\ Tail(job.queue) \in Seq(Pkgs)
  BY <1>1, CurType DEF IInv
<1>3. CASE /\ rec' = [rec EXCEPT ![NameOf[cur]] = cur]
           /\ job' = [job EXCEPT !.pc = "next", !.queue = Tail(@),
                                 !.made = {}, !.madeDirs = {}, !.before = None]
  <2>1. job' \in Job /\ job'.pc = "next"
    BY <1>2, <1>3 DEF IInv, Types, Job, Pcs
  <2>2. Types' /\ LinesWhole'
    BY <1>1, <1>2, <1>3, <2>1, FaultsType, LinesStayWhole DEF IInv, Types
  <2> QED BY <2>1, <2>2, PlainStep DEF Plain, Pcs, Removing, Handling
<1>4. CASE UNCHANGED rec /\ Goto("unregister")
  <2>1. job' \in Job /\ job'.pc = "unregister" /\ job'.queue = job.queue
    BY <1>4, GotoType DEF IInv, Pcs
  <2>2. Types' /\ LinesWhole'
    BY <1>1, <1>4, <2>1, FaultsType, LinesStayWhole DEF IInv, Types
  <2> QED BY <1>1, <2>1, <2>2, PlainStep DEF Plain, Pcs, Removing, Handling
<1> QED BY <1>3, <1>4 DEF Put

LEMMA UnregisterNewIInv == IInv /\ UnregisterNew => IInv'
<1> SUFFICES ASSUME IInv, UnregisterNew PROVE IInv'
  OBVIOUS
<1>1. job.pc = "unregister" /\ Goto("undo") /\ UNCHANGED <<fs, dirs, rec>>
  BY DEF UnregisterNew
<1>2. \/ NoFault /\ idx' = WithoutOwner(idx, NameOf[cur])
      \/ Fault("unregister") /\ UNCHANGED idx
  BY DEF UnregisterNew
<1>3. job' \in Job /\ job'.pc = "undo"
  BY <1>1, GotoType DEF IInv, Pcs
<1>4. idx' \in Index /\ LinesWhole'
  BY <1>2, WithoutOwnerType DEF IInv, Types, LinesWhole, AppendsWhole, Fault
<1>5. Types'
  BY <1>1, <1>2, <1>3, <1>4, FaultsType DEF IInv, Types
<1> QED BY <1>3, <1>4, <1>5, PlainStep DEF Plain, Pcs, Removing, Handling

LEMMA UndoIInv == IInv /\ (UndoFile \/ UndoDirs) => IInv'
<1> SUFFICES ASSUME IInv, UndoFile \/ UndoDirs PROVE IInv'
  OBVIOUS
<1>1. job.pc = "undo" /\ UNCHANGED <<rec, idx, faults>>
  BY DEF UndoFile, UndoDirs
<1>2. CASE UndoFile
  <2>1. PICK f \in job.made : /\ fs' = [fs EXCEPT ![f] = Gone]
                              /\ job' = [job EXCEPT !.made = @ \ {f}]
    BY <1>2 DEF UndoFile
  <2>2. job' \in Job /\ job'.pc = "undo" /\ fs' \in [Paths -> Contents] /\ UNCHANGED dirs
    BY <1>1, <1>2, <2>1 DEF UndoFile, IInv, Types, Job, Contents
  <2>3. Types' /\ LinesWhole'
    BY <1>1, <2>2, LinesStayWhole DEF IInv, Types
  <2> QED BY <2>2, <2>3, PlainStep DEF Plain, Pcs, Removing, Handling
<1>3. CASE UndoDirs
  <2>1. job' = Idle /\ dirs' \subseteq dirs /\ UNCHANGED fs
    BY <1>3 DEF UndoDirs
  <2>2. Types' /\ LinesWhole'
    BY <1>1, <2>1, IdleType, LinesStayWhole DEF IInv, Types
  <2> QED BY <2>1, <2>2, IdleType, PlainStep DEF Plain, Pcs, Removing, Handling
<1> QED BY <1>2, <1>3

LEMMA CrashIInv == IInv /\ Crash => IInv'
<1> SUFFICES ASSUME IInv, Crash PROVE IInv'
  OBVIOUS
<1>1. job' = Idle /\ UNCHANGED disk /\ Fault("crash")
  BY DEF Crash
<1>2. LinesWhole'
  BY <1>1 DEF IInv, LinesWhole, AppendsWhole, Fault, disk
<1>3. Types'
  BY <1>1, IdleType, FaultsType DEF IInv, Types, disk
<1> QED BY <1>1, <1>2, <1>3, IdleType, PlainStep DEF Plain, Pcs, Removing, Handling

-----------------------------------------------------------------------------
(* abp del                                                                 *)

LEMMA BeginRemoveIInv == IInv /\ BeginRemove => IInv'
<1> SUFFICES ASSUME IInv, BeginRemove PROVE IInv'
  OBVIOUS
<1> DEFINE keep == IF job.kind = "del" /\ "purge" \in job.opts THEN {} ELSE ConfigFiles
<1>1. job.pc = "replace" /\ UNCHANGED <<disk, faults>>
  BY DEF BeginRemove
<1>2. CASE job.victims = {} /\ job' = RemovalDone({})
  <2>1. job' = Idle \/ job' = [job EXCEPT !.pc = "check", !.victims = {}, !.victim = None]
    BY <1>2 DEF RemovalDone
  <2>2. job' \in Job /\ job'.pc \in {"idle", "check"}
    BY <2>1, IdleType DEF IInv, Types, Job, Pcs
  <2> QED BY <1>1, <2>2, QuietStep DEF Plain, Pcs, Removing, Handling
<1>3. ASSUME NEW n \in job.victims,
             job' = [job EXCEPT !.pc = "rm files", !.victim = n,
                                !.left = FilesOf[rec[n]] \ keep]
      PROVE  IInv'
  <2>1. n \in Names /\ rec[n] \in Pkgs
    BY <1>1 DEF IInv, Types, Job, VictimsInstalled, Removing
  <2>2. FilesOf[rec[n]] \ keep \in SUBSET Paths
    BY <2>1, InstallAssumption
  <2> HIDE DEF keep
  <2>3. job' \in Job /\ job'.pc = "rm files" /\ job'.victims = job.victims
    BY <1>3, <2>1, <2>2 DEF IInv, Types, Job, Pcs
  <2>4. Types' /\ LinesWhole' /\ UNCHANGED rec
    BY <1>1, <2>3, LinesStayWhole DEF IInv, Types, disk
  <2> QED BY <1>1, <2>3, <2>4, RemovalStep DEF IInv, VictimsInstalled, Removing
<1> QED BY <1>2, <1>3 DEF BeginRemove

LEMMA RemoveFileIInv == IInv /\ RemoveFile => IInv'
<1> SUFFICES ASSUME IInv, RemoveFile PROVE IInv'
  OBVIOUS
<1>1. job.pc = "rm files" /\ UNCHANGED <<dirs, rec, idx, faults>>
  BY DEF RemoveFile
<1>2. job' \in Job /\ job'.pc \in {"rm files", "rm lines"} /\ job'.victims = job.victims
      /\ fs' \in [Paths -> Contents]
  <2>1. CASE job.left = {}
    BY <1>1, <2>1, GotoType DEF RemoveFile, IInv, Types, Pcs
  <2>2. CASE job.left # {}
    <3>1. PICK f \in job.left : /\ fs' = [fs EXCEPT ![f] = Gone]
                                /\ job' = [job EXCEPT !.left = @ \ {f}]
      BY <2>2 DEF RemoveFile
    <3>2. job' \in Job /\ job'.pc = job.pc /\ job'.victims = job.victims
      BY <3>1 DEF IInv, Types, Job
    <3> QED BY <1>1, <3>1, <3>2 DEF IInv, Types, Contents
  <2> QED BY <2>1, <2>2
<1>3. Types' /\ LinesWhole'
  BY <1>1, <1>2, LinesStayWhole DEF IInv, Types
<1> QED BY <1>1, <1>2, <1>3, RemovalStep DEF IInv, VictimsInstalled, Removing

LEMMA RemoveLinesIInv == IInv /\ RemoveLines => IInv'
<1> SUFFICES ASSUME IInv, RemoveLines PROVE IInv'
  OBVIOUS
<1>1. /\ job.pc = "rm lines" /\ Goto("rm record") /\ UNCHANGED <<fs, dirs, rec>>
      /\ (NoFault \/ Fault("unregister"))
      /\ (idx' = WithoutOwner(idx, victim) \/ idx' = idx)
  BY DEF RemoveLines
<1>2. job' \in Job /\ job'.pc = "rm record" /\ job'.victims = job.victims
  BY <1>1, GotoType DEF IInv, Pcs
<1>3. idx' \in Index /\ LinesWhole'
  BY <1>1, WithoutOwnerType, LinesStayWhole DEF IInv, Types, LinesWhole
<1>4. Types'
  BY <1>1, <1>2, <1>3, FaultsType DEF IInv, Types
<1> QED BY <1>1, <1>2, <1>3, <1>4, RemovalStep DEF IInv, VictimsInstalled, Removing

LEMMA RemoveRecordIInv == IInv /\ RemoveRecord => IInv'
<1> SUFFICES ASSUME IInv, RemoveRecord PROVE IInv'
  OBVIOUS
<1> DEFINE vs == job.victims \ {victim}
<1>1. /\ job.pc = "rm record" /\ UNCHANGED <<fs, dirs, idx>> /\ (NoFault \/ Fault("delete"))
      /\ (rec' = [rec EXCEPT ![victim] = None] \/ rec' = rec)
      /\ (job' = RemovalDone(vs) \/ job' = Idle)
  BY DEF RemoveRecord
<1>2. rec' \in [Names -> Pkgs \cup {None}] /\ \A n \in vs : rec'[n] # None
  BY <1>1 DEF IInv, Types, Job, VictimsInstalled, Removing
<1>3. vs \in SUBSET Names
  BY DEF IInv, Types, Job
<1> HIDE DEF vs
<1>4. /\ job' \in Job
      /\ \/ job'.pc = "replace" /\ job'.victims = vs
         \/ job'.pc \in {"check", "idle"}
  <2>1. CASE job' = [job EXCEPT !.pc = "replace", !.victims = vs, !.victim = None]
    BY <1>3, <2>1 DEF IInv, Types, Job, Pcs
  <2>2. CASE job' = [job EXCEPT !.pc = "check", !.victims = {}, !.victim = None]
    BY <2>2 DEF IInv, Types, Job, Pcs
  <2>3. CASE job' = Idle
    BY <2>3, IdleType
  <2> QED BY <1>1, <2>1, <2>2, <2>3 DEF RemovalDone
<1>5. Types' /\ LinesWhole'
  BY <1>1, <1>2, <1>4, FaultsType, LinesStayWhole DEF IInv, Types
<1>6. CASE job'.pc = "replace" /\ job'.victims = vs
  BY <1>2, <1>5, <1>6, RemovalStep DEF Removing
<1>7. CASE job'.pc \in {"check", "idle"}
  BY <1>5, <1>7, PlainStep DEF Plain, Pcs, Removing, Handling
<1> QED BY <1>4, <1>6, <1>7

-----------------------------------------------------------------------------
LEMMA WorkIInv == IInv /\ Work => IInv'
BY CheckIInv, VerifyFailsIInv, VerifyIInv, UnlinkOldIInv, UnregisterOldIInv, UnpackIInv,
   ExtractMemberIInv, ExtractDoneIInv, RegisterMemberIInv, RegisterDoneIInv, PutIInv,
   UnregisterNewIInv, UndoIInv, BeginRemoveIInv, RemoveFileIInv, RemoveLinesIInv,
   RemoveRecordIInv DEF Work

LEMMA NextIInv == IInv /\ [Next]_vars => IInv'
<1> SUFFICES ASSUME IInv, [Next]_vars PROVE IInv'
  OBVIOUS
<1>1. CASE UNCHANGED vars
  <2>1. UNCHANGED <<fs, dirs, rec, idx, job, faults>>
    BY <1>1 DEF vars
  <2>2. Owners(idx)' = Owners(idx) /\ cur' = cur
    BY <2>1 DEF Owners, LinesOf, NoTab, NoTail, Torn, cur
  <2> QED BY <2>1, <2>2 DEF IInv, Types, Queued, VictimsInstalled, LinesWhole, Extracted,
                            Written, Registered, AppendsWhole
<1>2. CASE \E ps \in AddRequests, opts \in SUBSET (Flags \ {"purge"}) :
             \E order \in Orders(ps) : Add(ps, order, opts)
  <2>1. PICK ps \in AddRequests : \E opts \in SUBSET (Flags \ {"purge"}) :
             \E order \in Orders(ps) : Add(ps, order, opts)
    BY <1>2
  <2>2. PICK opts \in SUBSET (Flags \ {"purge"}) :
             \E order \in Orders(ps) : Add(ps, order, opts)
    BY <2>1
  <2>3. PICK order \in Orders(ps) : Add(ps, order, opts)
    BY <2>2
  <2>4. opts \in SUBSET Flags
    OBVIOUS
  <2> QED BY <2>3, <2>4, AddIInv
<1>3. CASE \E ns \in SUBSET Names, opts \in SUBSET (Flags \ {"no_deps"}) : Del(ns, opts)
  <2>1. PICK ns \in SUBSET Names : \E opts \in SUBSET (Flags \ {"no_deps"}) : Del(ns, opts)
    BY <1>3
  <2>2. PICK opts \in SUBSET (Flags \ {"no_deps"}) : Del(ns, opts)
    BY <2>1
  <2>3. opts \in SUBSET Flags
    OBVIOUS
  <2> QED BY <2>2, <2>3, DelIInv
<1> QED BY <1>1, <1>2, <1>3, WorkIInv, CrashIInv DEF Next

LEMMA SpecIInv == Spec => []IInv
<1> QED BY InitIInv, NextIInv, PTL DEF Spec

\* Types: whatever is added, removed and fails, the variables keep theirs.
THEOREM TypeCorrect == Spec => []TypeOK
<1>1. IInv => TypeOK
  BY TypesAreTypes DEF IInv
<1> QED BY <1>1, SpecIInv, PTL

-----------------------------------------------------------------------------
\* The record is written last (database.put_package at the end of
\* install_single_package): for any packages and options, and any number of
\* failures and kills, when a record appears each of the package's files is on
\* disk, complete, and registered to it -- provided a cut append cannot be left
\* in the index, because there is none or because its repair does not fail.
THEOREM RecordsAreTrue == ASSUME AppendsWhole PROVE Spec => CommitIsComplete
<1> DEFINE Commit(n) == (rec'[n] # rec[n] /\ rec'[n] # None) => Intact(n)'
<1>1. ASSUME IInv, [Next]_vars, NEW n \in Names PROVE Commit(n)
  <2> SUFFICES ASSUME rec'[n] # rec[n], rec'[n] # None PROVE Intact(n)'
    OBVIOUS
  <2>1. ~(UNCHANGED rec)
    OBVIOUS
  <2>2. CASE Put
    <3>1. /\ job.pc = "put" /\ UNCHANGED <<fs, idx>>
          /\ rec' = [rec EXCEPT ![NameOf[cur]] = cur]
      BY <2>1, <2>2 DEF Put
    <3>2. cur \in Pkgs /\ NameOf[cur] \in Names
      BY <1>1, <3>1, CurType DEF IInv, Queued, Handling
    <3>3. n = NameOf[cur] /\ rec'[n] = cur
      BY <1>1, <3>1, <3>2 DEF IInv, Types
    <3>4. FilesHeld(n)' = FilesOf[cur]
      BY <3>3 DEF FilesHeld, Installed
    <3>5. Owners(idx)' = Owners(idx)
      BY <3>1 DEF Owners, LinesOf, NoTab, NoTail, Torn
    <3>6. \A f \in FilesOf[cur] : fs[f] = cur /\ <<f, NameOf[cur]>> \in Owners(idx)
      BY <1>1, <3>1 DEF IInv, Written, Registered
    <3> QED BY <3>1, <3>3, <3>4, <3>5, <3>6 DEF Intact
  <2>3. CASE RemoveRecord
    <3>1. rec' = [rec EXCEPT ![victim] = None]
      BY <2>1, <2>3 DEF RemoveRecord
    <3> QED BY <1>1, <3>1 DEF IInv, Types
  <2>4. CASE ~Put /\ ~RemoveRecord
    BY <1>1, <2>1, <2>4
       DEF Next, Work, vars, disk, Add, Del, Crash, Check, AddDone, VerifyFails, Verify, UnlinkOld,
           UnregisterOld, Unpack, ExtractMember, ExtractDone, RegisterMember, RegisterDone,
           UnregisterNew, UndoFile, UndoDirs, BeginRemove, RemoveFile, RemoveLines
  <2> QED BY <2>2, <2>3, <2>4
<1>2. IInv /\ [Next]_vars => [\A n \in Names : Commit(n)]_vars
  BY <1>1
<1> HIDE DEF Commit
<1> QED BY <1>2, SpecIInv, PTL DEF Spec, CommitIsComplete, Commit

-----------------------------------------------------------------------------
(* Whose files and lines they are.                                         *)

\* What the theorems of this section assume of a run.  Nothing is forced; a
\* rebuild of a version has that version's files (install.rs skips the conflict
\* check for it); and no upgrade or removal stops half-way, which leaves the
\* record of a package that has lost its lines.
Unforced == "force" \notin Flags
RebuildsKeepFiles ==
    \A p, q \in Pkgs :
        NameOf[p] = NameOf[q] /\ VersionOf[p] = VersionOf[q] => FilesOf[p] = FilesOf[q]
NothingStopsHalfway == Faults \subseteq {"verify", "unregister"}
Orderly == Unforced /\ RebuildsKeepFiles /\ NothingStopsHalfway

Installing == {"next"} \cup Handling
InHand(n) ==
    \/ job.pc \in Handling /\ n = NameOf[cur]
    \/ job.pc \in {"rm files", "rm lines", "rm record"} /\ n = victim

OneOwner ==
    /\ Owners(idx) \in SUBSET (Paths \X Names)
    /\ \A o1, o2 \in Owners(idx) : o1[1] = o2[1] => o1[2] = o2[2]

Apart(ps) == \A p, q \in ps : NameOf[p] # NameOf[q] => FilesOf[p] \cap FilesOf[q] = {}
FreeFor(p) == \A o \in Owners(idx) : o[1] \in FilesOf[p] => o[2] = NameOf[p]
Cleared == job.pc \in Installing =>
    Apart(InRequest(job.queue)) /\ \A p \in InRequest(job.queue) : FreeFor(p)

OwnRecords == \A n \in Names : Installed(n) => NameOf[rec[n]] = n
RestIntact == \A n \in Names : Installed(n) /\ ~InHand(n) => Intact(n)
Leaving ==
    /\ job.pc = "old files" => \A f \in job.left : <<f, NameOf[cur]>> \in Owners(idx)
    /\ job.pc = "rm files" => \A f \in job.left : <<f, victim>> \in Owners(idx)
NeverUndone ==
    /\ job.pc \notin {"unregister", "undo"}
    /\ job.pc = "extract" => job.whole

HInv == OneOwner /\ Cleared /\ OwnRecords /\ RestIntact /\ Leaving /\ NeverUndone

-----------------------------------------------------------------------------
\* The head of the queue is one of the queue, and so is the rest of it.
LEMMA QueueParts ==
    ASSUME Types, job.queue # <<>>
    PROVE  /\ cur \in InRequest(job.queue)
           /\ InRequest(Tail(job.queue)) \subseteq InRequest(job.queue)
<1>1. job.queue \in Seq(Pkgs)
  BY DEF Types, Job
<1>2. cur = job.queue[1] /\ 1 \in DOMAIN job.queue
  BY <1>1 DEF cur
<1>3. \A i \in DOMAIN Tail(job.queue) : i + 1 \in DOMAIN job.queue /\ Tail(job.queue)[i] = job.queue[i + 1]
  BY <1>1
<1> QED BY <1>2, <1>3 DEF InRequest

\* A path's owner is the one that its lines name.
LEMMA TheOwner ==
    ASSUME Types, OneOwner, NEW o \in Owners(idx)
    PROVE  FileOwner(idx, o[1]) = o[2]
<1>1. <<o[1], FileOwner(idx, o[1])>> \in Owners(idx)
  BY FileOwnerIsAnOwner DEF Types
<1> QED BY <1>1 DEF OneOwner

LEMMA SameOwners ==
    ASSUME idx' = idx
    PROVE  Owners(idx)' = Owners(idx)
BY DEF Owners, LinesOf, NoTab, NoTail, Torn

\* What is intact stays so while its files and lines do.
LEMMA StaysIntact ==
    ASSUME NEW n \in Names, Installed(n), Intact(n), rec'[n] = rec[n],
           \A f \in FilesHeld(n) : fs'[f] = fs[f],
           \A f \in FilesHeld(n) : <<f, n>> \in Owners(idx)'
    PROVE  Intact(n)'
BY DEF Intact, FilesHeld, Installed

\* A step of the process alone: what it no longer has in hand is intact.
LEMMA JobStep ==
    ASSUME HInv, UNCHANGED <<fs, rec, idx>>,
           \A n \in Names : InHand(n) /\ Installed(n) => InHand(n)' \/ Intact(n),
           Cleared', Leaving', NeverUndone'
    PROVE  HInv'
<1>1. Owners(idx)' = Owners(idx)
  BY SameOwners
<1>2. \A n \in Names : Installed(n)' = Installed(n) /\ (Intact(n) => Intact(n)')
  BY <1>1 DEF Intact, FilesHeld, Installed
<1>3. RestIntact'
  BY <1>2 DEF HInv, RestIntact
<1>4. OneOwner' /\ OwnRecords'
  BY <1>1, <1>2 DEF HInv, OneOwner, OwnRecords
<1> QED BY <1>3, <1>4 DEF HInv

LEMMA InitHInv == Init => HInv
<1> SUFFICES ASSUME Init PROVE HInv
  OBVIOUS
<1>1. Owners(idx) = {} /\ job.pc = "idle"
  BY OwnersOfEmpty, IdleType DEF Init
<1>2. \A n \in Names : ~Installed(n)
  BY DEF Init, Installed
<1> QED BY <1>1, <1>2 DEF HInv, OneOwner, Cleared, OwnRecords, RestIntact, Leaving, NeverUndone,
                          Installing, Handling

LEMMA BeginHInv ==
    ASSUME IInv, HInv, job.pc = "idle", UNCHANGED disk, job'.pc = "replace"
    PROVE  HInv'
BY JobStep DEF InHand, Cleared, Leaving, NeverUndone, Installing, Handling, disk

LEMMA AddHInv ==
    ASSUME IInv, HInv, NEW ps, NEW opts, NEW order, Add(ps, order, opts)
    PROVE  HInv'
<1>1. job.pc = "idle" /\ UNCHANGED disk /\ job'.pc = "replace"
  BY DEF Add, Idle
<1> QED BY <1>1, BeginHInv

LEMMA DelHInv ==
    ASSUME IInv, HInv, NEW ns, NEW opts, Del(ns, opts)
    PROVE  HInv'
<1>1. job.pc = "idle" /\ UNCHANGED disk /\ job'.pc = "replace"
  BY DEF Del, Idle
<1> QED BY <1>1, BeginHInv

\* What passed the checks may be installed: its files are its own or nobody's.
LEMMA CheckClears ==
    ASSUME Orderly, IInv, HInv, job.pc = "check",
           ~Refused(InRequest(job.queue), "force" \in job.opts)
    PROVE  Apart(InRequest(job.queue)) /\ \A p \in InRequest(job.queue) : FreeFor(p)
<1> DEFINE ps == InRequest(job.queue)
<1>1. ps \subseteq Pkgs /\ "force" \notin job.opts
  BY DEF IInv, Types, Job, InRequest, Orderly, Unforced
<1>2. Apart(ps)
  BY DEF Refused, Collision, Apart
<1>3. ASSUME NEW p \in ps PROVE FreeFor(p)
  <2> SUFFICES ASSUME NEW o \in Owners(idx), o[1] \in FilesOf[p] PROVE o[2] = NameOf[p]
    BY DEF FreeFor
  <2>1. p \in Pkgs /\ NameOf[p] \in Names
    BY <1>1, InstallAssumption
  <2>2. ~FileConflict(p)
    BY <1>1 DEF Refused
  <2>3. CASE SameVersionInstalled(p)
    <3> DEFINE n == NameOf[p]
    <3>1. Installed(n) /\ VersionOf[rec[n]] = VersionOf[p]
      BY <2>3 DEF SameVersionInstalled
    <3>2. rec[n] \in Pkgs /\ NameOf[rec[n]] = n
      BY <2>1, <3>1 DEF IInv, Types, Installed, HInv, OwnRecords
    <3>3. FilesOf[rec[n]] = FilesOf[p]
      BY <2>1, <3>1, <3>2 DEF Orderly, RebuildsKeepFiles
    <3>4. Intact(n)
      BY <2>1, <3>1 DEF HInv, RestIntact, InHand, Handling
    <3>5. <<o[1], n>> \in Owners(idx)
      BY <3>1, <3>3, <3>4 DEF Intact, FilesHeld
    <3> QED BY <3>5 DEF HInv, OneOwner
  <2>4. CASE ~SameVersionInstalled(p)
    <3>1. FileOwner(idx, o[1]) \in {NoOwner, NameOf[p]}
      BY <2>2, <2>4 DEF FileConflict
    <3>2. FileOwner(idx, o[1]) = o[2]
      BY TheOwner DEF IInv, HInv
    <3>3. o[2] \in Names
      BY DEF HInv, OneOwner
    <3> QED BY <3>1, <3>2, <3>3, IndexAssumption
  <2> QED BY <2>3, <2>4
<1> QED BY <1>2, <1>3

LEMMA CheckHInv == Orderly /\ IInv /\ HInv /\ Check => HInv'
<1> SUFFICES ASSUME Orderly, IInv, HInv, Check PROVE HInv'
  OBVIOUS
<1>1. job.pc = "check" /\ UNCHANGED <<fs, rec, idx>>
  BY DEF Check, disk
<1>2. CASE Refused(InRequest(job.queue), "force" \in job.opts)
  <2>1. job'.pc = "idle"
    BY <1>2, IdleType DEF Check
  <2> QED BY <1>1, <2>1, JobStep DEF InHand, Cleared, Leaving, NeverUndone, Installing, Handling
<1>3. CASE ~Refused(InRequest(job.queue), "force" \in job.opts)
  <2>1. job'.pc = "next" /\ job'.queue = job.queue
    BY <1>3 DEF Check, IInv, Types, Job
  <2>2. Cleared'
    BY <1>1, <1>3, <2>1, CheckClears, SameOwners DEF Cleared, Apart, FreeFor, InRequest
  <2> QED BY <1>1, <2>1, <2>2, JobStep DEF InHand, Leaving, NeverUndone, Handling
<1> QED BY <1>2, <1>3

\* The queue only ever gets shorter.
LEMMA StaysCleared ==
    ASSUME Cleared, job.pc \in Installing, Owners(idx)' \subseteq Owners(idx),
           InRequest(job.queue)' \subseteq InRequest(job.queue)
    PROVE  Cleared'
BY DEF Cleared, Apart, FreeFor

LEMMA NextPackageHInv == Orderly /\ IInv /\ HInv /\ (AddDone \/ VerifyFails) => HInv'
<1> SUFFICES ASSUME Orderly, IInv, HInv, AddDone \/ VerifyFails PROVE HInv'
  OBVIOUS
<1>1. job.pc = "next" /\ UNCHANGED <<fs, rec, idx>>
  BY DEF AddDone, VerifyFails, disk
<1>2. CASE AddDone
  <2>1. job'.pc = "idle"
    BY <1>2, IdleType DEF AddDone
  <2> QED BY <1>1, <2>1, JobStep DEF InHand, Cleared, Leaving, NeverUndone, Installing, Handling
<1>3. CASE VerifyFails
  <2>1. job'.pc = "next" /\ job'.queue = Tail(job.queue) /\ job.queue # <<>>
    BY <1>1, <1>3 DEF VerifyFails, IInv, Types, Job
  <2>2. InRequest(job.queue)' \subseteq InRequest(job.queue)
    BY <2>1, QueueParts DEF IInv, InRequest
  <2>3. Cleared'
    BY <1>1, <2>2, StaysCleared, SameOwners DEF HInv, Installing
  <2> QED BY <1>1, <2>1, <2>3, JobStep DEF InHand, Leaving, NeverUndone, Handling
<1> QED BY <1>2, <1>3

\* What is in hand, and what its stage is.
LEMMA CurInHand ==
    ASSUME IInv, HInv, job.pc \in Handling
    PROVE  /\ cur \in Pkgs /\ NameOf[cur] \in Names /\ cur \in InRequest(job.queue)
           /\ FreeFor(cur) /\ InHand(NameOf[cur]) /\ job.pc \in Installing
<1>1. job.queue # <<>>
  BY DEF IInv, Queued
<1> QED BY <1>1, CurType, QueueParts DEF IInv, HInv, Cleared, InHand, Installing

\* An intact package has none of the files of another.
LEMMA FilesApart ==
    ASSUME OneOwner, NEW n, Intact(n), NEW m, m # n, NEW f, <<f, m>> \in Owners(idx)
    PROVE  f \notin FilesHeld(n)
BY DEF OneOwner, Intact

LEMMA VerifyHInv == IInv /\ HInv /\ Verify => HInv'
<1> SUFFICES ASSUME IInv, HInv, Verify PROVE HInv'
  OBVIOUS
<1> DEFINE n == NameOf[cur]
<1>1. /\ job.pc = "next" /\ job.queue # <<>> /\ UNCHANGED <<fs, rec, idx>>
      /\ \/ Installed(n) /\ job'.pc = "old files" /\ job'.left = FilesOf[rec[n]]
         \/ job'.pc = "unpack"
      /\ job'.queue = job.queue
  BY DEF Verify, disk, IInv, Types, Job
<1>2. n \in Names /\ cur' = cur
  BY <1>1, CurType DEF IInv, cur
<1>3. Owners(idx)' = Owners(idx)
  BY <1>1, SameOwners
<1>4. InRequest(job.queue)' = InRequest(job.queue)
  BY <1>1 DEF InRequest
<1>5. Cleared'
  BY <1>1, <1>3, <1>4, StaysCleared DEF HInv, Installing
<1>6. ASSUME Installed(n) PROVE \A f \in FilesOf[rec[n]] : <<f, n>> \in Owners(idx)
  <2>1. Intact(n)
    BY <1>1, <1>2, <1>6 DEF HInv, RestIntact, InHand, Handling
  <2> QED BY <1>6, <2>1 DEF Intact, FilesHeld
<1>7. Leaving'
  BY <1>1, <1>2, <1>3, <1>6 DEF Leaving
<1> QED BY <1>1, <1>5, <1>7, JobStep DEF InHand, NeverUndone, Handling

\* A step that changes files of the package in hand, which nobody else has.
LEMMA FileStep ==
    ASSUME HInv, UNCHANGED <<rec, idx>>, NEW f, NEW n \in Names, InHand(n), InHand(n)',
           \A m \in Names : InHand(m) => m = n,
           \A x \in Paths : x # f => fs'[x] = fs[x],
           \A p \in Pkgs : FilesOf[p] \subseteq Paths, rec \in [Names -> Pkgs \cup {None}],
           \A m \in Names : m # n => f \notin FilesHeld(m) \/ ~Intact(m),
           Cleared', Leaving', NeverUndone'
    PROVE  HInv'
<1>1. Owners(idx)' = Owners(idx)
  BY SameOwners
<1>2. RestIntact'
  <2> SUFFICES ASSUME NEW m \in Names, Installed(m)', ~InHand(m)' PROVE Intact(m)'
    BY DEF RestIntact
  <2>1. m # n /\ ~InHand(m) /\ Installed(m)
    BY DEF Installed
  <2>2. Intact(m) /\ FilesHeld(m) \subseteq Paths
    BY <2>1 DEF HInv, RestIntact, FilesHeld, Installed
  <2>3. f \notin FilesHeld(m)
    BY <2>1, <2>2
  <2>4. \A x \in FilesHeld(m) : fs'[x] = fs[x] /\ <<x, m>> \in Owners(idx)'
    BY <1>1, <2>2, <2>3 DEF Intact
  <2> QED BY <2>1, <2>2, <2>4, StaysIntact
<1>3. OneOwner' /\ OwnRecords'
  BY <1>1 DEF HInv, OneOwner, OwnRecords, Installed
<1> QED BY <1>2, <1>3 DEF HInv

LEMMA PathsOfPkgs == \A p \in Pkgs : FilesOf[p] \subseteq Paths /\ NameOf[p] \in Names
BY InstallAssumption

LEMMA UnlinkOldHInv == IInv /\ HInv /\ UnlinkOld => HInv'
<1> SUFFICES ASSUME IInv, HInv, UnlinkOld PROVE HInv'
  OBVIOUS
<1> DEFINE n == NameOf[cur]
<1>1. job.pc = "old files" /\ UNCHANGED <<rec, idx>>
  BY DEF UnlinkOld
<1>2. n \in Names /\ InHand(n) /\ job.pc \in Installing
  BY <1>1, CurInHand DEF Handling
<1>3. Owners(idx)' = Owners(idx)
  BY <1>1, SameOwners
<1>4. CASE job.left = {}
  <2>1. job'.pc = "old lines" /\ job'.queue = job.queue /\ UNCHANGED fs
    BY <1>4, GotoType DEF UnlinkOld, IInv, Pcs
  <2>2. Cleared' /\ cur' = cur
    BY <1>2, <1>3, <2>1, StaysCleared DEF HInv, InRequest, cur
  <2> QED BY <1>1, <2>1, <2>2, JobStep DEF InHand, Leaving, NeverUndone, Handling
<1>5. CASE job.left # {}
  <2>1. PICK f \in job.left : /\ fs' = [fs EXCEPT ![f] = Gone]
                              /\ job' = [job EXCEPT !.left = @ \ {f}]
    BY <1>5 DEF UnlinkOld
  <2>2. job'.pc = job.pc /\ job'.queue = job.queue /\ job'.left \subseteq job.left
    BY <2>1 DEF IInv, Types, Job
  <2>3. Cleared' /\ cur' = cur
    BY <1>2, <1>3, <2>2, StaysCleared DEF HInv, InRequest, cur
  <2>4. <<f, n>> \in Owners(idx) /\ Leaving'
    BY <1>1, <1>3, <2>2, <2>3 DEF HInv, Leaving
  <2>5. \A m \in Names : m # n => f \notin FilesHeld(m) \/ ~Intact(m)
    BY <2>4, FilesApart DEF HInv
  <2>6. InHand(n)' /\ (\A m \in Names : InHand(m) => m = n) /\ NeverUndone'
    BY <1>1, <2>2, <2>3 DEF InHand, NeverUndone, Handling
  <2>7. \A x \in Paths : x # f => fs'[x] = fs[x]
    BY <2>1 DEF IInv, Types
  <2> QED BY <1>1, <1>2, <2>3, <2>4, <2>5, <2>6, <2>7, FileStep, PathsOfPkgs DEF IInv, Types
<1> QED BY <1>4, <1>5

\* A step that takes lines of the package in hand out of the index, or none.
LEMMA LinesStep ==
    ASSUME IInv, HInv, UNCHANGED <<fs, rec>>, NEW n, idx' = idx \/ idx' = WithoutOwner(idx, n),
           \A m \in Names : InHand(m) => InHand(m)',
           n \in Names => InHand(n)', Cleared', Leaving', NeverUndone'
    PROVE  HInv'
<1>1. Owners(idx)' = Owners(idx) \/ Owners(idx)' = {o \in Owners(idx) : o[2] # n}
  <2>1. idx' = WithoutOwner(idx, n) => Owners(idx)' = Owners(WithoutOwner(idx, n))
    BY DEF Owners, LinesOf, NoTab, NoTail, Torn
  <2> QED BY <2>1, SameOwners, OwnersAfterWithout DEF IInv, Types
<1>2. RestIntact'
  <2> SUFFICES ASSUME NEW m \in Names, Installed(m)', ~InHand(m)' PROVE Intact(m)'
    BY DEF RestIntact
  <2>1. m # n /\ Installed(m) /\ Intact(m)
    BY DEF Installed, HInv, RestIntact
  <2>2. \A x \in FilesHeld(m) : <<x, m>> \in Owners(idx)'
    BY <1>1, <2>1 DEF Intact
  <2> QED BY <2>1, <2>2, StaysIntact
<1>3. OneOwner' /\ OwnRecords'
  BY <1>1 DEF HInv, OneOwner, OwnRecords, Installed
<1> QED BY <1>2, <1>3 DEF HInv

LEMMA FewerOwners ==
    ASSUME Types, NEW n, idx' = idx \/ idx' = WithoutOwner(idx, n)
    PROVE  Owners(idx)' \subseteq Owners(idx)
<1>1. idx' = WithoutOwner(idx, n) => Owners(idx)' = Owners(WithoutOwner(idx, n))
  BY DEF Owners, LinesOf, NoTab, NoTail, Torn
<1> QED BY <1>1, SameOwners, OwnersAfterWithout DEF Types

LEMMA UnregisterOldHInv == IInv /\ HInv /\ UnregisterOld => HInv'
<1> SUFFICES ASSUME IInv, HInv, UnregisterOld PROVE HInv'
  OBVIOUS
<1>. PICK n : n = NameOf[cur]
  OBVIOUS
<1>1. /\ job.pc = "old lines" /\ Goto("unpack") /\ UNCHANGED <<fs, rec>>
      /\ idx' = idx \/ idx' = WithoutOwner(idx, n)
  BY DEF UnregisterOld
<1>2. InHand(n) /\ job.pc \in Installing
  BY <1>1, CurInHand DEF Handling
<1>3. job'.pc = "unpack" /\ job'.queue = job.queue /\ cur' = cur
  BY <1>1, GotoType DEF IInv, Pcs, cur
<1>4. Cleared'
  <2>1. Owners(idx)' \subseteq Owners(idx)
    BY <1>1, FewerOwners DEF IInv
  <2> QED BY <1>2, <1>3, <2>1, StaysCleared DEF HInv, InRequest
<1>5. (\A m : InHand(m) => InHand(m)') /\ InHand(n)' /\ Leaving' /\ NeverUndone'
  BY <1>1, <1>3 DEF InHand, Leaving, NeverUndone, Handling
<1> QED BY <1>1, <1>4, <1>5, LinesStep

LEMMA UnpackHInv == Orderly /\ IInv /\ HInv /\ Unpack => HInv'
<1> SUFFICES ASSUME Orderly, IInv, HInv, Unpack PROVE HInv'
  OBVIOUS
<1>1. /\ job.pc = "unpack" /\ UNCHANGED <<fs, rec, idx>>
      /\ job' = [job EXCEPT !.pc = "extract", !.left = FilesOf[cur], !.whole = TRUE]
  BY DEF Unpack, Fault, Orderly, NothingStopsHalfway, disk
<1>2. job'.pc = "extract" /\ job'.whole /\ job'.queue = job.queue /\ cur' = cur
  BY <1>1 DEF IInv, Types, Job, cur
<1>3. Cleared'
  BY <1>1, <1>2, SameOwners, StaysCleared DEF HInv, Installing, Handling, InRequest
<1> QED BY <1>1, <1>2, <1>3, JobStep DEF InHand, Leaving, NeverUndone, Handling

LEMMA ExtractMemberHInv == Orderly /\ IInv /\ HInv /\ ExtractMember => HInv'
<1> SUFFICES ASSUME Orderly, IInv, HInv, ExtractMember PROVE HInv'
  OBVIOUS
<1>1. PICK f \in job.left : dirs' = dirs \cup {DirOf[f]} /\ ExtractTo(f, cur, TRUE)
  BY DEF ExtractMember, Fault, Orderly, NothingStopsHalfway
<1>2. PICK n : n = NameOf[cur]
  OBVIOUS
<1>3. job.pc = "extract" /\ UNCHANGED <<rec, idx>>
  BY DEF ExtractMember
<1>4. /\ cur \in Pkgs /\ n \in Names /\ cur \in InRequest(job.queue)
      /\ FreeFor(cur) /\ InHand(n) /\ job.pc \in Installing
  BY <1>2, <1>3, CurInHand DEF Handling
<1>5. fs' = [fs EXCEPT ![f] = cur]
  BY <1>1 DEF ExtractTo
<1>6. job'.pc = job.pc /\ job'.queue = job.queue /\ job'.whole = job.whole /\ cur' = cur
  BY <1>1, <1>3 DEF ExtractTo, IInv, Types, Job, cur, HInv, NeverUndone
<1>7. f \in FilesOf[cur]
  BY <1>3 DEF IInv, Extracted
<1>8. \A m \in Names : m # n => f \notin FilesHeld(m) \/ ~Intact(m)
  BY <1>2, <1>4, <1>7 DEF FreeFor, Intact
<1>9. Cleared'
  BY <1>3, <1>4, <1>6, SameOwners, StaysCleared DEF HInv, InRequest
<1>10. /\ InHand(n)' /\ (\A m \in Names : InHand(m) => m = n)
       /\ Leaving' /\ NeverUndone'
  BY <1>2, <1>3, <1>6 DEF InHand, Leaving, HInv, NeverUndone, Handling
<1>11. \A x \in Paths : x # f => fs'[x] = fs[x]
  BY <1>5 DEF IInv, Types
<1> QED BY <1>3, <1>4, <1>8, <1>9, <1>10, <1>11, FileStep, PathsOfPkgs DEF IInv, Types

LEMMA ExtractDoneHInv == IInv /\ HInv /\ (ExtractDone \/ RegisterDone) => HInv'
<1> SUFFICES ASSUME IInv, HInv, ExtractDone \/ RegisterDone PROVE HInv'
  OBVIOUS
<1>1. job.pc \in {"extract", "register"} /\ UNCHANGED <<fs, rec, idx>>
  BY DEF ExtractDone, RegisterDone, disk
<1>2. job'.pc \in {"register", "put"} /\ job'.queue = job.queue
  <2>1. CASE ExtractDone
    <3>1. job' = [job EXCEPT !.pc = "register", !.left = FilesOf[cur]]
      BY <2>1 DEF ExtractDone, HInv, NeverUndone
    <3> QED BY <3>1 DEF IInv, Types, Job
  <2>2. CASE RegisterDone
    BY <2>2, GotoType DEF RegisterDone, IInv, Pcs
  <2> QED BY <2>1, <2>2
<1>3. Cleared' /\ cur' = cur
  BY <1>1, <1>2, SameOwners, StaysCleared DEF HInv, Installing, Handling, InRequest, cur
<1> QED BY <1>1, <1>2, <1>3, JobStep DEF InHand, Leaving, NeverUndone, Handling

\* A step that puts lines into the index.
LEMMA MoreLinesStep ==
    ASSUME HInv, UNCHANGED <<fs, rec>>, Owners(idx) \subseteq Owners(idx)',
           \A m \in Names : InHand(m) => InHand(m)',
           OneOwner', Cleared', Leaving', NeverUndone'
    PROVE  HInv'
<1>1. RestIntact'
  <2> SUFFICES ASSUME NEW m \in Names, Installed(m)', ~InHand(m)' PROVE Intact(m)'
    BY DEF RestIntact
  <2>1. Installed(m) /\ Intact(m)
    BY DEF Installed, HInv, RestIntact
  <2>2. \A x \in FilesHeld(m) : <<x, m>> \in Owners(idx)'
    BY <2>1 DEF Intact
  <2> QED BY <2>1, <2>2, StaysIntact
<1>2. OwnRecords'
  BY DEF HInv, OwnRecords, Installed
<1> QED BY <1>1, <1>2 DEF HInv

LEMMA RegisterMemberHInv == Orderly /\ IInv /\ HInv /\ RegisterMember => HInv'
<1> SUFFICES ASSUME Orderly, IInv, HInv, RegisterMember PROVE HInv'
  OBVIOUS
<1>1. PICK f \in job.left : /\ idx' = AppendEntry(idx, f, NameOf[cur], "all")
                           /\ job' = [job EXCEPT !.left = @ \ {f}]
  BY DEF RegisterMember, Fault, Orderly, NothingStopsHalfway
<1> DEFINE n == NameOf[cur]
<1>2. job.pc = "register" /\ UNCHANGED <<fs, rec>>
  BY DEF RegisterMember
<1>3. /\ cur \in Pkgs /\ n \in Names /\ cur \in InRequest(job.queue)
      /\ FreeFor(cur) /\ job.pc \in Installing
  BY <1>2, CurInHand DEF Handling
<1>4. job'.pc = job.pc /\ job'.queue = job.queue /\ cur' = cur
  BY <1>1 DEF IInv, Types, Job, cur
<1>5. f \in FilesOf[cur] /\ f \in Paths
  BY <1>2, <1>3, PathsOfPkgs DEF IInv, Registered
<1>6. Owners(idx)' = Owners(idx) \cup {<<f, n>>}
  <2>1. idx.tail = NoTail
    BY <1>2 DEF IInv, LinesWhole, AppendsWhole, Orderly, NothingStopsHalfway
  <2>2. Owners(idx)' = Owners(idx')
    BY DEF Owners, LinesOf, NoTab, NoTail, Torn
  <2> QED BY <1>1, <1>3, <1>5, <2>1, <2>2, OwnersAfterAppend DEF IInv, Types
<1>7. \A o \in Owners(idx) : o[1] = f => o[2] = n
  BY <1>3, <1>5 DEF FreeFor
<1>8. OneOwner'
  <2>1. Owners(idx)' \in SUBSET (Paths \X Names)
    BY <1>3, <1>5, <1>6 DEF HInv, OneOwner
  <2>2. ASSUME NEW o1 \in Owners(idx)', NEW o2 \in Owners(idx)', o1[1] = o2[1]
        PROVE  o1[2] = o2[2]
    BY <1>6, <1>7, <2>2 DEF HInv, OneOwner
  <2> QED BY <2>1, <2>2 DEF OneOwner
<1>9. Cleared'
  <2>1. Apart(InRequest(job.queue)) /\ \A p \in InRequest(job.queue) : FreeFor(p)
    BY <1>3 DEF HInv, Cleared
  <2>2. InRequest(job.queue)' = InRequest(job.queue)
    BY <1>4 DEF InRequest
  <2>3. ASSUME NEW p \in InRequest(job.queue) PROVE FreeFor(p)'
    <3> SUFFICES ASSUME NEW o \in Owners(idx)', o[1] \in FilesOf[p] PROVE o[2] = NameOf[p]
      BY DEF FreeFor
    <3>1. CASE o \in Owners(idx)
      BY <2>1, <3>1 DEF FreeFor
    <3>2. CASE o = <<f, n>>
      BY <1>3, <1>5, <2>1, <3>2 DEF Apart
    <3> QED BY <1>6, <3>1, <3>2
  <2> QED BY <2>1, <2>2, <2>3 DEF Cleared, Apart
<1>10. (\A m \in Names : InHand(m) => InHand(m)') /\ Leaving' /\ NeverUndone'
  BY <1>2, <1>4 DEF InHand, Leaving, NeverUndone, Handling
<1> QED BY <1>2, <1>6, <1>8, <1>9, <1>10, MoreLinesStep

LEMMA PutHInv == Orderly /\ IInv /\ HInv /\ Put => HInv'
<1> SUFFICES ASSUME Orderly, IInv, HInv, Put PROVE HInv'
  OBVIOUS
<1>. PICK n : n = NameOf[cur]
  OBVIOUS
<1>1. /\ job.pc = "put" /\ UNCHANGED <<fs, idx>> /\ job.queue # <<>>
      /\ rec' = [rec EXCEPT ![n] = cur]
      /\ job' = [job EXCEPT !.pc = "next", !.queue = Tail(@),
                            !.made = {}, !.madeDirs = {}, !.before = None]
  BY DEF Put, Fault, Orderly, NothingStopsHalfway, IInv, Queued, Handling
<1>2. cur \in Pkgs /\ n \in Names /\ job.pc \in Installing /\ cur # None
  BY <1>1, CurInHand, InstallAssumption DEF Handling
<1>3. job'.pc = "next" /\ job'.queue = Tail(job.queue)
  BY <1>1 DEF IInv, Types, Job
<1>4. Owners(idx)' = Owners(idx)
  BY <1>1, SameOwners
<1>5. Cleared'
  <2>1. InRequest(job.queue)' \subseteq InRequest(job.queue)
    BY <1>1, <1>3, QueueParts DEF IInv, InRequest
  <2> QED BY <1>2, <1>4, <2>1, StaysCleared DEF HInv
<1>6. rec'[n] = cur /\ \A m \in Names : m # n => rec'[m] = rec[m]
  BY <1>1, <1>2 DEF IInv, Types
<1>7. Intact(n)'
  <2>1. FilesHeld(n)' = FilesOf[cur]
    BY <1>2, <1>6 DEF FilesHeld, Installed
  <2>2. \A f \in FilesOf[cur] : fs[f] = cur /\ <<f, n>> \in Owners(idx)
    BY <1>1 DEF IInv, Written, Registered, AppendsWhole, Orderly, NothingStopsHalfway
  <2> QED BY <1>1, <1>4, <1>6, <2>1, <2>2 DEF Intact
<1>8. RestIntact'
  <2> SUFFICES ASSUME NEW m \in Names, m # n, Installed(m)' PROVE Intact(m)'
    BY <1>7 DEF RestIntact
  <2>1. Installed(m) /\ Intact(m)
    BY <1>1, <1>6 DEF Installed, HInv, RestIntact, InHand
  <2>2. \A x \in FilesHeld(m) : fs'[x] = fs[x] /\ <<x, m>> \in Owners(idx)'
    BY <1>1, <1>4, <2>1 DEF Intact
  <2> QED BY <1>6, <2>1, <2>2, StaysIntact
<1>9. OwnRecords' /\ OneOwner'
  BY <1>4, <1>6 DEF HInv, OwnRecords, OneOwner, Installed
<1> QED BY <1>3, <1>5, <1>8, <1>9 DEF HInv, Leaving, NeverUndone

LEMMA BeginRemoveHInv == IInv /\ HInv /\ BeginRemove => HInv'
<1> SUFFICES ASSUME IInv, HInv, BeginRemove PROVE HInv'
  OBVIOUS
<1> DEFINE keep == IF job.kind = "del" /\ "purge" \in job.opts THEN {} ELSE ConfigFiles
<1>1. job.pc = "replace" /\ UNCHANGED <<fs, rec, idx>>
  BY DEF BeginRemove, disk
<1>2. CASE job.victims = {} /\ job' = RemovalDone({})
  <2>1. job'.pc \in {"idle", "check"}
    BY <1>2, IdleType DEF RemovalDone, IInv, Types, Job
  <2> QED BY <1>1, <2>1, JobStep DEF InHand, Cleared, Leaving, NeverUndone, Installing, Handling
<1>3. ASSUME NEW n \in job.victims,
             job' = [job EXCEPT !.pc = "rm files", !.victim = n,
                                !.left = FilesOf[rec[n]] \ keep]
      PROVE  HInv'
  <2>1. n \in Names /\ Installed(n)
    BY <1>1 DEF IInv, Types, Job, VictimsInstalled, Removing, Installed
  <2>2. Intact(n)
    BY <1>1, <2>1 DEF HInv, RestIntact, InHand, Handling
  <2> HIDE DEF keep
  <2>3. job'.pc = "rm files" /\ job'.left \subseteq FilesOf[rec[n]] /\ victim' = n
    BY <1>3 DEF IInv, Types, Job, victim
  <2>4. Leaving'
    BY <1>1, <2>1, <2>2, <2>3, SameOwners DEF Leaving, Intact, FilesHeld
  <2> QED BY <1>1, <2>3, <2>4, JobStep DEF InHand, Cleared, NeverUndone, Installing, Handling
<1> QED BY <1>2, <1>3 DEF BeginRemove

LEMMA RemoveFileHInv == IInv /\ HInv /\ RemoveFile => HInv'
<1> SUFFICES ASSUME IInv, HInv, RemoveFile PROVE HInv'
  OBVIOUS
<1>1. job.pc = "rm files" /\ UNCHANGED <<rec, idx>>
  BY DEF RemoveFile
<1>2. CASE job.left = {}
  <2>1. job'.pc = "rm lines" /\ job'.victim = job.victim /\ UNCHANGED fs
    BY <1>2, GotoType DEF RemoveFile, IInv, Pcs
  <2> QED BY <1>1, <2>1, JobStep DEF InHand, victim, Cleared, Leaving, NeverUndone, Installing, Handling
<1>3. CASE job.left # {}
  <2>1. PICK f \in job.left : /\ fs' = [fs EXCEPT ![f] = Gone]
                              /\ job' = [job EXCEPT !.left = @ \ {f}]
    BY <1>3 DEF RemoveFile
  <2>2. PICK n : n = victim
    OBVIOUS
  <2>3. job'.pc = job.pc /\ victim' = n /\ job'.left \subseteq job.left
    BY <2>1, <2>2 DEF IInv, Types, Job, victim
  <2>4. <<f, n>> \in Owners(idx) /\ n \in Names
    BY <1>1, <2>2 DEF HInv, Leaving, OneOwner
  <2>5. Leaving'
    BY <1>1, <2>2, <2>3, SameOwners DEF HInv, Leaving
  <2>6. \A m \in Names : m # n => f \notin FilesHeld(m) \/ ~Intact(m)
    BY <2>4, FilesApart DEF HInv
  <2>7. InHand(n) /\ InHand(n)' /\ (\A m \in Names : InHand(m) => m = n)
    BY <1>1, <2>2, <2>3 DEF InHand, Handling
  <2>8. Cleared' /\ NeverUndone'
    BY <1>1, <2>3 DEF Cleared, NeverUndone, Installing, Handling
  <2>9. \A x \in Paths : x # f => fs'[x] = fs[x]
    BY <2>1 DEF IInv, Types
  <2> QED BY <1>1, <2>4, <2>5, <2>6, <2>7, <2>8, <2>9, FileStep, PathsOfPkgs DEF IInv, Types
<1> QED BY <1>2, <1>3

LEMMA RemoveLinesHInv == IInv /\ HInv /\ RemoveLines => HInv'
<1> SUFFICES ASSUME IInv, HInv, RemoveLines PROVE HInv'
  OBVIOUS
<1>1. PICK n : n = victim
  OBVIOUS
<1>2. /\ job.pc = "rm lines" /\ Goto("rm record") /\ UNCHANGED <<fs, rec>>
      /\ idx' = idx \/ idx' = WithoutOwner(idx, n)
  BY <1>1 DEF RemoveLines
<1>3. job'.pc = "rm record" /\ victim' = n
  BY <1>1, <1>2, GotoType DEF IInv, Pcs, victim
<1>4. /\ \A m \in Names : InHand(m) => InHand(m)'
      /\ InHand(n)' /\ Cleared' /\ Leaving' /\ NeverUndone'
  BY <1>1, <1>2, <1>3 DEF InHand, Cleared, Leaving, NeverUndone, Installing, Handling
<1> QED BY <1>2, <1>4, LinesStep

LEMMA RemoveRecordHInv == Orderly /\ IInv /\ HInv /\ RemoveRecord => HInv'
<1> SUFFICES ASSUME Orderly, IInv, HInv, RemoveRecord PROVE HInv'
  OBVIOUS
<1>1. /\ job.pc = "rm record" /\ UNCHANGED <<fs, idx>>
      /\ rec' = [rec EXCEPT ![victim] = None]
      /\ job' = RemovalDone(job.victims \ {victim})
  BY DEF RemoveRecord, Fault, Orderly, NothingStopsHalfway
<1>2. job'.pc \in {"replace", "check", "idle"}
  BY <1>1, IdleType DEF RemovalDone, IInv, Types, Job
<1>3. \A m \in Names : Installed(m)' => m # victim /\ rec'[m] = rec[m] /\ Installed(m)
  BY <1>1 DEF IInv, Types, Installed
<1>4. Owners(idx)' = Owners(idx)
  BY <1>1, SameOwners
<1>5. RestIntact'
  <2> SUFFICES ASSUME NEW m \in Names, Installed(m)' PROVE Intact(m)'
    BY DEF RestIntact
  <2>1. Installed(m) /\ Intact(m)
    BY <1>1, <1>3 DEF HInv, RestIntact, InHand, Handling
  <2>2. \A x \in FilesHeld(m) : fs'[x] = fs[x] /\ <<x, m>> \in Owners(idx)'
    BY <1>1, <1>4, <2>1 DEF Intact
  <2> QED BY <1>3, <2>1, <2>2, StaysIntact
<1>6. OneOwner' /\ OwnRecords'
  BY <1>3, <1>4 DEF HInv, OneOwner, OwnRecords
<1> QED BY <1>2, <1>5, <1>6 DEF HInv, Cleared, Leaving, NeverUndone, Installing, Handling

LEMMA WorkHInv == Orderly /\ IInv /\ HInv /\ Work => HInv'
<1> SUFFICES ASSUME Orderly, IInv, HInv, Work PROVE HInv'
  OBVIOUS
<1>1. ~(UnregisterNew \/ UndoFile \/ UndoDirs)
  BY DEF UnregisterNew, UndoFile, UndoDirs, HInv, NeverUndone
<1> QED BY <1>1, CheckHInv, NextPackageHInv, VerifyHInv, UnlinkOldHInv, UnregisterOldHInv,
           UnpackHInv, ExtractMemberHInv, ExtractDoneHInv, RegisterMemberHInv, PutHInv,
           BeginRemoveHInv, RemoveFileHInv, RemoveLinesHInv, RemoveRecordHInv DEF Work

LEMMA NextHInv == Orderly /\ IInv /\ HInv /\ [Next]_vars => HInv'
<1> SUFFICES ASSUME Orderly, IInv, HInv, [Next]_vars PROVE HInv'
  OBVIOUS
<1>1. CASE UNCHANGED vars
  <2>1. UNCHANGED <<fs, rec, idx, job>>
    BY <1>1 DEF vars
  <2>2. Owners(idx)' = Owners(idx) /\ InRequest(job.queue)' = InRequest(job.queue) /\ cur' = cur
    BY <2>1, SameOwners DEF InRequest, cur
  <2>3. Cleared'
    BY <2>1, <2>2 DEF HInv, Cleared, Apart, FreeFor
  <2>4. Leaving' /\ NeverUndone' /\ \A n \in Names : InHand(n) => InHand(n)'
    BY <2>1, <2>2 DEF HInv, Leaving, NeverUndone, InHand, victim
  <2>5. UNCHANGED <<fs, rec, idx>>
    BY <2>1
  <2> QED BY <2>3, <2>4, <2>5, JobStep
<1>2. CASE \E ps \in AddRequests, opts \in SUBSET (Flags \ {"purge"}) :
             \E order \in Orders(ps) : Add(ps, order, opts)
  BY <1>2, AddHInv
<1>3. CASE \E ns \in SUBSET Names, opts \in SUBSET (Flags \ {"no_deps"}) : Del(ns, opts)
  BY <1>3, DelHInv
<1>4. ~Crash
  BY DEF Crash, Fault, Orderly, NothingStopsHalfway
<1> QED BY <1>1, <1>2, <1>3, <1>4, WorkHInv DEF Next

LEMMA SpecHInv == ASSUME Orderly PROVE Spec => [](IInv /\ HInv)
BY InitIInv, NextIInv, InitHInv, NextHInv, PTL DEF Spec

-----------------------------------------------------------------------------
\* install.rs:128 "two packages cannot both own one path".
THEOREM PathsHaveOneOwner == ASSUME Orderly PROVE Spec => []ExclusiveOwnership
<1>1. HInv => ExclusiveOwnership
  <2> SUFFICES ASSUME HInv, IsIdle, NEW m \in Names, NEW n \in Names, m # n,
                      NEW f \in FilesHeld(m) \cap FilesHeld(n)
               PROVE  FALSE
    BY DEF ExclusiveOwnership
  <2>1. Installed(m) /\ Installed(n)
    BY DEF FilesHeld
  <2>2. Intact(m) /\ Intact(n)
    BY <2>1 DEF HInv, RestIntact, InHand, IsIdle, Handling
  <2> QED BY <2>2 DEF Intact, HInv, OneOwner
<1> QED BY <1>1, SpecHInv, PTL

\* What a step changes of a file: it is the package's that is in hand, or nobody's.
LEMMA OwnFilesStep ==
    ASSUME IInv, HInv, [Next]_vars, NEW f \in Paths, fs'[f] # fs[f]
    PROVE  FileOwner(idx, f) \in {NoOwner, Working}
<1>1. \A o \in Owners(idx) : FileOwner(idx, o[1]) = o[2]
  BY TheOwner DEF IInv, HInv
<1>2. CASE UnlinkOld
  <2>1. f \in job.left /\ job.pc = "old files"
    BY <1>2 DEF UnlinkOld, IInv, Types
  <2>2. <<f, NameOf[cur]>> \in Owners(idx)
    BY <2>1 DEF HInv, Leaving
  <2> QED BY <1>1, <2>1, <2>2 DEF Working
<1>3. CASE RemoveFile
  <2>1. f \in job.left /\ job.pc = "rm files"
    BY <1>3 DEF RemoveFile, IInv, Types
  <2>2. <<f, victim>> \in Owners(idx)
    BY <2>1 DEF HInv, Leaving
  <2> QED BY <1>1, <2>1, <2>2 DEF Working
<1>4. CASE ExtractMember
  <2>1. f \in job.left /\ job.pc = "extract"
    BY <1>4 DEF ExtractMember, ExtractTo, IInv, Types
  <2>2. f \in FilesOf[cur] /\ FreeFor(cur)
    BY <2>1, CurInHand DEF IInv, Extracted, Handling
  <2>3. CASE <<f, FileOwner(idx, f)>> \in Owners(idx)
    BY <2>1, <2>2, <2>3 DEF FreeFor, Working
  <2> QED BY <2>3, FileOwnerIsAnOwner DEF IInv, Types
<1>5. ~(UndoFile \/ UndoDirs)
  BY DEF UndoFile, UndoDirs, HInv, NeverUndone
<1>6. ~UNCHANGED fs
  OBVIOUS
<1> QED BY <1>2, <1>3, <1>4, <1>5, <1>6
        DEF Next, Work, vars, disk, Add, Del, Crash, Check, AddDone, VerifyFails, Verify,
            UnregisterOld, Unpack, ExtractDone, RegisterMember, RegisterDone, Put,
            UnregisterNew, BeginRemove, RemoveLines, RemoveRecord

\* Without --force, a file that is registered is overwritten or unlinked only while
\* its own package is upgraded or removed (check_file_conflicts, install.rs).
THEOREM NobodyElsesFiles == ASSUME Orderly PROVE Spec => OthersFilesAreSafe
<1>1. IInv /\ HInv /\ [Next]_vars =>
        [\A f \in Paths : fs'[f] # fs[f] => FileOwner(idx, f) \in {NoOwner, Working}]_vars
  BY OwnFilesStep
<1> QED BY <1>1, SpecHInv, PTL DEF Spec, OthersFilesAreSafe

-----------------------------------------------------------------------------
(* What each action does to the process.                                   *)

Same(j) == j.opts = job.opts /\ j.kind = job.kind /\ j.victims = job.victims /\ j.victim = job.victim
SameMade(j) == j.made = job.made /\ j.madeDirs = job.madeDirs /\ j.before = job.before
SameDisk == fs' = fs /\ dirs' = dirs /\ rec' = rec /\ idx' = idx

LEMMA IdleDoes == /\ Idle.pc = "idle" /\ Idle.queue = <<>> /\ Idle.opts = {} /\ Idle.victims = {}
                  /\ Idle.made = {} /\ Idle.madeDirs = {}
BY DEF Idle

LEMMA AddDoes ==
    ASSUME NEW ps, NEW order, NEW opts, Add(ps, order, opts)
    PROVE  /\ job.pc = "idle" /\ SameDisk /\ job'.pc = "replace" /\ job'.kind = "add"
           /\ job'.opts = opts /\ job'.queue = order /\ job'.made = {} /\ job'.madeDirs = {}
           /\ job'.victims = {n \in UNION {ReplacesOf[p] : p \in ps} \ NamesOf(ps) : Installed(n)}
           /\ order \in Orders(ps) /\ ("no_deps" \in opts \/ Resolved(order))
BY DEF Add, Idle, SameDisk, disk

LEMMA DelDoes ==
    ASSUME NEW ns, NEW opts, Del(ns, opts)
    PROVE  /\ job.pc = "idle" /\ SameDisk /\ job'.pc = "replace" /\ job'.kind = "del"
           /\ job'.opts = opts /\ job'.queue = <<>> /\ job'.made = {} /\ job'.madeDirs = {}
           /\ job'.victims = ns
           /\ ("force" \in opts \/ \A n \in ns : Dependents(n) \subseteq ns)
BY DEF Del, Idle, SameDisk, disk

LEMMA CheckDoes ==
    ASSUME Types, Check
    PROVE  /\ job.pc = "check" /\ SameDisk
           /\ \/ job' = Idle
              \/ /\ ~Refused(InRequest(job.queue), "force" \in job.opts)
                 /\ job'.pc = "next" /\ job'.queue = job.queue /\ Same(job') /\ SameMade(job')
BY DEF Check, SameDisk, disk, Types, Job, Same, SameMade

LEMMA AddDoneDoes ==
    ASSUME AddDone
    PROVE  job.pc = "next" /\ SameDisk /\ job' = Idle
BY DEF AddDone, SameDisk, disk

LEMMA VerifyFailsDoes ==
    ASSUME Types, VerifyFails
    PROVE  /\ job.pc = "next" /\ SameDisk /\ job'.pc = "next" /\ job.queue # <<>>
           /\ job'.queue = Tail(job.queue) /\ Same(job') /\ SameMade(job')
           /\ "verify" \in Faults
BY DEF VerifyFails, SameDisk, disk, Types, Job, Same, SameMade, Fault

LEMMA VerifyDoes ==
    ASSUME Types, Verify
    PROVE  /\ job.pc = "next" /\ SameDisk /\ job.queue # <<>> /\ job'.queue = job.queue
           /\ job'.pc = IF Installed(NameOf[cur]) THEN "old files" ELSE "unpack"
           /\ Same(job') /\ job'.made = job.made /\ job'.madeDirs = job.madeDirs
           /\ job'.before = Snapshot /\ cur' = cur
BY DEF Verify, SameDisk, disk, Types, Job, Same, cur

LEMMA UnlinkOldDoes ==
    ASSUME Types, UnlinkOld
    PROVE  /\ job.pc = "old files" /\ dirs' = dirs /\ rec' = rec /\ idx' = idx
           /\ job'.pc \in {"old files", "old lines"} /\ job'.queue = job.queue
           /\ Same(job') /\ SameMade(job') /\ cur' = cur
           /\ fs' = fs \/ \E f \in job.left : fs' = [fs EXCEPT ![f] = Gone]
<1>1. CASE job.left = {}
  BY <1>1 DEF UnlinkOld, Goto, Types, Job, Same, SameMade, cur
<1>2. CASE job.left # {}
  <2>1. PICK f \in job.left : fs' = [fs EXCEPT ![f] = Gone] /\ job' = [job EXCEPT !.left = @ \ {f}]
    BY <1>2 DEF UnlinkOld
  <2> QED BY <2>1 DEF UnlinkOld, Types, Job, Same, SameMade, cur
<1> QED BY <1>1, <1>2

LEMMA GotoDoes ==
    ASSUME Types, NEW pc, Goto(pc)
    PROVE  /\ job'.pc = pc /\ job'.queue = job.queue /\ job'.left = job.left
           /\ Same(job') /\ SameMade(job') /\ cur' = cur
BY DEF Goto, Types, Job, Same, SameMade, cur

LEMMA UnregisterOldDoes ==
    ASSUME Types, UnregisterOld
    PROVE  /\ job.pc = "old lines" /\ fs' = fs /\ dirs' = dirs /\ rec' = rec
           /\ job'.pc = "unpack" /\ job'.queue = job.queue
           /\ Same(job') /\ SameMade(job') /\ cur' = cur
           /\ \/ idx' = WithoutOwner(idx, NameOf[cur])
              \/ idx' = idx /\ "unregister" \in Faults
BY GotoDoes DEF UnregisterOld, Fault

LEMMA UnpackDoes ==
    ASSUME Types, Unpack
    PROVE  /\ job.pc = "unpack" /\ SameDisk
           /\ \/ job' = Idle
              \/ /\ job'.pc = "extract" /\ job'.queue = job.queue /\ cur' = cur
                 /\ job'.left = FilesOf[cur] /\ Same(job') /\ SameMade(job')
BY DEF Unpack, SameDisk, disk, Types, Job, Same, SameMade, cur

LEMMA ExtractMemberDoes ==
    ASSUME Types, ExtractMember
    PROVE  /\ job.pc = "extract" /\ rec' = rec /\ idx' = idx
           /\ job'.pc = "extract" /\ job'.queue = job.queue /\ Same(job') /\ cur' = cur
           /\ job'.before = job.before
           /\ \E f \in job.left :
                /\ \/ fs' = fs /\ job'.made = job.made
                   \/ /\ \E b : fs' = [fs EXCEPT ![f] = b]
                      /\ DirOf[f] \in dirs' /\ job'.made = job.made \cup {f}
                /\ dirs' \in {dirs, dirs \cup {DirOf[f]}}
                /\ job'.madeDirs = job.madeDirs \cup (dirs' \ dirs)
<1>1. PICK f \in job.left, b \in {cur, Broken, Gone}, o \in BOOLEAN :
        /\ ExtractTo(f, b, o) /\ dirs' \in {dirs, dirs \cup {DirOf[f]}}
        /\ o => DirOf[f] \in dirs'
  BY DEF ExtractMember
<1>2. /\ job'.pc = job.pc /\ job'.queue = job.queue /\ Same(job') /\ cur' = cur
      /\ job'.made = (IF o THEN job.made \cup {f} ELSE job.made) /\ job'.before = job.before
      /\ job'.madeDirs = job.madeDirs \cup (dirs' \ dirs)
  BY <1>1 DEF ExtractTo, Types, Job, Same, cur
<1>3. fs' = IF o THEN [fs EXCEPT ![f] = b] ELSE fs
  BY <1>1 DEF ExtractTo
<1> QED BY <1>1, <1>2, <1>3 DEF ExtractMember

LEMMA ExtractDoneDoes ==
    ASSUME Types, ExtractDone
    PROVE  /\ job.pc = "extract" /\ SameDisk /\ job'.queue = job.queue
           /\ Same(job') /\ SameMade(job') /\ cur' = cur
           /\ \/ job'.pc = "register" /\ job'.left = FilesOf[cur]
              \/ job'.pc = "undo"
BY DEF ExtractDone, SameDisk, disk, Types, Job, Same, SameMade, cur

LEMMA RegisterMemberDoes ==
    ASSUME Types, RegisterMember
    PROVE  /\ job.pc = "register" /\ fs' = fs /\ dirs' = dirs /\ rec' = rec
           /\ job'.queue = job.queue /\ Same(job') /\ SameMade(job') /\ cur' = cur
           /\ job'.pc \in {"register", "unregister"}
           /\ \E f \in job.left, cut \in Cuts :
                /\ idx' = AppendEntry(idx, f, NameOf[cur], cut)
                /\ cut = "all" \/ Faults \cap {"register", "torn"} # {}
<1>1. PICK f \in job.left : \/ /\ idx' = AppendEntry(idx, f, NameOf[cur], "all")
                               /\ job' = [job EXCEPT !.left = @ \ {f}]
                            \/ /\ idx' = idx /\ "register" \in Faults
                               /\ job' = [job EXCEPT !.pc = "unregister", !.left = {}]
                            \/ /\ \E cut \in Cuts : idx' = AppendEntry(idx, f, NameOf[cur], cut)
                               /\ "torn" \in Faults
                               /\ job' = [job EXCEPT !.pc = "unregister", !.left = {}]
  BY DEF RegisterMember, Fault
<1>2. AppendEntry(idx, f, NameOf[cur], "nothing") = idx
  BY DEF AppendEntry
<1>3. /\ job.pc = "register" /\ fs' = fs /\ dirs' = dirs /\ rec' = rec
  BY DEF RegisterMember
<1>4. /\ job'.queue = job.queue /\ Same(job') /\ SameMade(job') /\ cur' = cur
      /\ job'.pc \in {"register", "unregister"}
  BY <1>1, <1>3 DEF Types, Job, Same, SameMade, cur
<1>5. \E cut \in Cuts : /\ idx' = AppendEntry(idx, f, NameOf[cur], cut)
                        /\ cut = "all" \/ Faults \cap {"register", "torn"} # {}
  BY <1>1, <1>2 DEF Cuts
<1> QED BY <1>3, <1>4, <1>5

LEMMA RegisterDoneDoes ==
    ASSUME Types, RegisterDone
    PROVE  /\ job.pc = "register" /\ SameDisk /\ job'.pc = "put" /\ job'.queue = job.queue
           /\ Same(job') /\ SameMade(job') /\ cur' = cur
BY GotoDoes DEF RegisterDone, SameDisk, disk

LEMMA PutDoes ==
    ASSUME Types, Put
    PROVE  /\ job.pc = "put" /\ fs' = fs /\ dirs' = dirs /\ idx' = idx /\ Same(job')
           /\ \/ /\ rec' = [rec EXCEPT ![NameOf[cur]] = cur]
                 /\ job'.pc = "next" /\ job'.queue = Tail(job.queue)
                 /\ job'.made = {} /\ job'.madeDirs = {}
              \/ /\ rec' = rec /\ job'.pc = "unregister" /\ job'.queue = job.queue
                 /\ SameMade(job') /\ cur' = cur /\ "put" \in Faults
<1>1. CASE NoFault
  <2>1. /\ rec' = [rec EXCEPT ![NameOf[cur]] = cur]
        /\ job' = [job EXCEPT !.pc = "next", !.queue = Tail(@),
                              !.made = {}, !.madeDirs = {}, !.before = None]
    BY <1>1 DEF Put, Fault, NoFault, Types
  <2> QED BY <2>1 DEF Put, Types, Job, Same
<1>2. CASE Fault("put") /\ rec' = rec /\ Goto("unregister")
  BY <1>2, GotoDoes DEF Put, Fault
<1> QED BY <1>1, <1>2 DEF Put

LEMMA UnregisterNewDoes ==
    ASSUME Types, UnregisterNew
    PROVE  /\ job.pc = "unregister" /\ fs' = fs /\ dirs' = dirs /\ rec' = rec
           /\ job'.pc = "undo" /\ job'.queue = job.queue
           /\ Same(job') /\ SameMade(job') /\ cur' = cur
           /\ \/ idx' = WithoutOwner(idx, NameOf[cur])
              \/ idx' = idx /\ "unregister" \in Faults
BY GotoDoes DEF UnregisterNew, Fault

LEMMA UndoFileDoes ==
    ASSUME Types, UndoFile
    PROVE  /\ job.pc = "undo" /\ dirs' = dirs /\ rec' = rec /\ idx' = idx
           /\ job'.pc = "undo" /\ job'.queue = job.queue /\ Same(job') /\ cur' = cur
           /\ job'.before = job.before /\ job'.madeDirs = job.madeDirs
           /\ \E f \in job.made : fs' = [fs EXCEPT ![f] = Gone] /\ job'.made = job.made \ {f}
BY DEF UndoFile, Types, Job, Same, cur

LEMMA UndoDirsDoes ==
    ASSUME UndoDirs
    PROVE  /\ job.pc = "undo" /\ job.made = {} /\ fs' = fs /\ rec' = rec /\ idx' = idx
           /\ job' = Idle
           /\ dirs' = {d \in dirs : \/ d \notin job.madeDirs
                                    \/ \E f \in Paths : DirOf[f] = d /\ fs[f] # Gone}
BY DEF UndoDirs

LEMMA RemovalDoneDoes ==
    ASSUME Types, NEW vs, job' = RemovalDone(vs)
    PROVE  /\ vs # {} => /\ job'.pc = "replace" /\ job'.queue = job.queue /\ job'.victims = vs
                         /\ job'.opts = job.opts /\ job'.kind = job.kind /\ SameMade(job')
           /\ vs = {} /\ job.kind = "add" =>
                /\ job'.pc = "check" /\ job'.queue = job.queue /\ job'.victims = {}
                /\ job'.opts = job.opts /\ job'.kind = job.kind /\ SameMade(job')
           /\ vs = {} /\ job.kind # "add" => job' = Idle
BY DEF RemovalDone, Types, Job, SameMade

LEMMA BeginRemoveDoes ==
    ASSUME Types, BeginRemove
    PROVE  /\ job.pc = "replace" /\ SameDisk
           /\ \/ job.victims = {} /\ job' = RemovalDone({})
              \/ /\ job'.pc = "rm files" /\ job'.queue = job.queue /\ SameMade(job')
                 /\ job'.opts = job.opts /\ job'.kind = job.kind /\ job'.victims = job.victims
                 /\ job'.victim \in job.victims
<1> DEFINE keep == IF job.kind = "del" /\ "purge" \in job.opts THEN {} ELSE ConfigFiles
<1>1. CASE job.victims = {} /\ job' = RemovalDone({})
  BY <1>1 DEF BeginRemove, SameDisk, disk
<1>2. ASSUME NEW n \in job.victims,
             job' = [job EXCEPT !.pc = "rm files", !.victim = n, !.left = FilesOf[rec[n]] \ keep]
      PROVE  /\ job'.pc = "rm files" /\ job'.queue = job.queue /\ SameMade(job')
             /\ job'.opts = job.opts /\ job'.kind = job.kind /\ job'.victims = job.victims
             /\ job'.victim \in job.victims
  BY <1>2 DEF Types, Job, SameMade
<1> QED BY <1>1, <1>2 DEF BeginRemove, SameDisk, disk

LEMMA RemoveFileDoes ==
    ASSUME Types, RemoveFile
    PROVE  /\ job.pc = "rm files" /\ dirs' = dirs /\ rec' = rec /\ idx' = idx
           /\ job'.pc \in {"rm files", "rm lines"} /\ job'.queue = job.queue
           /\ Same(job') /\ SameMade(job')
           /\ fs' = fs \/ \E f \in job.left : fs' = [fs EXCEPT ![f] = Gone]
<1>1. CASE job.left = {}
  BY <1>1, GotoDoes DEF RemoveFile
<1>2. CASE job.left # {}
  <2>1. PICK f \in job.left : fs' = [fs EXCEPT ![f] = Gone] /\ job' = [job EXCEPT !.left = @ \ {f}]
    BY <1>2 DEF RemoveFile
  <2> QED BY <2>1 DEF RemoveFile, Types, Job, Same, SameMade
<1> QED BY <1>1, <1>2

LEMMA RemoveLinesDoes ==
    ASSUME Types, RemoveLines
    PROVE  /\ job.pc = "rm lines" /\ fs' = fs /\ dirs' = dirs /\ rec' = rec
           /\ job'.pc = "rm record" /\ job'.queue = job.queue /\ Same(job') /\ SameMade(job')
           /\ \/ idx' = WithoutOwner(idx, victim)
              \/ idx' = idx /\ "unregister" \in Faults
BY GotoDoes DEF RemoveLines, Fault

LEMMA RemoveRecordDoes ==
    ASSUME Types, RemoveRecord
    PROVE  /\ job.pc = "rm record" /\ fs' = fs /\ dirs' = dirs /\ idx' = idx
           /\ \/ rec' = [rec EXCEPT ![victim] = None]
              \/ rec' = rec /\ "delete" \in Faults
           /\ \/ job' = RemovalDone(job.victims \ {victim})
              \/ job' = Idle /\ rec' = rec /\ "delete" \in Faults
BY DEF RemoveRecord, Fault

LEMMA CrashDoes ==
    ASSUME Types, Crash
    PROVE  SameDisk /\ job' = Idle /\ faults' # faults /\ "crash" \in Faults
BY InstallAssumption DEF Crash, SameDisk, disk, Fault, Types

-----------------------------------------------------------------------------
(* Nothing is installed next to what it conflicts with.                    *)

\* What is assumed of a request: no two of its packages conflict with each other,
\* which install_packages does not look at.
Compatible(ps) == \A p, q \in ps : p # q => ConflictsOf[p] \cap ({NameOf[q]} \cup ProvidesOf[q]) = {}
CompatibleRequests == \A ps \in AddRequests : Compatible(ps)

Distinct(q) == \A i, j \in DOMAIN q : q[i] = q[j] => i = j
Unopposed(p) == \A c \in ConflictsOf[p] : ~Installed(c) /\ Providers(c) = {}
CInv ==
    /\ Distinct(job.queue) /\ Compatible(InRequest(job.queue))
    /\ job.pc \in Installing /\ job.opts = {} => \A p \in InRequest(job.queue) : Unopposed(p)

\* An order of n packages has none of them twice.
LEMMA OrdersAreDistinct ==
    ASSUME NEW ps, IsFiniteSet(ps), NEW order \in Orders(ps)
    PROVE  Distinct(order) /\ InRequest(order) = ps /\ order \in Seq(ps)
<1> DEFINE n == Cardinality(ps)
<1>1. n \in Nat
  BY FS_CardinalityType
<1>2. order \in [1..n -> ps] /\ InRequest(order) = ps
  BY DEF Orders
<1>3. IsFiniteSet(1..n) /\ Cardinality(1..n) = n
  BY <1>1, FS_Interval
<1>4. order \in Surjection(1..n, ps)
  BY <1>2 DEF Surjection, InRequest
<1>5. order \in Injection(1..n, ps)
  BY <1>3, <1>4, FS_Surjection
<1>6. Distinct(order)
  BY <1>2, <1>5 DEF Injection, IsInjective, Distinct
<1> QED BY <1>1, <1>2, <1>6

LEMMA TailIsDistinct ==
    ASSUME Types, job.queue # <<>>, Distinct(job.queue)
    PROVE  /\ Distinct(Tail(job.queue)) /\ cur \notin InRequest(Tail(job.queue))
           /\ InRequest(Tail(job.queue)) \subseteq InRequest(job.queue)
<1>1. job.queue \in Seq(Pkgs)
  BY DEF Types, Job
<1>2. cur = job.queue[1] /\ 1 \in DOMAIN job.queue
  BY <1>1 DEF cur
<1>3. \A i \in DOMAIN Tail(job.queue) :
        i + 1 \in DOMAIN job.queue /\ i \in Nat \ {0} /\ Tail(job.queue)[i] = job.queue[i + 1]
  BY <1>1
<1> QED BY <1>2, <1>3, QueueParts DEF InRequest, Distinct

\* A step that keeps the records, and of the queue what is there.
LEMMA CStep ==
    ASSUME CInv, rec' = rec, Distinct(job'.queue),
           InRequest(job'.queue) \subseteq InRequest(job.queue),
           job'.pc \in Installing => /\ job.pc \in Installing
                                     /\ job'.opts = job.opts
    PROVE  CInv'
<1>1. \A p : Unopposed(p)' = Unopposed(p)
  BY DEF Unopposed, Installed, Providers
<1> QED BY <1>1 DEF CInv, Compatible, InRequest

LEMMA InitCInv == Init => CInv
<1> SUFFICES ASSUME Init PROVE CInv
  OBVIOUS
<1>1. job.queue = <<>> /\ job.pc = "idle"
  BY IdleDoes DEF Init
<1> QED BY <1>1 DEF CInv, Distinct, Compatible, InRequest, Installing, Handling

LEMMA IdleCInv == CInv /\ rec' = rec /\ job' = Idle => CInv'
<1> SUFFICES ASSUME CInv, rec' = rec, job' = Idle PROVE CInv'
  OBVIOUS
<1>1. job'.queue = <<>> /\ job'.pc = "idle"
  BY IdleDoes
<1> QED BY <1>1, CStep DEF Distinct, InRequest, Installing, Handling

LEMMA CheckCInv == IInv /\ CInv /\ Check => CInv'
<1> SUFFICES ASSUME IInv, CInv, Check PROVE CInv'
  OBVIOUS
<1>1. CASE job' = Idle
  BY <1>1, IdleCInv, CheckDoes DEF IInv, SameDisk
<1>2. CASE job' # Idle
  <2>1. /\ job'.queue = job.queue /\ job'.opts = job.opts /\ rec' = rec
        /\ ~Refused(InRequest(job.queue), "force" \in job.opts)
    BY <1>2, CheckDoes DEF IInv, SameDisk, Same
  <2>2. job.opts = {} => \A p \in InRequest(job.queue) : Unopposed(p)
    BY <2>1 DEF Refused, ActiveConflict, Unopposed
  <2>3. \A p : Unopposed(p)' = Unopposed(p)
    BY <2>1 DEF Unopposed, Installed, Providers
  <2> QED BY <2>1, <2>2, <2>3 DEF CInv, Compatible, InRequest
<1> QED BY <1>1, <1>2

LEMMA VerifyFailsCInv == IInv /\ CInv /\ VerifyFails => CInv'
BY VerifyFailsDoes, TailIsDistinct, CStep DEF IInv, CInv, SameDisk, Same, Installing

LEMMA PutCInv == IInv /\ CInv /\ Put => CInv'
<1> SUFFICES ASSUME IInv, CInv, Put PROVE CInv'
  OBVIOUS
<1>1. job.pc = "put" /\ job'.opts = job.opts /\ job.queue # <<>>
  BY PutDoes DEF IInv, Same, Queued, Handling
<1>2. CASE rec' = rec /\ job'.queue = job.queue
  BY <1>1, <1>2, CStep DEF CInv, Installing, Handling
<1>3. CASE rec' = [rec EXCEPT ![NameOf[cur]] = cur] /\ job'.queue = Tail(job.queue)
  <2>1. cur \in Pkgs /\ NameOf[cur] \in Names /\ cur \in InRequest(job.queue)
    BY <1>1, CurType, QueueParts DEF IInv
  <2>2. /\ Distinct(job'.queue) /\ cur \notin InRequest(job'.queue)
        /\ InRequest(job'.queue) \subseteq InRequest(job.queue)
    BY <1>1, <1>3, TailIsDistinct DEF IInv, CInv
  <2>3. ASSUME NEW p \in InRequest(job'.queue), Unopposed(p) PROVE Unopposed(p)'
    <3> SUFFICES ASSUME NEW c \in ConflictsOf[p] PROVE ~Installed(c)' /\ Providers(c)' = {}
      BY DEF Unopposed
    <3>1. c # NameOf[cur] /\ c \notin ProvidesOf[cur]
      BY <2>1, <2>2 DEF CInv, Compatible
    <3>2. ~Installed(c) /\ Providers(c) = {}
      BY <2>3 DEF Unopposed
    <3>3. rec'[c] = rec[c]
      BY <1>3, <3>1 DEF IInv, Types
    <3>4. \A n \in Names : rec'[n] = rec[n] \/ rec'[n] = cur
      BY <1>3 DEF IInv, Types
    <3> QED BY <3>1, <3>2, <3>3, <3>4 DEF Installed, Providers
  <2>4. job'.pc \in Installing /\ job'.opts = {} => \A p \in InRequest(job'.queue) : Unopposed(p)'
    BY <1>1, <2>2, <2>3 DEF CInv, Installing, Handling
  <2> QED BY <2>2, <2>4 DEF CInv, Compatible, InRequest
<1> QED BY <1>2, <1>3, PutDoes DEF IInv

LEMMA RemovalCInv == IInv /\ CInv /\ (BeginRemove \/ RemoveFile \/ RemoveLines \/ RemoveRecord) => CInv'
<1> SUFFICES ASSUME IInv, CInv, BeginRemove \/ RemoveFile \/ RemoveLines \/ RemoveRecord PROVE CInv'
  OBVIOUS
<1>1. ASSUME NEW vs, job' = RemovalDone(vs)
      PROVE  job'.queue \in {<<>>, job.queue} /\ job'.pc \notin Installing
  BY <1>1, RemovalDoneDoes, IdleDoes DEF IInv, Installing, Handling
<1>2. job'.queue \in {<<>>, job.queue} /\ job'.pc \notin Installing
  BY <1>1, BeginRemoveDoes, RemoveFileDoes, RemoveLinesDoes, RemoveRecordDoes, IdleDoes
     DEF IInv, Installing, Handling
<1> QED BY <1>2 DEF CInv, Distinct, Compatible, InRequest

LEMMA NextCInv == CompatibleRequests /\ IInv /\ CInv /\ [Next]_vars => CInv'
<1> SUFFICES ASSUME CompatibleRequests, IInv, CInv, [Next]_vars PROVE CInv'
  OBVIOUS
<1>1. CASE UNCHANGED vars
  BY <1>1, CStep DEF vars, CInv
<1>2. ASSUME NEW ps \in AddRequests, NEW opts, NEW order, Add(ps, order, opts) PROVE CInv'
  <2>1. order \in Orders(ps) /\ job'.pc = "replace" /\ job'.queue = order
    BY <1>2, AddDoes
  <2>2. IsFiniteSet(ps) /\ Compatible(ps)
    BY <1>2, InstallAssumption DEF CompatibleRequests
  <2>3. Distinct(order) /\ InRequest(order) = ps
    BY <2>1, <2>2, OrdersAreDistinct
  <2>4. Distinct(job'.queue) /\ InRequest(job'.queue) = ps
    BY <2>1, <2>3
  <2> QED BY <2>1, <2>2, <2>4 DEF CInv, Compatible, InRequest, Distinct, Installing, Handling
<1>3. ASSUME NEW ns, NEW opts, Del(ns, opts) PROVE CInv'
  <2>1. job'.queue = <<>> /\ job'.pc = "replace"
    BY <1>3, DelDoes
  <2>2. Distinct(job'.queue) /\ InRequest(job'.queue) = {}
    BY <2>1 DEF Distinct, InRequest
  <2> QED BY <2>1, <2>2 DEF CInv, Distinct, Compatible, InRequest, Installing, Handling
<1>4. CASE UnlinkOld \/ UnregisterOld \/ ExtractMember \/ ExtractDone
           \/ RegisterMember \/ RegisterDone \/ UnregisterNew \/ UndoFile
  BY <1>4, CStep, UnlinkOldDoes, UnregisterOldDoes, ExtractMemberDoes, ExtractDoneDoes,
     RegisterMemberDoes, RegisterDoneDoes, UnregisterNewDoes, UndoFileDoes
     DEF IInv, CInv, SameDisk, Same, Installing, Handling
<1>5. CASE Verify \/ Unpack
  BY <1>5, CStep, IdleCInv, VerifyDoes, UnpackDoes
     DEF IInv, CInv, SameDisk, Same, Installing, Handling
<1>6. CASE AddDone \/ UndoDirs \/ Crash
  BY <1>6, IdleCInv, AddDoneDoes, UndoDirsDoes, CrashDoes DEF IInv, SameDisk
<1> QED BY <1>1, <1>2, <1>3, <1>4, <1>5, <1>6, CheckCInv, VerifyFailsCInv, PutCInv, RemovalCInv
        DEF Next, Work

LEMMA PutMakesRecords ==
    ASSUME IInv, [Next]_vars, NEW n \in Names, rec'[n] # rec[n], rec'[n] # None
    PROVE  /\ job.pc = "put" /\ job.queue # <<>> /\ n = NameOf[cur]
           /\ rec' = [rec EXCEPT ![n] = cur] /\ idx' = idx /\ fs' = fs
<1>1. rec' # rec
  OBVIOUS
<1>2. CASE Put
  BY <1>1, <1>2, PutDoes DEF IInv, Types, Queued, Handling
<1>3. CASE RemoveRecord
  BY <1>1, <1>3, RemoveRecordDoes DEF IInv, Types
<1>4. ASSUME NEW ps, NEW opts, NEW order, Add(ps, order, opts) PROVE FALSE
  BY <1>1, <1>4, AddDoes DEF SameDisk
<1>5. ASSUME NEW ns, NEW opts, Del(ns, opts) PROVE FALSE
  BY <1>1, <1>5, DelDoes DEF SameDisk
<1> QED BY <1>1, <1>2, <1>3, <1>4, <1>5, CheckDoes, AddDoneDoes, VerifyFailsDoes, VerifyDoes, UnlinkOldDoes,
     UnregisterOldDoes, UnpackDoes, ExtractMemberDoes, ExtractDoneDoes, RegisterMemberDoes,
     RegisterDoneDoes, UnregisterNewDoes, UndoFileDoes, UndoDirsDoes, BeginRemoveDoes,
     RemoveFileDoes, RemoveLinesDoes, CrashDoes DEF Next, Work, vars, SameDisk, IInv

LEMMA RecordsAreUnopposed ==
    ASSUME IInv, CInv, [Next]_vars, NEW n \in Names, rec'[n] # rec[n], rec'[n] # None, job.opts = {}
    PROVE  \A c \in ConflictsOf[rec'[n]] : ~Installed(c) /\ Providers(c) = {}
<1>1. /\ job.pc = "put" /\ job.queue # <<>> /\ n = NameOf[cur]
      /\ rec' = [rec EXCEPT ![n] = cur]
  BY PutMakesRecords
<1>2. rec'[n] = cur
  BY <1>1 DEF IInv, Types
<1>3. Unopposed(cur)
  BY <1>1, QueueParts DEF IInv, CInv, Installing, Handling
<1> QED BY <1>2, <1>3 DEF Unopposed

\* Without options a package's record never appears next to a package whose name
\* or virtual name it declares a conflict with: what check_conflicts found before
\* the transaction's first step still holds at its last, whatever failed on the
\* way.  Two packages of one request that conflict are never compared, so the
\* requests are taken to have none.
THEOREM ConflictsStayOut == ASSUME CompatibleRequests PROVE Spec => ConflictsEnforced
<1>1. IInv /\ CInv /\ [Next]_vars =>
        [\A n \in Names : (rec'[n] # rec[n] /\ rec'[n] # None /\ job.opts = {}) =>
           \A c \in ConflictsOf[rec'[n]] : ~Installed(c) /\ Providers(c) = {}]_vars
  BY RecordsAreUnopposed
<1>2. Spec => [](IInv /\ CInv)
  BY InitIInv, NextIInv, InitCInv, NextCInv, PTL DEF Spec
<1> QED BY <1>1, <1>2, PTL DEF Spec, ConflictsEnforced

-----------------------------------------------------------------------------
(* The index registers nothing but what the records say.                   *)

OnlyVerification == Faults \subseteq {"verify"}

\* What package n may have lines for.  Between its old lines' going and its new
\* ones' coming a package has none, and a removed one loses them before its record.
MayOwn(n) ==
    IF job.pc \in {"unpack", "extract"} /\ n = NameOf[cur] THEN {}
    ELSE IF job.pc \in {"register", "put"} /\ n = NameOf[cur] THEN FilesOf[cur]
    ELSE IF job.pc = "rm record" /\ n = victim THEN {}
    ELSE FilesHeld(n)
Held == \A o \in Owners(idx) : o[1] \in MayOwn(o[2])

LEMMA HeldStep ==
    ASSUME OneOwner, Held, idx' = idx, \A n \in Names : MayOwn(n) \subseteq MayOwn(n)'
    PROVE  Held'
BY SameOwners DEF Held, OneOwner

\* Only the records and where the process is decide what may be owned.
LEMMA SameFilesHeld ==
    ASSUME rec' = rec, NEW n
    PROVE  FilesHeld(n)' = FilesHeld(n)
BY DEF FilesHeld, Installed

\* Outside the stages that touch a package's lines everyone keeps its own.
LEMMA QuietHeld ==
    ASSUME OneOwner, Held, idx' = idx, rec' = rec,
           job.pc \notin {"unpack", "extract", "register", "put", "rm record"},
           job'.pc \notin {"unpack", "extract", "register", "put", "rm record"}
    PROVE  Held'
BY HeldStep, SameFilesHeld DEF MayOwn

LEMMA StageHeld ==
    ASSUME OneOwner, Held, idx' = idx, rec' = rec, cur' = cur,
           \/ job.pc \in {"unpack", "extract"} /\ job'.pc \in {"extract", "register"}
           \/ job.pc = "register" /\ job'.pc = "put"
    PROVE  Held'
<1> USE DEF MayOwn
<1>1. PICK p : p = cur
  OBVIOUS
<1>2. ASSUME NEW n \in Names PROVE MayOwn(n) \subseteq MayOwn(n)'
  <2>1. FilesHeld(n)' = FilesHeld(n)
    BY SameFilesHeld
  <2>2. cur' = p
    BY <1>1
  <2>3. MayOwn(n)' = IF job'.pc \in {"unpack", "extract"} /\ n = NameOf[p] THEN {}
                     ELSE IF job'.pc \in {"register", "put"} /\ n = NameOf[p] THEN FilesOf[p]
                     ELSE IF job'.pc = "rm record" /\ n = victim' THEN {} ELSE FilesHeld(n)'
    BY <2>2
  <2> QED BY <1>1, <2>1, <2>3
<1> QED BY <1>2, HeldStep

LEMMA VerifyHeld == IInv /\ OneOwner /\ Held /\ Verify => Held'
<1> SUFFICES ASSUME IInv, OneOwner, Held, Verify PROVE Held'
  OBVIOUS
<1>1. /\ job.pc = "next" /\ idx' = idx /\ rec' = rec /\ cur' = cur
      /\ job'.pc = IF Installed(NameOf[cur]) THEN "old files" ELSE "unpack"
  BY VerifyDoes DEF IInv, SameDisk
<1>2. PICK p : p = cur
  OBVIOUS
<1>3. ASSUME NEW n \in Names PROVE MayOwn(n) \subseteq MayOwn(n)'
  <2>1. FilesHeld(n)' = FilesHeld(n)
    BY <1>1, SameFilesHeld
  <2>2. MayOwn(n) = FilesHeld(n)
    BY <1>1 DEF MayOwn
  <2>3. n = NameOf[p] /\ job'.pc = "unpack" => FilesHeld(n) = {}
    BY <1>1, <1>2 DEF FilesHeld
  <2>4. cur' = p
    BY <1>1, <1>2
  <2>5. MayOwn(n)' = IF job'.pc \in {"unpack"} /\ n = NameOf[p] THEN {} ELSE FilesHeld(n)'
    BY <1>1, <2>4 DEF MayOwn
  <2> QED BY <2>1, <2>2, <2>3, <2>5
<1> QED BY <1>1, <1>3, HeldStep

\* The lines of a package go, and the stage is reached at which it may have none.
LEMMA UnregisterHeld ==
    ASSUME IInv, Held, NEW n, idx' = WithoutOwner(idx, n), \A m : m # n => MayOwn(m) \subseteq MayOwn(m)'
    PROVE  Held'
<1>1. Owners(idx') = {o \in Owners(idx) : o[2] # n}
  BY OwnersAfterWithout DEF IInv, Types
<1>2. Owners(idx)' = Owners(idx')
  BY DEF Owners, LinesOf, NoTab, NoTail, Torn
<1> QED BY <1>1, <1>2 DEF Held

LEMMA UnregisterOldHeld == OnlyVerification /\ IInv /\ Held /\ UnregisterOld => Held'
<1> SUFFICES ASSUME OnlyVerification, IInv, Held, UnregisterOld PROVE Held'
  OBVIOUS
<1>1. /\ job.pc = "old lines" /\ rec' = rec /\ cur' = cur /\ job'.pc = "unpack"
      /\ idx' = WithoutOwner(idx, NameOf[cur])
  BY UnregisterOldDoes DEF IInv, OnlyVerification
<1>2. PICK n : n = NameOf[cur]
  OBVIOUS
<1>3. NameOf[cur]' = n
  BY <1>1, <1>2
<1>4. \A m : m # n => MayOwn(m) \subseteq MayOwn(m)'
  BY <1>1, <1>3, SameFilesHeld DEF MayOwn
<1> QED BY <1>1, <1>2, <1>4, UnregisterHeld

LEMMA RegisterMemberHeld == OnlyVerification /\ IInv /\ Held /\ RegisterMember => Held'
<1> SUFFICES ASSUME OnlyVerification, IInv, Held, RegisterMember PROVE Held'
  OBVIOUS
<1>1. PICK f \in job.left : idx' = AppendEntry(idx, f, NameOf[cur], "all")
  BY RegisterMemberDoes DEF IInv, OnlyVerification
<1>2. /\ job.pc = "register" /\ rec' = rec /\ cur' = cur /\ job.queue # <<>>
      /\ job'.pc = "register"
  BY DEF RegisterMember, Fault, OnlyVerification, IInv, Queued, Handling, Types, Job, cur
<1>3. PICK n : n = NameOf[cur]
  OBVIOUS
<1>4. n \in Names /\ f \in FilesOf[cur] /\ f \in Paths
  BY <1>2, <1>3, CurType DEF IInv, Registered
<1>5. idx.tail = NoTail
  BY <1>2 DEF IInv, LinesWhole, AppendsWhole, OnlyVerification
<1>6. Owners(idx') = Owners(idx) \cup {<<f, n>>}
  BY <1>1, <1>3, <1>4, <1>5, OwnersAfterAppend DEF IInv, Types
<1>7. Owners(idx)' = Owners(idx')
  BY DEF Owners, LinesOf, NoTab, NoTail, Torn
<1>8. \A m : MayOwn(m)' = MayOwn(m)
  BY <1>2, SameFilesHeld DEF MayOwn
<1>9. MayOwn(n) = FilesOf[cur]
  BY <1>2, <1>3 DEF MayOwn
<1> QED BY <1>4, <1>6, <1>7, <1>8, <1>9 DEF Held

LEMMA PutHeld == OnlyVerification /\ IInv /\ OneOwner /\ Held /\ Put => Held'
<1> SUFFICES ASSUME OnlyVerification, IInv, OneOwner, Held, Put PROVE Held'
  OBVIOUS
<1>1. /\ job.pc = "put" /\ idx' = idx /\ rec' = [rec EXCEPT ![NameOf[cur]] = cur]
      /\ job'.pc = "next" /\ job.queue # <<>>
  BY PutDoes DEF IInv, OnlyVerification, Queued, Handling
<1>2. cur \in Pkgs /\ NameOf[cur] \in Names
  BY <1>1, CurType DEF IInv
<1>3. ASSUME NEW n \in Names PROVE MayOwn(n) \subseteq MayOwn(n)'
  <2>1. MayOwn(n)' = FilesHeld(n)'
    BY <1>1 DEF MayOwn
  <2>2. CASE n = NameOf[cur]
    BY <1>1, <1>2, <2>1, <2>2, InstallAssumption DEF MayOwn, FilesHeld, Installed, IInv, Types
  <2>3. CASE n # NameOf[cur]
    <3>1. rec'[n] = rec[n]
      BY <1>1, <2>3 DEF IInv, Types
    <3> QED BY <1>1, <2>1, <2>3, <3>1 DEF MayOwn, FilesHeld, Installed
  <2> QED BY <2>2, <2>3
<1> QED BY <1>1, <1>3, HeldStep

LEMMA RemoveLinesHeld == OnlyVerification /\ IInv /\ Held /\ RemoveLines => Held'
<1> SUFFICES ASSUME OnlyVerification, IInv, Held, RemoveLines PROVE Held'
  OBVIOUS
<1>1. /\ job.pc = "rm lines" /\ rec' = rec /\ victim' = victim /\ job'.pc = "rm record"
      /\ idx' = WithoutOwner(idx, victim)
  BY RemoveLinesDoes DEF IInv, OnlyVerification, Same, victim
<1>2. PICK n : n = victim
  OBVIOUS
<1>3. victim' = n
  BY <1>1, <1>2
<1>4. \A m : m # n => MayOwn(m) \subseteq MayOwn(m)'
  BY <1>1, <1>3, SameFilesHeld DEF MayOwn
<1> QED BY <1>1, <1>2, <1>4, UnregisterHeld

LEMMA RemoveRecordHeld == OnlyVerification /\ IInv /\ OneOwner /\ Held /\ RemoveRecord => Held'
<1> SUFFICES ASSUME OnlyVerification, IInv, OneOwner, Held, RemoveRecord PROVE Held'
  OBVIOUS
<1>1. /\ job.pc = "rm record" /\ idx' = idx /\ rec' = [rec EXCEPT ![victim] = None]
      /\ job' = RemovalDone(job.victims \ {victim})
  BY RemoveRecordDoes DEF IInv, OnlyVerification
<1>2. job'.pc \in {"replace", "check", "idle"}
  BY <1>1, RemovalDoneDoes, IdleDoes DEF IInv
<1>3. PICK v : v = victim
  OBVIOUS
<1>4. ASSUME NEW n \in Names PROVE MayOwn(n) \subseteq MayOwn(n)'
  <2>1. MayOwn(n)' = FilesHeld(n)'
    BY <1>2 DEF MayOwn
  <2>2. CASE n = v
    BY <1>1, <1>3, <2>2 DEF MayOwn
  <2>3. CASE n # v
    <3>1. rec'[n] = rec[n]
      BY <1>1, <1>3, <2>3 DEF IInv, Types
    <3> QED BY <1>1, <1>3, <2>1, <2>3, <3>1 DEF MayOwn, FilesHeld, Installed
  <2> QED BY <2>2, <2>3
<1> QED BY <1>1, <1>4, HeldStep

LEMMA NextHeld == Orderly /\ OnlyVerification /\ IInv /\ HInv /\ Held /\ [Next]_vars => Held'
<1> SUFFICES ASSUME Orderly, OnlyVerification, IInv, HInv, Held, [Next]_vars PROVE Held'
  OBVIOUS
<1>0. OneOwner
  BY DEF HInv
<1>1. CASE UNCHANGED vars
  <2>1. idx' = idx /\ rec' = rec /\ job' = job
    BY <1>1 DEF vars
  <2> QED BY <2>1, <1>0, HeldStep, SameFilesHeld DEF MayOwn, cur, victim
<1>2. ASSUME NEW ps, NEW opts, NEW order, Add(ps, order, opts) PROVE Held'
  BY <1>2, AddDoes, <1>0, QuietHeld DEF SameDisk
<1>3. ASSUME NEW ns, NEW opts, Del(ns, opts) PROVE Held'
  BY <1>3, DelDoes, <1>0, QuietHeld DEF SameDisk
<1>4. CASE Check \/ AddDone \/ VerifyFails \/ UnlinkOld \/ RemoveFile
  BY <1>4, CheckDoes, AddDoneDoes, VerifyFailsDoes, UnlinkOldDoes, RemoveFileDoes, IdleDoes,
     <1>0, QuietHeld DEF SameDisk, IInv
<1>5. CASE BeginRemove
  BY <1>5, BeginRemoveDoes, RemovalDoneDoes, IdleDoes, <1>0, QuietHeld DEF SameDisk, IInv
<1>6. CASE Unpack \/ ExtractDone \/ RegisterDone
  <2>1. "memory" \notin Faults /\ HInv'
    BY NextHInv DEF OnlyVerification
  <2>2. CASE Unpack
    <3>1. /\ job' = [job EXCEPT !.pc = "extract", !.left = FilesOf[cur], !.whole = TRUE]
          /\ job.pc = "unpack" /\ idx' = idx /\ rec' = rec
      BY <2>1, <2>2 DEF Unpack, Fault, disk
    <3>2. job'.pc = "extract" /\ cur' = cur
      BY <3>1 DEF IInv, Types, Job, cur
    <3> QED BY <3>1, <3>2, <1>0, StageHeld
  <2>3. CASE ExtractDone \/ RegisterDone
    BY <1>6, <2>1, <2>3, ExtractDoneDoes, RegisterDoneDoes, <1>0, StageHeld
       DEF SameDisk, IInv, HInv, NeverUndone
  <2> QED BY <1>6, <2>2, <2>3
<1>7. CASE ExtractMember
  BY <1>7, ExtractMemberDoes, <1>0, StageHeld DEF IInv
<1>8. CASE UnregisterNew \/ UndoFile \/ UndoDirs
  BY <1>8 DEF HInv, NeverUndone, UnregisterNew, UndoFile, UndoDirs
<1>9. CASE Crash
  BY <1>9, CrashDoes DEF OnlyVerification, IInv
<1> QED BY <1>1, <1>2, <1>3, <1>4, <1>5, <1>6, <1>7, <1>8, <1>9, VerifyHeld, UnregisterOldHeld,
     RegisterMemberHeld, PutHeld, RemoveLinesHeld, RemoveRecordHeld DEF Next, Work, HInv

\* Whenever no transaction is under way the three stores agree: every file of an
\* installed package holds that package's bytes and is registered to it, and the
\* index has no line besides.  Hypotheses: no --force, a rebuild of one version
\* keeps its files, and nothing fails but verification -- what fails halfway leaves
\* an upgrade undone (RollbackRestores is violated) or lines without a record.
THEOREM StoresStayTogether == ASSUME Orderly, OnlyVerification PROVE Spec => []StoresAgree
<1>1. Init => Held
  <2> SUFFICES ASSUME Init PROVE Held
    OBVIOUS
  <2> QED BY OwnersOfEmpty DEF Init, Held
<1>2. IInv /\ HInv /\ Held => StoresAgree
  <2> SUFFICES ASSUME IInv, HInv, Held, IsIdle
               PROVE  /\ \A n \in Names : Intact(n)
                      /\ \A o \in Owners(idx) : o[1] \in FilesHeld(o[2])
    BY DEF StoresAgree
  <2>1. ASSUME NEW n \in Names PROVE Intact(n)
    BY DEF IsIdle, HInv, RestIntact, InHand, Handling, Intact, FilesHeld
  <2>2. \A n : MayOwn(n) = FilesHeld(n)
    BY DEF IsIdle, MayOwn
  <2> QED BY <2>1, <2>2 DEF Held
<1>3. Spec => [](IInv /\ HInv /\ Held)
  BY <1>1, InitIInv, NextIInv, InitHInv, NextHInv, NextHeld, PTL DEF Spec
<1> QED BY <1>2, <1>3, PTL

-----------------------------------------------------------------------------
(* Every line of the index belongs to somebody who can be removed.         *)

\* Failures that leave lines behind on purpose: a kill between the lines and the
\* record, and unregister_files itself.
Repaired == Faults \cap {"crash", "unregister"} = {}

Registering(n) == job.pc \in {"register", "put", "unregister"} /\ n = NameOf[cur]
OInv ==
    /\ \A o \in Owners(idx) : o[2] = Torn \/ Installed(o[2]) \/ Registering(o[2])
    /\ job.pc = "rm record" => \A o \in Owners(idx) : o[2] # victim

LEMMA OwnersAreNames ==
    ASSUME Types, NEW o \in Owners(idx), o[2] # Torn
    PROVE  o[2] \in Names
BY OwnersType DEF Types

LEMMA SameInstalled ==
    ASSUME rec' = rec, NEW n
    PROVE  Installed(n)' = Installed(n)
BY DEF Installed

LEMMA QuietOInv ==
    ASSUME OInv, idx' = idx, rec' = rec, job.pc \notin {"register", "put", "unregister"},
           job'.pc # "rm record"
    PROVE  OInv'
BY SameOwners, SameInstalled DEF OInv, Registering

LEMMA StageOInv ==
    ASSUME OInv, idx' = idx, rec' = rec, cur' = cur,
           job'.pc \in {"register", "put", "unregister"}
    PROVE  OInv'
<1>1. PICK p : p = cur
  OBVIOUS
<1>2. cur' = p
  BY <1>1
<1>3. \A n : Installed(n) \/ Registering(n) => Installed(n)' \/ Registering(n)'
  BY <1>1, <1>2, SameInstalled DEF Registering
<1> QED BY <1>3, SameOwners DEF OInv

LEMMA UnregisterOInv ==
    ASSUME IInv, OInv, NEW n, idx' = WithoutOwner(idx, n), rec' = rec,
           Registering(n) \/ job.pc \notin {"register", "put", "unregister"},
           job'.pc = "rm record" => victim' = n
    PROVE  OInv'
<1>1. Owners(idx') = {o \in Owners(idx) : o[2] # n}
  BY OwnersAfterWithout DEF IInv, Types
<1>2. Owners(idx)' = Owners(idx')
  BY DEF Owners, LinesOf, NoTab, NoTail, Torn
<1>3. \A m : m # n => ~Registering(m)
  BY DEF Registering
<1>4. \A o \in Owners(idx)' : o[2] = Torn \/ Installed(o[2])'
  BY <1>1, <1>2, <1>3, SameInstalled DEF OInv
<1>5. job'.pc = "rm record" => \A o \in Owners(idx)' : o[2] # victim'
  BY <1>1, <1>2
<1> QED BY <1>4, <1>5 DEF OInv, victim

LEMMA RegisterMemberOInv == Repaired /\ IInv /\ OInv /\ RegisterMember => OInv'
<1> SUFFICES ASSUME Repaired, IInv, OInv, RegisterMember PROVE OInv'
  OBVIOUS
<1>1. PICK f \in job.left, cut \in Cuts : idx' = AppendEntry(idx, f, NameOf[cur], cut)
  BY RegisterMemberDoes DEF IInv
<1>2. /\ job.pc = "register" /\ rec' = rec /\ cur' = cur /\ job.queue # <<>>
      /\ job'.pc \in {"register", "unregister"}
  BY RegisterMemberDoes DEF IInv, Queued, Handling
<1>3. PICK n : n = NameOf[cur]
  OBVIOUS
<1>4. n \in Names /\ f \in Paths
  BY <1>2, <1>3, CurType DEF IInv, Registered
<1>5. idx.tail = NoTail
  BY <1>2 DEF IInv, LinesWhole, AppendsWhole, Repaired
<1>6. Owners(idx') \subseteq Owners(idx) \cup {<<f, n>>, <<f, Torn>>}
  BY <1>1, <1>3, <1>4, <1>5, OwnersAfterCut DEF IInv, Types
<1>7. Owners(idx)' = Owners(idx')
  BY DEF Owners, LinesOf, NoTab, NoTail, Torn
<1>8. NameOf[cur]' = n
  BY <1>2, <1>3
<1>9. \A m : Installed(m) \/ Registering(m) \/ m = n => Installed(m)' \/ Registering(m)'
  BY <1>2, <1>3, <1>8, SameInstalled DEF Registering
<1>10. \A o \in Owners(idx)' : o \in Owners(idx) \/ o[2] \in {n, Torn}
  BY <1>6, <1>7
<1>11. \A o \in Owners(idx)' : o[2] = Torn \/ Installed(o[2])' \/ Registering(o[2])'
  BY <1>9, <1>10 DEF OInv
<1> QED BY <1>2, <1>11 DEF OInv

LEMMA PutOInv == IInv /\ OInv /\ Put => OInv'
<1> SUFFICES ASSUME IInv, OInv, Put PROVE OInv'
  OBVIOUS
<1>1. job.pc = "put" /\ idx' = idx /\ job.queue # <<>>
  BY PutDoes DEF IInv, Queued, Handling
<1>2. CASE rec' = rec /\ job'.pc = "unregister" /\ cur' = cur
  BY <1>1, <1>2, StageOInv
<1>3. CASE rec' = [rec EXCEPT ![NameOf[cur]] = cur] /\ job'.pc = "next"
  <2>1. cur \in Pkgs /\ NameOf[cur] \in Names /\ cur # None
    BY <1>1, CurType, InstallAssumption DEF IInv
  <2>2. \A n \in Names : rec'[n] = IF n = NameOf[cur] THEN cur ELSE rec[n]
    BY <1>3, <2>1 DEF IInv, Types
  <2>3. \A n \in Names : Installed(n) \/ Registering(n) => Installed(n)'
    BY <2>1, <2>2 DEF Installed, Registering
  <2>4. \A o \in Owners(idx)' : o[2] = Torn \/ Installed(o[2])'
    BY <1>1, <2>3, SameOwners, OwnersAreNames DEF OInv, IInv
  <2> QED BY <1>3, <2>4 DEF OInv
<1> QED BY <1>2, <1>3, PutDoes DEF IInv

LEMMA RemoveRecordOInv == IInv /\ OInv /\ RemoveRecord => OInv'
<1> SUFFICES ASSUME IInv, OInv, RemoveRecord PROVE OInv'
  OBVIOUS
<1>1. /\ job.pc = "rm record" /\ idx' = idx
      /\ rec' = rec \/ rec' = [rec EXCEPT ![victim] = None]
  BY RemoveRecordDoes DEF IInv
<1>2. job'.pc \in {"replace", "check", "idle"}
  BY RemoveRecordDoes, RemovalDoneDoes, IdleDoes DEF IInv
<1>3. \A n \in Names : n # victim => rec'[n] = rec[n]
  BY <1>1 DEF IInv, Types
<1>4. \A o \in Owners(idx)' : o[2] = Torn \/ Installed(o[2])'
  BY <1>1, <1>3, SameOwners, OwnersAreNames DEF OInv, IInv, Registering, Installed
<1> QED BY <1>2, <1>4 DEF OInv

LEMMA NextOInv == Repaired /\ IInv /\ OInv /\ [Next]_vars => OInv'
<1> SUFFICES ASSUME Repaired, IInv, OInv, [Next]_vars PROVE OInv'
  OBVIOUS
<1>1. CASE UNCHANGED vars
  <2>1. idx' = idx /\ rec' = rec /\ job' = job
    BY <1>1 DEF vars
  <2> QED BY <2>1, SameOwners, SameInstalled DEF OInv, Registering, cur, victim
<1>2. ASSUME NEW ps, NEW opts, NEW order, Add(ps, order, opts) PROVE OInv'
  BY <1>2, AddDoes, QuietOInv DEF SameDisk
<1>3. ASSUME NEW ns, NEW opts, Del(ns, opts) PROVE OInv'
  BY <1>3, DelDoes, QuietOInv DEF SameDisk
<1>4. CASE Check \/ AddDone \/ VerifyFails \/ Verify \/ UnlinkOld \/ RemoveFile
  BY <1>4, CheckDoes, AddDoneDoes, VerifyFailsDoes, VerifyDoes, UnlinkOldDoes, RemoveFileDoes,
     IdleDoes, QuietOInv DEF SameDisk, IInv
<1>5. CASE BeginRemove
  BY <1>5, BeginRemoveDoes, RemovalDoneDoes, IdleDoes, QuietOInv DEF SameDisk, IInv
<1>6. CASE Unpack \/ ExtractMember \/ ExtractDone
  BY <1>6, UnpackDoes, ExtractMemberDoes, ExtractDoneDoes, IdleDoes, QuietOInv DEF SameDisk, IInv
<1>7. CASE RegisterDone
  BY <1>7, RegisterDoneDoes, StageOInv DEF SameDisk, IInv
<1>8. CASE UndoFile \/ UndoDirs
  BY <1>8, UndoFileDoes, UndoDirsDoes, IdleDoes, QuietOInv DEF IInv
<1>9. CASE UnregisterOld
  BY <1>9, UnregisterOldDoes, UnregisterOInv DEF IInv, Repaired
<1>10. CASE UnregisterNew
  BY <1>10, UnregisterNewDoes, UnregisterOInv DEF IInv, Repaired, Registering
<1>11. CASE RemoveLines
  <2>1. idx' = WithoutOwner(idx, victim) /\ rec' = rec /\ victim' = victim /\ job.pc = "rm lines"
    BY <1>11, RemoveLinesDoes DEF IInv, Repaired, Same, victim
  <2>2. PICK n : n = victim
    OBVIOUS
  <2> QED BY <2>1, <2>2, UnregisterOInv
<1>12. CASE Crash
  BY <1>12, CrashDoes DEF Repaired, IInv
<1> QED BY <1>1, <1>2, <1>3, <1>4, <1>5, <1>6, <1>7, <1>8, <1>9, <1>10, <1>11, <1>12,
     RegisterMemberOInv, PutOInv, RemoveRecordOInv DEF Next, Work

LEMMA InitOInv == Init => OInv
<1> SUFFICES ASSUME Init PROVE OInv
  OBVIOUS
<1> QED BY OwnersOfEmpty DEF Init, OInv

\* Only installed packages are owners: whatever of verifying, unpacking, writing,
\* registering, cutting a line or storing the record fails, and with --force too,
\* no line is left that no `abp del' could ever remove, as long as the process is
\* not killed and its own repair (unregister_files) does not fail as well.
THEOREM OwnersCanBeRemoved == ASSUME Repaired PROVE Spec => []OwnersAreInstalled
<1>1. IInv /\ OInv => OwnersAreInstalled
  BY DEF OInv, OwnersAreInstalled, IsIdle, Registering
<1>2. Spec => [](IInv /\ OInv)
  BY InitIInv, NextIInv, InitOInv, NextOInv, PTL DEF Spec
<1> QED BY <1>1, <1>2, PTL

-----------------------------------------------------------------------------
(* What a rollback finds, and leaves.                                      *)

Touching == {"unpack", "extract", "register", "put", "unregister", "undo"}

FilesInDirs == \A f \in Paths : fs[f] # Gone => DirOf[f] \in dirs
NothingMade == job.pc \notin Touching => job.made = {} /\ job.madeDirs = {}
Upgrading == job.pc \in {"old files", "old lines"} => job.before.rec[NameOf[cur]] # None

\* On disk b package p is new and none of its paths is taken.
FreshOn(p, b) == b.rec[NameOf[p]] = None /\ \A f \in FilesOf[p] : b.fs[f] = Gone

\* The disk is what it was, b, but for what the Rollback knows of and for the
\* lines of p and the cut ones.
FilesAsNoted(p, b) ==
    /\ job.made \subseteq FilesOf[p]
    /\ \A f \in Paths \ job.made : fs[f] = b.fs[f]
    /\ \A f \in Paths : b.fs[f] # Gone => DirOf[f] \in b.dirs
    /\ dirs = b.dirs \cup job.madeDirs /\ job.madeDirs \cap b.dirs = {}
LinesAsNoted(p, b) ==
    /\ \A o \in b.owners : o[2] # NameOf[p]
    /\ b.owners \subseteq Owners(idx)
    /\ \A o \in Owners(idx) \ b.owners :
          \/ o[2] = Torn /\ job.pc \in {"register", "put", "unregister", "undo"}
          \/ o[2] = NameOf[p] /\ job.pc \in {"register", "put", "unregister"}
AsNoted(p, b) == b \in Disks /\ rec = b.rec /\ FilesAsNoted(p, b) /\ LinesAsNoted(p, b)

Noted == job.pc \in Touching /\ FreshOn(cur, job.before) => AsNoted(cur, job.before)
DInv == FilesInDirs /\ NothingMade /\ Upgrading /\ Noted

LEMMA NotedStep ==
    ASSUME Noted, NEW p, NEW b, p = cur, b = job.before, cur' = p, job'.before = b,
           job'.pc \in Touching => job.pc \in Touching,
           FreshOn(p, b) /\ AsNoted(p, b) => AsNoted(p, b)'
    PROVE  Noted'
BY DEF Noted, FreshOn

\* A step that leaves the disk alone.
LEMMA QuietDInv ==
    ASSUME DInv, SameDisk, cur' = cur, SameMade(job'),
           \/ job.pc = "unpack" /\ job'.pc = "extract"
           \/ job.pc = "extract" /\ job'.pc \in {"register", "undo"}
           \/ job.pc = "register" /\ job'.pc = "put"
           \/ job.pc = "put" /\ job'.pc = "unregister"
    PROVE  DInv'
<1>1. PICK p, b : p = cur /\ b = job.before
  OBVIOUS
<1>2. cur' = p /\ job'.before = b /\ job.pc \in Touching
  BY <1>1 DEF SameMade, Touching
<1>3. Owners(idx)' = Owners(idx)
  BY SameOwners DEF SameDisk
<1>4. FilesAsNoted(p, b) => FilesAsNoted(p, b)'
  BY DEF FilesAsNoted, SameDisk, SameMade
<1>5. LinesAsNoted(p, b) => LinesAsNoted(p, b)'
  BY <1>3 DEF LinesAsNoted
<1>6. AsNoted(p, b) => AsNoted(p, b)'
  BY <1>4, <1>5 DEF AsNoted, SameDisk
<1>7. Noted'
  BY <1>1, <1>2, <1>6, NotedStep DEF DInv
<1>8. FilesInDirs' /\ NothingMade' /\ Upgrading'
  BY DEF DInv, FilesInDirs, NothingMade, Upgrading, SameDisk, SameMade, Touching
<1> QED BY <1>7, <1>8 DEF DInv

\* Outside the stages a rollback is about, files only go and lists start empty.
LEMMA OutsideDInv ==
    ASSUME DInv, dirs' = dirs, \A f \in Paths : fs'[f] # Gone => fs[f] # Gone,
           job'.pc \notin Touching, job'.made = {}, job'.madeDirs = {},
           job'.pc \notin {"old files", "old lines"}
    PROVE  DInv'
BY DEF DInv, FilesInDirs, NothingMade, Upgrading, Noted

LEMMA OldStageDInv ==
    ASSUME DInv, dirs' = dirs, \A f \in Paths : fs'[f] # Gone => fs[f] # Gone,
           SameMade(job'), cur' = cur, job.pc \in {"old files", "old lines"},
           job'.pc \in {"old files", "old lines", "unpack"}
    PROVE  DInv'
<1>1. PICK p, b : p = cur /\ b = job.before
  OBVIOUS
<1>2. cur' = p /\ job'.before = b /\ b.rec[NameOf[p]] # None
  BY <1>1 DEF DInv, Upgrading, SameMade
<1>3. Upgrading' /\ Noted'
  BY <1>2 DEF Upgrading, Noted, FreshOn
<1>4. FilesInDirs' /\ NothingMade'
  BY DEF DInv, FilesInDirs, NothingMade, SameMade, Touching
<1> QED BY <1>3, <1>4 DEF DInv

LEMMA GoneStays ==
    ASSUME Types, NEW x \in Paths, fs' = fs \/ fs' = [fs EXCEPT ![x] = Gone]
    PROVE  \A f \in Paths : fs'[f] # Gone => fs[f] # Gone
BY DEF Types

\* The disk is noted, and nothing has been done to it.
LEMMA VerifyDInv == IInv /\ OInv /\ DInv /\ Verify => DInv'
<1> SUFFICES ASSUME IInv, OInv, DInv, Verify PROVE DInv'
  OBVIOUS
<1>1. /\ job.pc = "next" /\ SameDisk /\ job.queue # <<>> /\ cur' = cur
      /\ job'.pc = IF Installed(NameOf[cur]) THEN "old files" ELSE "unpack"
      /\ job'.made = {} /\ job'.madeDirs = {} /\ job'.before = Snapshot
  BY VerifyDoes DEF IInv, DInv, NothingMade, Touching
<1>2. PICK p, b : p = cur /\ b = Snapshot
  OBVIOUS
<1>3. cur' = p /\ job'.before = b /\ b \in Disks
  BY <1>1, <1>2, SnapshotType DEF IInv
<1>4. b.fs = fs /\ b.dirs = dirs /\ b.rec = rec /\ b.owners = Owners(idx)
  BY <1>2 DEF Snapshot
<1>5. FilesInDirs' /\ NothingMade'
  BY <1>1 DEF DInv, FilesInDirs, NothingMade, SameDisk
<1>6. NameOf[p] \in Names /\ NameOf[p] # Torn
  BY <1>1, <1>2, CurType, IndexAssumption DEF IInv
<1>7. Upgrading'
  BY <1>1, <1>2, <1>3, <1>4 DEF Upgrading, Installed
<1>8. ASSUME rec[NameOf[p]] = None PROVE AsNoted(p, b)'
  <2>1. \A o \in b.owners : o[2] # NameOf[p]
    BY <1>1, <1>4, <1>6, <1>8 DEF OInv, Installed, Registering
  <2>2. Owners(idx)' = b.owners
    BY <1>1, <1>4, SameOwners DEF SameDisk
  <2>3. LinesAsNoted(p, b)'
    BY <2>1, <2>2 DEF LinesAsNoted
  <2>4. FilesAsNoted(p, b)'
    BY <1>1, <1>4 DEF FilesAsNoted, SameDisk, DInv, FilesInDirs
  <2> QED BY <1>1, <1>3, <1>4, <2>3, <2>4 DEF AsNoted, SameDisk
<1>9. Noted'
  BY <1>3, <1>4, <1>8 DEF Noted, FreshOn
<1> QED BY <1>5, <1>7, <1>9 DEF DInv

LEMMA ExtractMemberDInv == IInv /\ DInv /\ ExtractMember => DInv'
<1> SUFFICES ASSUME IInv, DInv, ExtractMember PROVE DInv'
  OBVIOUS
<1>1. /\ job.pc = "extract" /\ rec' = rec /\ idx' = idx /\ job'.pc = "extract"
      /\ cur' = cur /\ job'.before = job.before
  BY ExtractMemberDoes DEF IInv
<1>2. PICK f \in job.left :
        /\ \/ fs' = fs /\ job'.made = job.made
           \/ /\ \E b : fs' = [fs EXCEPT ![f] = b]
              /\ DirOf[f] \in dirs' /\ job'.made = job.made \cup {f}
        /\ dirs' \in {dirs, dirs \cup {DirOf[f]}}
        /\ job'.madeDirs = job.madeDirs \cup (dirs' \ dirs)
  BY ExtractMemberDoes DEF IInv
<1>3. f \in FilesOf[cur] /\ f \in Paths
  <2>1. job.left \subseteq FilesOf[cur] /\ job.left \in SUBSET Paths
    BY <1>1 DEF IInv, Extracted, Types, Job
  <2> QED BY <2>1
<1>4. PICK p, b : p = cur /\ b = job.before
  OBVIOUS
<1>5. cur' = p /\ job'.before = b /\ f \in FilesOf[p]
  BY <1>1, <1>3, <1>4
<1>6. \A x \in Paths : fs'[x] = fs[x] \/ (x = f /\ f \in job'.made /\ DirOf[f] \in dirs')
  BY <1>2 DEF IInv, Types
<1>7. FilesInDirs' /\ NothingMade' /\ Upgrading'
  BY <1>1, <1>2, <1>6 DEF DInv, FilesInDirs, NothingMade, Upgrading, Touching
<1>8. ASSUME AsNoted(p, b) PROVE AsNoted(p, b)'
  <2>1. Owners(idx)' = Owners(idx)
    BY <1>1, SameOwners
  <2>2. LinesAsNoted(p, b)'
    BY <1>1, <1>8, <2>1 DEF LinesAsNoted, AsNoted
  <2>3. dirs' = b.dirs \cup job'.madeDirs /\ job'.madeDirs \cap b.dirs = {}
    BY <1>2, <1>8 DEF AsNoted, FilesAsNoted
  <2>4. job'.made \subseteq FilesOf[p] /\ \A x \in Paths \ job'.made : fs'[x] = b.fs[x]
    BY <1>2, <1>5, <1>6, <1>8 DEF AsNoted, FilesAsNoted
  <2>5. FilesAsNoted(p, b)'
    BY <1>8, <2>3, <2>4 DEF AsNoted, FilesAsNoted
  <2> QED BY <1>1, <1>8, <2>2, <2>5 DEF AsNoted
<1>9. Noted'
  BY <1>1, <1>4, <1>5, <1>8, NotedStep DEF DInv
<1> QED BY <1>7, <1>9 DEF DInv

\* A step that changes lines only, and adds none but the package's and cut ones.
LEMMA LinesDInv ==
    ASSUME DInv, UNCHANGED <<fs, dirs, rec>>, cur' = cur, SameMade(job'),
           job.pc \in Touching, job'.pc \in Touching,
           NEW p, NEW b, p = cur, b = job.before,
           FreshOn(p, b) /\ LinesAsNoted(p, b) => LinesAsNoted(p, b)'
    PROVE  DInv'
<1>1. cur' = p /\ job'.before = b
  BY DEF SameMade
<1>2. FilesAsNoted(p, b) => FilesAsNoted(p, b)'
  BY DEF FilesAsNoted, SameMade
<1>3. FreshOn(p, b) /\ AsNoted(p, b) => AsNoted(p, b)'
  BY <1>2 DEF AsNoted
<1>4. Noted'
  BY <1>1, <1>3, NotedStep DEF DInv
<1>5. FilesInDirs' /\ NothingMade' /\ Upgrading'
  BY DEF DInv, FilesInDirs, NothingMade, Upgrading, Touching
<1> QED BY <1>4, <1>5 DEF DInv

LEMMA RegisterMemberDInv == Repaired /\ IInv /\ DInv /\ RegisterMember => DInv'
<1> SUFFICES ASSUME Repaired, IInv, DInv, RegisterMember PROVE DInv'
  OBVIOUS
<1>1. PICK f \in job.left, cut \in Cuts : idx' = AppendEntry(idx, f, NameOf[cur], cut)
  BY RegisterMemberDoes DEF IInv
<1>2. /\ job.pc = "register" /\ UNCHANGED <<fs, dirs, rec>> /\ cur' = cur /\ job.queue # <<>>
      /\ job'.pc \in {"register", "unregister"} /\ SameMade(job')
  BY RegisterMemberDoes DEF IInv, Queued, Handling
<1>3. PICK p, b : p = cur /\ b = job.before
  OBVIOUS
<1>4. NameOf[p] \in Names /\ f \in Paths
  BY <1>2, <1>3, CurType DEF IInv, Registered
<1>5. idx.tail = NoTail
  BY <1>2 DEF IInv, LinesWhole, AppendsWhole, Repaired
<1>6. /\ Owners(idx') \subseteq Owners(idx) \cup {<<f, NameOf[p]>>, <<f, Torn>>}
      /\ Owners(idx) \subseteq Owners(idx')
  BY <1>1, <1>3, <1>4, <1>5, OwnersAfterCut DEF IInv, Types
<1>7. Owners(idx)' = Owners(idx')
  BY DEF Owners, LinesOf, NoTab, NoTail, Torn
<1>8. \A o \in Owners(idx)' : o \in Owners(idx) \/ o[2] \in {NameOf[p], Torn}
  BY <1>6, <1>7
<1>9. LinesAsNoted(p, b) => LinesAsNoted(p, b)'
  BY <1>2, <1>6, <1>7, <1>8 DEF LinesAsNoted
<1> QED BY <1>2, <1>3, <1>9, LinesDInv DEF Touching

LEMMA UnregisterNewDInv == Repaired /\ IInv /\ DInv /\ UnregisterNew => DInv'
<1> SUFFICES ASSUME Repaired, IInv, DInv, UnregisterNew PROVE DInv'
  OBVIOUS
<1>1. /\ job.pc = "unregister" /\ UNCHANGED <<fs, dirs, rec>> /\ cur' = cur
      /\ job'.pc = "undo" /\ SameMade(job') /\ idx' = WithoutOwner(idx, NameOf[cur])
  BY UnregisterNewDoes DEF IInv, Repaired
<1>2. PICK p, b : p = cur /\ b = job.before
  OBVIOUS
<1>3. Owners(idx') = {o \in Owners(idx) : o[2] # NameOf[p]}
  BY <1>1, <1>2, OwnersAfterWithout DEF IInv, Types
<1>4. Owners(idx)' = Owners(idx')
  BY DEF Owners, LinesOf, NoTab, NoTail, Torn
<1>5. LinesAsNoted(p, b) => LinesAsNoted(p, b)'
  BY <1>1, <1>3, <1>4 DEF LinesAsNoted
<1> QED BY <1>1, <1>2, <1>5, LinesDInv DEF Touching

LEMMA UndoFileDInv == IInv /\ DInv /\ UndoFile => DInv'
<1> SUFFICES ASSUME IInv, DInv, UndoFile PROVE DInv'
  OBVIOUS
<1>1. /\ job.pc = "undo" /\ dirs' = dirs /\ rec' = rec /\ idx' = idx /\ job'.pc = "undo"
      /\ cur' = cur /\ job'.before = job.before /\ job'.madeDirs = job.madeDirs
  BY UndoFileDoes DEF IInv
<1>2. PICK f \in job.made : fs' = [fs EXCEPT ![f] = Gone] /\ job'.made = job.made \ {f}
  BY UndoFileDoes DEF IInv
<1>3. f \in Paths
  BY DEF IInv, Types, Job
<1>4. \A x \in Paths : fs'[x] = IF x = f THEN Gone ELSE fs[x]
  BY <1>2, <1>3 DEF IInv, Types
<1>5. PICK p, b : p = cur /\ b = job.before
  OBVIOUS
<1>6. FilesInDirs' /\ NothingMade' /\ Upgrading'
  BY <1>1, <1>4 DEF DInv, FilesInDirs, NothingMade, Upgrading, Touching
<1>7. ASSUME FreshOn(p, b), AsNoted(p, b) PROVE AsNoted(p, b)'
  <2>1. Owners(idx)' = Owners(idx)
    BY <1>1, SameOwners
  <2>2. LinesAsNoted(p, b)'
    BY <1>1, <1>7, <2>1 DEF LinesAsNoted, AsNoted
  <2>3. b.fs[f] = Gone
    BY <1>7 DEF AsNoted, FilesAsNoted, FreshOn
  <2>4. FilesAsNoted(p, b)'
    BY <1>1, <1>2, <1>4, <1>7, <2>3 DEF AsNoted, FilesAsNoted
  <2> QED BY <1>1, <1>7, <2>2, <2>4 DEF AsNoted
<1>8. cur' = p /\ job'.before = b
  BY <1>1, <1>5
<1>9. Noted'
  BY <1>1, <1>5, <1>7, <1>8, NotedStep DEF DInv
<1> QED BY <1>6, <1>9 DEF DInv

LEMMA UndoDirsDInv == IInv /\ DInv /\ UndoDirs => DInv'
<1> SUFFICES ASSUME IInv, DInv, UndoDirs PROVE DInv'
  OBVIOUS
<1>1. FilesInDirs'
  BY UndoDirsDoes DEF DInv, FilesInDirs
<1>2. job'.pc = "idle" /\ job'.made = {} /\ job'.madeDirs = {}
  BY UndoDirsDoes, IdleDoes
<1> QED BY <1>1, <1>2 DEF DInv, NothingMade, Upgrading, Noted, Touching

LEMMA PutDInv == IInv /\ DInv /\ Put => DInv'
<1> SUFFICES ASSUME IInv, DInv, Put PROVE DInv'
  OBVIOUS
<1>1. CASE job'.pc = "next" /\ job'.made = {} /\ job'.madeDirs = {}
  BY <1>1, PutDoes, OutsideDInv DEF IInv, Touching
<1>2. CASE rec' = rec /\ job'.pc = "unregister" /\ SameMade(job') /\ cur' = cur
  BY <1>2, PutDoes, QuietDInv DEF IInv, SameDisk
<1> QED BY <1>1, <1>2, PutDoes DEF IInv

LEMMA RemovalDInv == IInv /\ DInv /\ (BeginRemove \/ RemoveFile \/ RemoveLines \/ RemoveRecord) => DInv'
<1> SUFFICES ASSUME IInv, DInv, BeginRemove \/ RemoveFile \/ RemoveLines \/ RemoveRecord PROVE DInv'
  OBVIOUS
<1>1. job.pc \in Removing /\ job.made = {} /\ job.madeDirs = {}
  BY BeginRemoveDoes, RemoveFileDoes, RemoveLinesDoes, RemoveRecordDoes
     DEF IInv, DInv, NothingMade, Touching, Removing
<1>2. ASSUME NEW vs, job' = RemovalDone(vs)
      PROVE  job'.made = {} /\ job'.madeDirs = {} /\ job'.pc \in {"replace", "check", "idle"}
  BY <1>1, <1>2, RemovalDoneDoes, IdleDoes DEF IInv, SameMade
<1>3. /\ job'.made = {} /\ job'.madeDirs = {}
      /\ job'.pc \in {"replace", "check", "idle", "rm files", "rm lines", "rm record"}
  BY <1>1, <1>2, BeginRemoveDoes, RemoveFileDoes, RemoveLinesDoes, RemoveRecordDoes, IdleDoes
     DEF IInv, SameMade
<1>4. dirs' = dirs /\ (fs' = fs \/ \E f \in job.left : fs' = [fs EXCEPT ![f] = Gone])
  BY BeginRemoveDoes, RemoveFileDoes, RemoveLinesDoes, RemoveRecordDoes DEF IInv, SameDisk
<1>5. \A f \in Paths : fs'[f] # Gone => fs[f] # Gone
  BY <1>4, GoneStays DEF IInv, Types, Job
<1> QED BY <1>3, <1>4, <1>5, OutsideDInv DEF Touching

LEMMA NextDInv == Repaired /\ IInv /\ OInv /\ DInv /\ [Next]_vars => DInv'
<1> SUFFICES ASSUME Repaired, IInv, OInv, DInv, [Next]_vars PROVE DInv'
  OBVIOUS
<1>1. CASE UNCHANGED vars
  <2>1. fs' = fs /\ dirs' = dirs /\ rec' = rec /\ idx' = idx /\ job' = job
    BY <1>1 DEF vars
  <2>2. Owners(idx)' = Owners(idx) /\ cur' = cur
    BY <2>1, SameOwners DEF cur
  <2> QED BY <2>1, <2>2 DEF DInv, FilesInDirs, NothingMade, Upgrading, Noted, FreshOn, AsNoted,
                         FilesAsNoted, LinesAsNoted
<1>2. ASSUME NEW ps, NEW opts, NEW order, Add(ps, order, opts) PROVE DInv'
  BY <1>2, AddDoes, OutsideDInv DEF SameDisk, Touching
<1>3. ASSUME NEW ns, NEW opts, Del(ns, opts) PROVE DInv'
  BY <1>3, DelDoes, OutsideDInv DEF SameDisk, Touching
<1>4. CASE Check \/ AddDone \/ VerifyFails \/ Crash
  <2>1. SameDisk /\ (job' = Idle \/ (job'.pc = "next" /\ SameMade(job') /\ job.pc \notin Touching))
    <3>1. CASE Check
      BY <3>1, CheckDoes DEF IInv, Touching
    <3>2. CASE VerifyFails
      BY <3>2, VerifyFailsDoes DEF IInv, Touching
    <3> QED BY <1>4, <3>1, <3>2, AddDoneDoes, CrashDoes DEF IInv
  <2> QED BY <2>1, IdleDoes, OutsideDInv DEF SameDisk, SameMade, DInv, NothingMade, Touching
<1>5. CASE UnlinkOld
  <2>1. \A f \in Paths : fs'[f] # Gone => fs[f] # Gone
    BY <1>5, UnlinkOldDoes, GoneStays DEF IInv, Types, Job
  <2> QED BY <1>5, <2>1, UnlinkOldDoes, OldStageDInv DEF IInv
<1>6. CASE UnregisterOld
  BY <1>6, UnregisterOldDoes, OldStageDInv DEF IInv
<1>7. CASE Unpack
  <2>1. CASE job' = Idle
    BY <1>7, <2>1, UnpackDoes, IdleDoes, OutsideDInv DEF IInv, SameDisk, Touching
  <2>2. CASE job' # Idle
    BY <1>7, <2>2, UnpackDoes, QuietDInv DEF IInv
  <2> QED BY <2>1, <2>2
<1>8. CASE ExtractDone \/ RegisterDone
  BY <1>8, ExtractDoneDoes, RegisterDoneDoes, QuietDInv DEF IInv
<1> QED BY <1>1, <1>2, <1>3, <1>4, <1>5, <1>6, <1>7, <1>8, VerifyDInv, ExtractMemberDInv,
     RegisterMemberDInv, PutDInv, UnregisterNewDInv, UndoFileDInv, UndoDirsDInv, RemovalDInv
     DEF Next, Work

LEMMA InitDInv == Init => DInv
<1> SUFFICES ASSUME Init PROVE DInv
  OBVIOUS
<1>1. job.pc = "idle" /\ job.made = {} /\ job.madeDirs = {}
  BY IdleDoes DEF Init
<1>2. FilesInDirs
  BY DEF Init, FilesInDirs
<1> QED BY <1>1, <1>2 DEF DInv, NothingMade, Upgrading, Noted, Touching

\* The step that ends a rollback is the one that takes the directories back.
LEMMA RollbackEnds ==
    ASSUME IInv, [Next]_vars, RolledBack
    PROVE  UndoDirs
<1>1. job.pc = "undo" /\ job'.pc = "idle" /\ faults' = faults
  BY DEF RolledBack
<1>2. ~UNCHANGED vars
  BY <1>1 DEF vars
<1>3. ASSUME NEW ps, NEW opts, NEW order, Add(ps, order, opts) PROVE FALSE
  BY <1>1, <1>3 DEF Add
<1>4. ASSUME NEW ns, NEW opts, Del(ns, opts) PROVE FALSE
  BY <1>1, <1>4 DEF Del
<1>5. ~Crash
  BY <1>1, CrashDoes DEF IInv
<1>6. ~UndoFile
  BY <1>1, UndoFileDoes DEF IInv
<1> QED BY <1>1, <1>2, <1>3, <1>4, <1>5, <1>6
     DEF Next, Work, Check, AddDone, VerifyFails, Verify, UnlinkOld, UnregisterOld, Unpack,
         ExtractMember, ExtractDone, RegisterMember, RegisterDone, Put, UnregisterNew,
         BeginRemove, RemoveFile, RemoveLines, RemoveRecord

LEMMA UndoRestores ==
    ASSUME IInv, DInv, [Next]_vars, RolledBack, FreshOn(cur, job.before), Untorn(idx)
    PROVE  Restored
<1>1. PICK p, b : p = cur /\ b = job.before
  OBVIOUS
<1>2. /\ job.pc = "undo" /\ job.made = {} /\ fs' = fs /\ rec' = rec /\ idx' = idx
      /\ dirs' = {d \in dirs : \/ d \notin job.madeDirs
                               \/ \E f \in Paths : DirOf[f] = d /\ fs[f] # Gone}
  BY RollbackEnds, UndoDirsDoes
<1>3. b \in Disks /\ rec = b.rec /\ FilesAsNoted(p, b) /\ LinesAsNoted(p, b)
  BY <1>1, <1>2 DEF DInv, Noted, AsNoted, Touching
<1>4. b.fs \in [Paths -> Contents] /\ fs \in [Paths -> Contents]
  BY <1>3 DEF Disks, IInv, Types
<1>5. fs = b.fs
  BY <1>2, <1>3, <1>4 DEF FilesAsNoted
<1>6. dirs' = b.dirs
  BY <1>2, <1>3, <1>5 DEF FilesAsNoted
<1>7. Owners(idx) = b.owners
  BY <1>2, <1>3 DEF LinesAsNoted, Untorn
<1>8. Owners(idx)' = b.owners
  BY <1>2, <1>7, SameOwners
<1> QED BY <1>1, <1>2, <1>3, <1>5, <1>6, <1>8 DEF Restored

\* install.rs:357, as far as it holds: whatever of unpacking, writing, registering
\* or storing the record fails, a package that was new and took nobody's paths is
\* gone without a trace when its rollback is over -- no file, no directory, no line
\* (a line that was cut inside its name excepted).
THEOREM RollbackLeavesNothing == ASSUME Repaired PROVE Spec => RollbackRestoresFresh
<1>1. IInv /\ DInv /\ [Next]_vars =>
        [(/\ RolledBack
          /\ job.before.rec[NameOf[cur]] = None
          /\ \A f \in FilesOf[cur] : job.before.fs[f] = Gone
          /\ Untorn(idx)) => Restored]_vars
  BY UndoRestores DEF FreshOn
<1>2. Spec => [](IInv /\ OInv /\ DInv)
  BY InitIInv, NextIInv, InitOInv, NextOInv, InitDInv, NextDInv, PTL DEF Spec
<1> QED BY <1>1, <1>2, PTL DEF Spec, RollbackRestoresFresh

-----------------------------------------------------------------------------
(* What is installed has what it depends on.                               *)

\* The options that switch the checks off, the failures that skip a package or
\* leave a removal unfinished, dependencies that are let pass although nothing
\* installs them, and names that go with another package: without these.
Plainly ==
    /\ Flags \cap {"force", "no_deps"} = {} /\ Faults \cap {"verify", "delete", "crash"} = {}
    /\ Available = {}
    /\ \A p \in Pkgs : ReplacesOf[p] = {} /\ ProvidesOf[p] = {}

\* Installed, and not about to be removed.
Met(d) == Installed(d) /\ ~(job.pc \in Removing /\ d \in job.victims)

Adding == {"check"} \cup Installing
DoesAsAsked ==
    /\ job.opts \cap {"force", "no_deps"} = {}
    /\ job.pc \in Adding => job.kind = "add"
    /\ job.pc \in Removing /\ job.kind = "add" => job.victims = {}
    /\ job.pc \in {"rm files", "rm lines", "rm record"} => victim \in job.victims
DependenciesMet == \A n \in Names : Met(n) => \A d \in DependsOf[rec[n]] : Met(d)
QueueInOrder ==
    job.kind = "add" =>
      \A i \in DOMAIN job.queue : \A d \in DependsOf[job.queue[i]] :
         Installed(d) \/ \E j \in 1..(i - 1) : d = NameOf[job.queue[j]]
EInv == DoesAsAsked /\ DependenciesMet /\ QueueInOrder

LEMMA QueueStays ==
    ASSUME QueueInOrder, rec' = rec, job'.kind = job.kind, job'.queue = job.queue
    PROVE  QueueInOrder'
BY SameInstalled DEF QueueInOrder

\* Steps that keep the records.
LEMMA StayEInv ==
    ASSUME EInv, rec' = rec, Same(job'), job'.queue = job.queue,
           job.pc \notin Removing, job'.pc \notin Removing,
           job'.pc \in Adding => job.pc \in Adding
    PROVE  EInv'
<1>1. \A n : Met(n)' = Met(n)
  BY SameInstalled DEF Met
<1>2. DependenciesMet'
  BY <1>1 DEF EInv, DependenciesMet
<1>3. QueueInOrder'
  BY QueueStays DEF EInv, Same
<1>4. DoesAsAsked'
  BY DEF EInv, DoesAsAsked, Same, Removing
<1> QED BY <1>2, <1>3, <1>4 DEF EInv

LEMMA IdleEInv ==
    ASSUME EInv, rec' = rec, job' = Idle, job.pc \notin Removing \/ job.victims = {}
    PROVE  EInv'
<1>1. job'.pc = "idle" /\ job'.queue = <<>> /\ job'.opts = {}
  BY IdleDoes
<1>2. \A n : Met(n)' = Met(n)
  BY <1>1, SameInstalled DEF Met, Removing
<1>3. DependenciesMet'
  BY <1>2 DEF EInv, DependenciesMet
<1>4. QueueInOrder'
  BY <1>1 DEF QueueInOrder
<1>5. DoesAsAsked'
  BY <1>1 DEF DoesAsAsked, Adding, Installing, Handling, Removing
<1> QED BY <1>3, <1>4, <1>5 DEF EInv

LEMMA NobodyProvides == Plainly /\ IInv => \A d : Providers(d) = {}
BY DEF Plainly, IInv, Types, Providers, Installed

LEMMA AddEInv ==
    ASSUME Plainly, IInv, EInv, NEW ps \in AddRequests, NEW opts \in SUBSET Flags, NEW order,
           Add(ps, order, opts)
    PROVE  EInv'
<1>1. /\ job.pc = "idle" /\ rec' = rec /\ job'.pc = "replace" /\ job'.kind = "add"
      /\ job'.opts = opts /\ job'.queue = order
      /\ job'.victims = {n \in UNION {ReplacesOf[p] : p \in ps} \ NamesOf(ps) : Installed(n)}
      /\ order \in Orders(ps) /\ ("no_deps" \in opts \/ Resolved(order))
  BY AddDoes DEF SameDisk
<1>2. opts \cap {"force", "no_deps"} = {} /\ ps \subseteq Pkgs
  BY InstallAssumption DEF Plainly
<1>3. job'.victims = {}
  BY <1>1, <1>2 DEF Plainly
<1>4. Resolved(order)
  BY <1>1, <1>2
<1>5. \A n : Met(n)' = Met(n)
  BY <1>1, <1>3, SameInstalled DEF Met, Removing
<1>6. DependenciesMet'
  BY <1>1, <1>5 DEF EInv, DependenciesMet
<1>7. ASSUME NEW i \in DOMAIN order, NEW d \in DependsOf[order[i]], ~Installed(d)
      PROVE  \E j \in 1..(i - 1) : d = NameOf[order[j]]
  <2>1. d \in NamesOf({order[j] : j \in 1..(i - 1)})
    BY <1>4, <1>7, NobodyProvides DEF Resolved, Plainly
  <2> QED BY <2>1 DEF NamesOf
<1>8. QueueInOrder'
  BY <1>1, <1>7, SameInstalled DEF QueueInOrder
<1>9. DoesAsAsked'
  BY <1>1, <1>2, <1>3 DEF DoesAsAsked, Adding, Installing, Handling
<1> QED BY <1>6, <1>8, <1>9 DEF EInv

LEMMA DelEInv ==
    ASSUME Plainly, IInv, EInv, NEW ns \in SUBSET Names, NEW opts \in SUBSET Flags, Del(ns, opts)
    PROVE  EInv'
<1>1. /\ job.pc = "idle" /\ rec' = rec /\ job'.pc = "replace" /\ job'.kind = "del"
      /\ job'.opts = opts /\ job'.victims = ns
      /\ ("force" \in opts \/ \A n \in ns : Dependents(n) \subseteq ns)
  BY DelDoes DEF SameDisk
<1>2. opts \cap {"force", "no_deps"} = {}
  BY DEF Plainly
<1>3. \A n \in ns : Dependents(n) \subseteq ns
  BY <1>1, <1>2
<1>4. ASSUME NEW n \in Names, Met(n)', NEW d \in DependsOf[rec[n]] PROVE Met(d)'
  <2>1. Installed(n) /\ n \notin ns
    BY <1>1, <1>4 DEF Met, Installed, Removing
  <2>2. Installed(d)
    BY <1>1, <2>1 DEF EInv, DependenciesMet, Met, Removing
  <2>3. d \notin ns
    BY <1>3, <2>1 DEF Dependents
  <2> QED BY <1>1, <2>2, <2>3 DEF Met, Installed
<1>5. DependenciesMet'
  BY <1>1, <1>4 DEF DependenciesMet
<1>6. QueueInOrder' /\ DoesAsAsked'
  BY <1>1, <1>2 DEF QueueInOrder, DoesAsAsked, Adding, Installing, Handling
<1> QED BY <1>5, <1>6 DEF EInv

\* The package's dependencies are there, so it may count as installed itself.
LEMMA PutEInv == IInv /\ EInv /\ Put => EInv'
<1> SUFFICES ASSUME IInv, EInv, Put PROVE EInv'
  OBVIOUS
<1>1. job.pc = "put" /\ job.queue # <<>> /\ Same(job')
  BY PutDoes DEF IInv, Queued, Handling
<1>2. CASE rec' = rec /\ job'.pc = "unregister" /\ job'.queue = job.queue
  BY <1>1, <1>2, StayEInv DEF Adding, Installing, Handling, Removing
<1>3. CASE /\ rec' = [rec EXCEPT ![NameOf[cur]] = cur]
           /\ job'.pc = "next" /\ job'.queue = Tail(job.queue)
  <2>1. /\ cur \in Pkgs /\ NameOf[cur] \in Names /\ cur # None
        /\ job.queue \in Seq(Pkgs) /\ cur = job.queue[1] /\ 1 \in DOMAIN job.queue
    BY <1>1, CurType, InstallAssumption DEF IInv, Types, Job, cur
  <2>2. \A n \in Names : rec'[n] = IF n = NameOf[cur] THEN cur ELSE rec[n]
    BY <1>3, <2>1 DEF IInv, Types
  <2>3. \A n \in Names : (Installed(n) \/ n = NameOf[cur] => Installed(n)') /\ Met(n)' = Installed(n)'
    BY <1>3, <2>1, <2>2 DEF Installed, Met, Removing
  <2>4. job.kind = "add"
    BY <1>1 DEF EInv, DoesAsAsked, Adding, Installing, Handling
  <2>5. \A p \in Pkgs : DependsOf[p] \subseteq Names
    BY InstallAssumption
  <2>6. \A d \in DependsOf[cur] : Installed(d)
    BY <2>1, <2>4 DEF EInv, QueueInOrder
  <2>7. ASSUME NEW n \in Names, Met(n)', NEW d \in DependsOf[rec'[n]] PROVE Met(d)'
    <3>1. CASE n = NameOf[cur]
      BY <2>1, <2>2, <2>3, <2>5, <2>6, <2>7, <3>1
    <3>2. CASE n # NameOf[cur]
      <4>1. rec'[n] = rec[n] /\ rec[n] \in Pkgs /\ Met(n)
        BY <1>1, <2>2, <2>3, <2>7, <3>2 DEF IInv, Types, Installed, Met, Removing
      <4>2. Installed(d) /\ d \in Names
        BY <2>5, <2>7, <4>1 DEF EInv, DependenciesMet, Met
      <4> QED BY <2>3, <4>2
    <3> QED BY <3>1, <3>2
  <2>8. DependenciesMet'
    BY <2>7 DEF DependenciesMet
  <2>9. ASSUME NEW i \in DOMAIN Tail(job.queue), NEW d \in DependsOf[Tail(job.queue)[i]], ~Installed(d)'
        PROVE  \E j \in 1..(i - 1) : d = NameOf[Tail(job.queue)[j]]
    <3>1. /\ i + 1 \in DOMAIN job.queue /\ i \in Nat /\ Tail(job.queue)[i] = job.queue[i + 1]
          /\ job.queue[i + 1] \in Pkgs
      BY <2>1, <2>9
    <3>2. d \in Names
      BY <2>5, <2>9, <3>1
    <3>3. ~Installed(d) /\ d # NameOf[cur]
      BY <2>3, <2>9, <3>2
    <3>4. PICK j \in 1..((i + 1) - 1) : d = NameOf[job.queue[j]]
      BY <2>4, <2>9, <3>1, <3>3 DEF EInv, QueueInOrder
    <3>5. j # 1
      BY <2>1, <3>3, <3>4
    <3>6. j - 1 \in 1..(i - 1) /\ j - 1 \in 1..Len(Tail(job.queue))
      BY <2>1, <3>1, <3>4, <3>5
    <3>7. Tail(job.queue)[j - 1] = job.queue[j]
      BY <2>1, <3>6
    <3> QED BY <3>4, <3>6, <3>7
  <2>10. QueueInOrder'
    BY <1>3, <2>9 DEF QueueInOrder
  <2>11. DoesAsAsked'
    BY <1>1, <1>3, <2>4 DEF EInv, DoesAsAsked, Same, Removing
  <2> QED BY <2>8, <2>10, <2>11 DEF EInv
<1> QED BY <1>2, <1>3, PutDoes DEF IInv

LEMMA BeginRemoveEInv == IInv /\ EInv /\ BeginRemove => EInv'
<1> SUFFICES ASSUME IInv, EInv, BeginRemove PROVE EInv'
  OBVIOUS
<1>1. job.pc = "replace" /\ rec' = rec
  BY BeginRemoveDoes DEF IInv, SameDisk
<1>2. CASE job' = Idle /\ job.victims = {}
  BY <1>1, <1>2, IdleEInv
<1>3. CASE /\ job'.opts = job.opts /\ job'.kind = job.kind /\ job'.queue = job.queue
           /\ job'.victims = job.victims
           /\ \/ job'.pc = "rm files" /\ job'.victim \in job.victims
              \/ job'.pc = "check" /\ job.victims = {} /\ job.kind = "add"
  <2>1. \A n : Met(n)' = Met(n)
    BY <1>1, <1>3, SameInstalled DEF Met, Removing
  <2>2. DependenciesMet'
    BY <1>1, <2>1 DEF EInv, DependenciesMet
  <2>3. QueueInOrder'
    BY <1>1, <1>3, QueueStays DEF EInv
  <2>4. DoesAsAsked'
    BY <1>1, <1>3 DEF EInv, DoesAsAsked, Removing, Adding, Installing, Handling, victim
  <2> QED BY <2>2, <2>3, <2>4 DEF EInv
<1>4. CASE job.victims = {} /\ job' = RemovalDone({})
  BY <1>2, <1>3, <1>4, RemovalDoneDoes DEF IInv
<1> QED BY <1>3, <1>4, BeginRemoveDoes DEF IInv

LEMMA RemoveFileEInv == IInv /\ EInv /\ (RemoveFile \/ RemoveLines) => EInv'
<1> SUFFICES ASSUME IInv, EInv, RemoveFile \/ RemoveLines PROVE EInv'
  OBVIOUS
<1>1. /\ rec' = rec /\ Same(job') /\ job'.queue = job.queue
      /\ job.pc \in {"rm files", "rm lines"} /\ job'.pc \in {"rm files", "rm lines", "rm record"}
  BY RemoveFileDoes, RemoveLinesDoes DEF IInv
<1>2. \A n : Met(n)' = Met(n)
  BY <1>1, SameInstalled DEF Met, Removing, Same
<1>3. DependenciesMet'
  BY <1>1, <1>2 DEF EInv, DependenciesMet
<1>4. QueueInOrder'
  BY <1>1, QueueStays DEF EInv, Same
<1>5. DoesAsAsked'
  BY <1>1 DEF EInv, DoesAsAsked, Removing, Adding, Installing, Handling, victim, Same
<1> QED BY <1>3, <1>4, <1>5 DEF EInv

\* What goes is what was about to go.
LEMMA RemoveRecordEInv == Plainly /\ IInv /\ EInv /\ RemoveRecord => EInv'
<1> SUFFICES ASSUME Plainly, IInv, EInv, RemoveRecord PROVE EInv'
  OBVIOUS
<1>1. PICK v : v = victim
  OBVIOUS
<1>2. /\ job.pc = "rm record" /\ rec' = [rec EXCEPT ![v] = None]
      /\ job' = RemovalDone(job.victims \ {v})
  BY <1>1, RemoveRecordDoes DEF IInv, Plainly
<1>3. v \in job.victims /\ job.kind = "del"
  <2>1. job.kind \in {"add", "del"}
    BY DEF IInv, Types, Job
  <2> QED BY <1>1, <1>2, <2>1 DEF EInv, DoesAsAsked, Removing
<1>4. \/ /\ job'.pc = "replace" /\ job'.victims = job.victims \ {v} /\ job'.opts = job.opts
         /\ job'.kind = "del"
      \/ /\ job' = Idle /\ job.victims \ {v} = {}
  BY <1>2, <1>3, RemovalDoneDoes DEF IInv
<1>5. \A n \in Names : rec'[n] = IF n = v THEN None ELSE rec[n]
  BY <1>2 DEF IInv, Types
<1>6. \A n \in Names : Met(n)' = Met(n)
  BY <1>2, <1>3, <1>4, <1>5, IdleDoes DEF Met, Installed, Removing
<1>7. \A n \in Names : Met(n) => rec'[n] = rec[n] /\ DependsOf[rec[n]] \subseteq Names
  BY <1>2, <1>3, <1>5, InstallAssumption DEF Met, Installed, Removing, IInv, Types
<1>8. DependenciesMet'
  BY <1>6, <1>7 DEF EInv, DependenciesMet
<1>9. QueueInOrder'
  BY <1>4, IdleDoes DEF QueueInOrder
<1>10. DoesAsAsked'
  BY <1>4, IdleDoes DEF EInv, DoesAsAsked, Removing, Adding, Installing, Handling
<1> QED BY <1>8, <1>9, <1>10 DEF EInv

LEMMA NextEInv == Plainly /\ IInv /\ EInv /\ [Next]_vars => EInv'
<1> SUFFICES ASSUME Plainly, IInv, EInv, [Next]_vars PROVE EInv'
  OBVIOUS
<1>1. CASE UNCHANGED vars
  <2>1. rec' = rec /\ job' = job
    BY <1>1 DEF vars
  <2>2. \A n : Met(n)' = Met(n)
    BY <2>1, SameInstalled DEF Met
  <2>3. DependenciesMet' /\ DoesAsAsked'
    BY <2>1, <2>2 DEF EInv, DependenciesMet, DoesAsAsked, victim
  <2> QED BY <2>1, <2>3, QueueStays DEF EInv
<1>2. ASSUME NEW ps \in AddRequests, NEW opts \in SUBSET (Flags \ {"purge"}),
             NEW order \in Orders(ps), Add(ps, order, opts)
      PROVE  EInv'
  BY <1>2, AddEInv
<1>3. ASSUME NEW ns \in SUBSET Names, NEW opts \in SUBSET (Flags \ {"no_deps"}), Del(ns, opts)
      PROVE  EInv'
  BY <1>3, DelEInv
<1>4. CASE Check \/ AddDone \/ Verify
  BY <1>4, CheckDoes, AddDoneDoes, VerifyDoes, StayEInv, IdleEInv
     DEF IInv, SameDisk, Adding, Installing, Handling, Removing
<1>5. CASE UnlinkOld \/ UnregisterOld \/ Unpack
  BY <1>5, UnlinkOldDoes, UnregisterOldDoes, UnpackDoes, StayEInv, IdleEInv
     DEF IInv, SameDisk, Adding, Installing, Handling, Removing
<1>6. CASE ExtractMember \/ ExtractDone \/ RegisterMember \/ RegisterDone
  BY <1>6, ExtractMemberDoes, ExtractDoneDoes, RegisterMemberDoes, RegisterDoneDoes, StayEInv
     DEF IInv, SameDisk, Adding, Installing, Handling, Removing
<1>7. CASE UnregisterNew \/ UndoFile \/ UndoDirs
  BY <1>7, UnregisterNewDoes, UndoFileDoes, UndoDirsDoes, StayEInv, IdleEInv
     DEF IInv, Adding, Installing, Handling, Removing
<1>8. CASE VerifyFails \/ Crash
  BY <1>8, VerifyFailsDoes, CrashDoes DEF IInv, Plainly
<1> QED BY <1>1, <1>2, <1>3, <1>4, <1>5, <1>6, <1>7, <1>8, PutEInv, BeginRemoveEInv,
     RemoveFileEInv, RemoveRecordEInv DEF Next, Work

LEMMA InitEInv == Init => EInv
<1> SUFFICES ASSUME Init PROVE EInv
  OBVIOUS
<1>1. job.pc = "idle" /\ job.queue = <<>> /\ job.opts = {}
  BY IdleDoes DEF Init
<1>2. \A n \in Names : ~Met(n)
  BY DEF Init, Met, Installed
<1> QED BY <1>1, <1>2 DEF EInv, DoesAsAsked, DependenciesMet, QueueInOrder, Adding, Installing,
                          Handling, Removing

\* Between transactions every dependency of an installed package is installed:
\* the order resolve_with_local gives survives any failure that ends an add, and
\* a del takes dependents along.  Where it does not hold is in the hypotheses, and
\* each of them is something the code lets pass.
THEOREM DependenciesStay == ASSUME Plainly PROVE Spec => []DependenciesInstalled
<1>1. EInv => DependenciesInstalled
  BY DEF EInv, DependenciesMet, DependenciesInstalled, IsIdle, Met, Removing
<1>2. Spec => [](IInv /\ EInv)
  BY InitIInv, NextIInv, InitEInv, NextEInv, PTL DEF Spec
<1> QED BY <1>1, <1>2, PTL

=============================================================================
