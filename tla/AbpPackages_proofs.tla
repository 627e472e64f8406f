--------------------------- MODULE AbpPackages_proofs ---------------------------
(***************************************************************************)
(* Theorems about what abp does with packages before and after they are on *)
(* disk: the search for what a request needs (AbpResolver), for any        *)
(* packages, dependencies, versions and worlds; the walk through a payload *)
(* (AbpPayload), for any archives, manifests and disks; the configuration  *)
(* of its repositories (AbpRepo), for any repositories, indexes and number *)
(* of processes; the transaction log (AbpTransaction), for any files and   *)
(* operations; the order of versions (AbpVersion), for any strings; and    *)
(* the binary index (AbpPkgIndex), for any packages that it can hold.      *)
(***************************************************************************)
EXTENDS AbpResolver, AbpVersion, AbpPayload, AbpRepo, AbpTransaction, AbpPkgIndex,
        SequenceTheorems, WellFoundedInduction, TLAPS

-----------------------------------------------------------------------------
(* Dependencies                                                            *)

Depth == Len(frames)
Callee(i) == IF i < Depth THEN {frames[i + 1].name} ELSE {}

\* Which names are resolved is what the order says.
SeenIsResolved == seen = {resolved[i] : i \in DOMAIN resolved}

\* The calls in progress are for different names, none of them resolved, each
\* known and with some of its dependencies still to come.
FramesApart ==
    \A i \in DOMAIN frames :
        /\ Known(frames[i].name) /\ frames[i].name \notin seen
        /\ frames[i].left \subseteq DependsOf(frames[i].name)
        /\ \A j \in DOMAIN frames : i # j => frames[i].name # frames[j].name

\* A dependency that a call has left behind is met, resolved, or what the call
\* is waiting for: the callee.
FramesDone ==
    \A i \in DOMAIN frames : \A d \in DependsOf(frames[i].name) \ frames[i].left :
        Met(d) \/ Targets(d) \cap (seen \cup Callee(i)) # {}

Inv ==
    /\ TypeOK /\ SeenIsResolved /\ OrderedOnce /\ DependenciesFirst
    /\ FramesApart /\ FramesDone

-----------------------------------------------------------------------------
(* The world does not change, and with it what a name means.               *)

LEMMA DependsOfType ==
    ASSUME IsWorld(world), NEW n \in Names, Known(n)
    PROVE  DependsOf(n) \subseteq Deps
BY DEF IsWorld, PartialFn, Package, Known, IsLocal, IsAvailable, IsInstalled, DependsOf

LEMMA TargetsType ==
    ASSUME NEW d \in Deps
    PROVE  Targets(d) \subseteq Names
BY ResolverAssumption DEF Targets, Providers

LEMMA WorldStays ==
    ASSUME world' = world
    PROVE  /\ \A n : DependsOf(n)' = DependsOf(n)
           /\ \A d : Met(d)' <=> Met(d)
           /\ \A d : Targets(d)' = Targets(d)
           /\ \A n : Known(n)' <=> Known(n)
           /\ IsWorld(world)' <=> IsWorld(world)
<1>1. \A n : (IsLocal(n)' <=> IsLocal(n)) /\ (IsAvailable(n)' <=> IsAvailable(n))
              /\ (IsInstalled(n)' <=> IsInstalled(n))
  BY DEF IsLocal, IsAvailable, IsInstalled
<1>2. \A n : DependsOf(n)' = DependsOf(n)
  BY <1>1 DEF DependsOf
<1>3. \A d : Met(d)' <=> Met(d)
  BY <1>1 DEF Met
<1>4. \A n : Providers(n)' = Providers(n)
  BY <1>1 DEF Providers
<1>5. \A d : Targets(d)' = Targets(d)
  BY <1>1, <1>4 DEF Targets
<1> QED BY <1>1, <1>2, <1>3, <1>5 DEF Known, IsWorld

-----------------------------------------------------------------------------
(* The stack                                                               *)

LEMMA Push ==
    ASSUME NEW s \in Seq(Frame), NEW e \in Frame
    PROVE  /\ Append(s, e) \in Seq(Frame)
           /\ Len(Append(s, e)) = Len(s) + 1
           /\ DOMAIN Append(s, e) = 1..(Len(s) + 1)
           /\ Append(s, e)[Len(s) + 1] = e
           /\ \A i \in 1..Len(s) : Append(s, e)[i] = s[i]
OBVIOUS

LEMMA LenOfPrefix ==
    ASSUME NEW s \in Seq(Frame), NEW m \in 0..Len(s)
    PROVE  Len(SubSeq(s, 1, m)) = m
<1>1. SubSeq(s, 1, m) = Restrict(s, 1..m)
  BY SubSeqRestrict
<1> QED BY <1>1 DEF Restrict

LEMMA Pop ==
    ASSUME NEW s \in Seq(Frame), s # <<>>
    PROVE  /\ SubSeq(s, 1, Len(s) - 1) \in Seq(Frame)
           /\ Len(SubSeq(s, 1, Len(s) - 1)) = Len(s) - 1
           /\ DOMAIN SubSeq(s, 1, Len(s) - 1) = 1..(Len(s) - 1)
           /\ \A i \in 1..(Len(s) - 1) : SubSeq(s, 1, Len(s) - 1)[i] = s[i]
<1> DEFINE t == SubSeq(s, 1, Len(s) - 1)
<1>1. Len(s) \in Nat \ {0}
  BY EmptySeq
<1>2. t \in Seq(Frame)
  OBVIOUS
<1>a. Len(s) - 1 \in 0..Len(s)
  BY <1>1
<1>3. Len(t) = Len(s) - 1
  BY <1>a, LenOfPrefix, Zenon
<1>4. \A i \in 1..(Len(s) - 1) : t[i] = s[i]
  OBVIOUS
<1>5. DOMAIN t = 1..Len(t)
  <2> HIDE DEF t
  <2> QED BY <1>2, LenProperties
<1> QED BY <1>2, <1>3, <1>4, <1>5

LEMMA Advance ==
    ASSUME frames \in Seq(Frame), frames # <<>>, NEW d
    PROVE  /\ Advanced(d) \in Seq(Frame)
           /\ Len(Advanced(d)) = Depth /\ DOMAIN Advanced(d) = 1..Depth /\ Depth \in Nat \ {0}
           /\ \A i \in 1..Depth : Advanced(d)[i].name = frames[i].name
           /\ Advanced(d)[Depth].left = Top.left \ {d}
           /\ \A i \in 1..(Depth - 1) : Advanced(d)[i] = frames[i]
<1> DEFINE e == [Top EXCEPT !.left = @ \ {d}]
<1>1. Depth \in Nat \ {0} /\ Depth \in 1..Depth
  BY EmptySeq DEF Depth
<1>2. Top \in Frame
  BY <1>1, ElementOfSeq DEF Top, Depth
<1>3. e \in Frame /\ e.name = Top.name /\ e.left = Top.left \ {d}
  BY <1>2 DEF Frame
<1>4. Advanced(d) = [frames EXCEPT ![Depth] = e]
  BY DEF Advanced, Top, Depth
<1> HIDE DEF e
<1>5. /\ Advanced(d) \in Seq(Frame) /\ Len(Advanced(d)) = Depth
      /\ \A j \in 1..Depth : Advanced(d)[j] = IF j = Depth THEN e ELSE frames[j]
  BY <1>1, <1>3, <1>4, ExceptSeq DEF Depth
<1>6. DOMAIN Advanced(d) = 1..Depth
  BY <1>5, LenProperties
<1>7. \A i \in 1..Depth : Advanced(d)[i].name = frames[i].name
  BY <1>3, <1>5 DEF Top, Depth
<1>8. Advanced(d)[Depth].left = Top.left \ {d}
  BY <1>1, <1>3, <1>5
<1>9. \A i \in 1..(Depth - 1) : Advanced(d)[i] = frames[i]
  BY <1>1, <1>5
<1> QED BY <1>1, <1>5, <1>6, <1>7, <1>8, <1>9

-----------------------------------------------------------------------------
(* What holds of the order stays when the order stays.                     *)

LEMMA OrderStays ==
    ASSUME Inv, world' = world, seen' = seen, resolved' = resolved
    PROVE  SeenIsResolved' /\ OrderedOnce' /\ DependenciesFirst'
<1>1. DependenciesFirst'
  BY WorldStays DEF Inv, DependenciesFirst
<1> QED BY <1>1 DEF Inv, SeenIsResolved, OrderedOnce

\* A call, from callers that have noted the dependency it is made for.
LEMMA EnterKeepsFrames ==
    ASSUME Inv, world' = world, NEW n \in Names, NEW callers \in Seq(Frame),
           Len(callers) = Depth,
           \A i \in 1..Depth : callers[i].name = frames[i].name
                              /\ callers[i].left \subseteq frames[i].left,
           \A i \in 1..Depth : \A d \in DependsOf(frames[i].name) \ callers[i].left :
               \/ Met(d) \/ Targets(d) \cap (seen \cup Callee(i)) # {}
               \/ i = Depth /\ n \in Targets(d),
           Enter(n, callers)
    PROVE  FramesApart' /\ FramesDone' /\ frames' \in Seq(Frame) /\ result' \in Results
<1>1. Depth \in Nat /\ DOMAIN frames = 1..Depth /\ DOMAIN callers = 1..Depth
  BY LenProperties DEF Inv, TypeOK, Depth
<1>2. seen' = seen
  BY DEF Enter
<1>3. CASE frames' = frames /\ result' \in Results
  <2>1. FramesApart'
    BY <1>2, <1>3, WorldStays DEF Inv, FramesApart
  <2>2. FramesDone'
    BY <1>2, <1>3, WorldStays DEF Inv, FramesDone, Callee, Depth
  <2> QED BY <1>3, <2>1, <2>2 DEF Inv, TypeOK
<1>4. CASE n \in seen /\ frames' = callers /\ result' = result
  <2>a. Depth' = Depth
    BY <1>4 DEF Depth
  <2>1. \A i \in 1..Depth : Callee(i)' = Callee(i)
    <3> SUFFICES ASSUME NEW i \in 1..Depth PROVE Callee(i)' = Callee(i)
      OBVIOUS
    <3>1. CASE i < Depth
      <4>1. i + 1 \in 1..Depth
        BY <1>1, <3>1
      <4>2. frames'[i + 1].name = frames[i + 1].name
        BY <1>4, <4>1
      <4> QED BY <2>a, <3>1, <4>2 DEF Callee
    <3>2. CASE ~(i < Depth)
      BY <2>a, <3>2 DEF Callee
    <3> QED BY <3>1, <3>2
  <2>2. FramesApart'
    BY <1>1, <1>2, <1>4, WorldStays DEF Inv, FramesApart
  <2>3. FramesDone'
    <3> SUFFICES ASSUME NEW i \in 1..Depth, NEW d \in DependsOf(frames[i].name) \ callers[i].left
                 PROVE  Met(d) \/ Targets(d) \cap (seen \cup Callee(i)) # {}
      BY <1>1, <1>2, <1>4, <2>1, WorldStays DEF FramesDone
    <3> QED BY <1>4
  <2> QED BY <1>4, <2>2, <2>3 DEF Inv, TypeOK
<1>5. CASE /\ n \notin seen \cup OnStack /\ Known(n) /\ result' = result
           /\ frames' = Append(callers, [name |-> n, left |-> DependsOf(n)])
  <2> DEFINE e == [name |-> n, left |-> DependsOf(n)]
  <2>1. e \in Frame /\ e.name = n /\ e.left = DependsOf(n)
    BY <1>5, DependsOfType DEF Inv, TypeOK, Frame
  <2>2. /\ frames' \in Seq(Frame) /\ Depth' = Depth + 1 /\ DOMAIN frames' = 1..(Depth + 1)
        /\ frames'[Depth + 1] = e
        /\ \A i \in 1..Depth : frames'[i] = callers[i]
    <3> HIDE DEF e
    <3> QED BY <1>5, <2>1, Push DEF Depth, e
  <2>3. \A i \in 1..(Depth + 1) : i \in 1..Depth \/ i = Depth + 1
    BY <1>1
  <2>4. \A i \in 1..Depth : frames[i].name # n
    BY <1>1, <1>5 DEF OnStack
  <2>5. FramesApart'
    <3> SUFFICES ASSUME NEW i \in 1..(Depth + 1)
                 PROVE  /\ Known(frames'[i].name) /\ frames'[i].name \notin seen
                        /\ frames'[i].left \subseteq DependsOf(frames'[i].name)
                        /\ \A j \in 1..(Depth + 1) : i # j => frames'[i].name # frames'[j].name
      BY <1>2, <2>2, WorldStays DEF FramesApart
    <3>1. CASE i \in 1..Depth
      <4>1. frames'[i].name = frames[i].name /\ frames'[i].left \subseteq frames[i].left
        BY <2>2, <3>1
      <4>2. /\ Known(frames[i].name) /\ frames[i].name \notin seen
            /\ frames[i].left \subseteq DependsOf(frames[i].name)
            /\ \A j \in 1..Depth : i # j => frames[i].name # frames[j].name
        BY <1>1, <3>1 DEF Inv, FramesApart
      <4>3. \A j \in 1..(Depth + 1) : i # j => frames[i].name # frames'[j].name
        <5> SUFFICES ASSUME NEW j \in 1..(Depth + 1), i # j
                     PROVE  frames[i].name # frames'[j].name
          OBVIOUS
        <5>1. CASE j \in 1..Depth
          BY <2>2, <4>2, <5>1
        <5>2. CASE j = Depth + 1
          BY <2>1, <2>2, <2>4, <3>1, <5>2
        <5> QED BY <2>3, <5>1, <5>2
      <4> QED BY <4>1, <4>2, <4>3
    <3>2. CASE i = Depth + 1
      <4>1. frames'[i] = e
        BY <2>2, <3>2
      <4>2. n \notin seen /\ Known(n)
        BY <1>5
      <4>3. \A j \in 1..(Depth + 1) : i # j => frames'[j].name # n
        <5> SUFFICES ASSUME NEW j \in 1..(Depth + 1), i # j PROVE frames'[j].name # n
          OBVIOUS
        <5>1. j \in 1..Depth
          BY <2>3, <3>2
        <5>2. frames'[j].name = frames[j].name
          BY <2>2, <5>1
        <5> QED BY <2>4, <5>1, <5>2
      <4> HIDE DEF e
      <4> QED BY <2>1, <4>1, <4>2, <4>3
    <3> QED BY <2>3, <3>1, <3>2
  <2>6. \A i \in 1..Depth : Callee(i)' = IF i < Depth THEN Callee(i) ELSE {n}
    <3> HIDE DEF e
    <3> SUFFICES ASSUME NEW i \in 1..Depth
                 PROVE  Callee(i)' = IF i < Depth THEN Callee(i) ELSE {n}
      OBVIOUS
    <3>0. i < Depth' /\ Callee(i)' = {frames'[i + 1].name}
      BY <1>1, <2>2 DEF Callee
    <3>1. CASE i < Depth
      <4>1. i + 1 \in 1..Depth
        BY <1>1, <3>1
      <4>2. frames'[i + 1].name = frames[i + 1].name
        BY <2>2, <4>1
      <4> QED BY <3>0, <3>1, <4>2 DEF Callee
    <3>2. CASE ~(i < Depth)
      <4>1. i + 1 = Depth + 1
        BY <1>1, <3>2
      <4> QED BY <2>1, <2>2, <3>0, <3>2, <4>1
    <3> QED BY <3>1, <3>2
  <2>7. FramesDone'
    <3> SUFFICES ASSUME NEW i \in 1..(Depth + 1),
                        NEW d \in DependsOf(frames'[i].name) \ frames'[i].left
                 PROVE  Met(d) \/ Targets(d) \cap (seen \cup Callee(i)') # {}
      BY <1>2, <2>2, WorldStays DEF FramesDone
    <3>1. i \in 1..Depth
      BY <2>1, <2>2, <2>3
    <3>2. d \in DependsOf(frames[i].name) \ callers[i].left
      BY <2>2, <3>1
    <3>3. Callee(i) \subseteq Callee(i)'
      BY <1>1, <2>6, <3>1 DEF Callee
    <3>4. CASE i = Depth /\ n \in Targets(d)
      BY <1>1, <2>6, <3>1, <3>4
    <3> QED BY <3>1, <3>2, <3>3, <3>4
  <2> QED BY <1>5, <2>2, <2>5, <2>7 DEF Inv, TypeOK
<1> QED BY <1>3, <1>4, <1>5 DEF Enter, Inv, TypeOK, Results

-----------------------------------------------------------------------------
(* Every step                                                              *)

LEMMA InvInit == Init => Inv
<1> SUFFICES ASSUME Init PROVE Inv
  OBVIOUS
<1>a. IsWorld(world)
  BY ResolverAssumption DEF Init
<1>b. todo \subseteq Names
  BY <1>a DEF Init, IsWorld
<1>c. frames \in Seq(Frame) /\ resolved \in Seq(Names)
  BY DEF Init
<1>1. TypeOK
  BY <1>a, <1>b, <1>c DEF Init, TypeOK, Results
<1>2. DOMAIN frames = {} /\ DOMAIN resolved = {}
  BY DEF Init
<1> QED BY <1>1, <1>2 DEF Init, Inv, SeenIsResolved, OrderedOnce, DependenciesFirst,
                          FramesApart, FramesDone

LEMMA InvRequest == Inv /\ Request => Inv'
<1> SUFFICES ASSUME Inv, Request PROVE Inv'
  OBVIOUS
<1>1. PICK n \in todo : Enter(n, <<>>) /\ todo' = todo \ {n}
  BY DEF Request
<1>2. n \in Names /\ todo' \subseteq Names
  BY <1>1 DEF Inv, TypeOK
<1>3. Depth = 0 /\ <<>> \in Seq(Frame) /\ Len(<<>>) = 0
  BY DEF Request, Depth
<1>4. world' = world /\ resolved' = resolved /\ seen' = seen
  BY <1>1 DEF Request, Enter
<1>5. 1..Depth = {}
  BY <1>3
<1>6. FramesApart' /\ FramesDone' /\ frames' \in Seq(Frame) /\ result' \in Results
  BY <1>1, <1>2, <1>3, <1>4, <1>5, EnterKeepsFrames
<1> QED BY <1>2, <1>4, <1>6, OrderStays, WorldStays DEF Inv, TypeOK

LEMMA InvAdvance ==
    ASSUME Inv, result = "running", frames # <<>>, NEW d \in Top.left
    PROVE  /\ Top.name = frames[Depth].name /\ Top.left \subseteq DependsOf(Top.name)
           /\ d \in Deps /\ Depth \in 1..Depth /\ Depth \in Nat
<1>1. Depth \in Nat \ {0} /\ DOMAIN frames = 1..Depth
  BY EmptySeq, LenProperties DEF Inv, TypeOK, Depth
<1>2. Top \in Frame
  BY <1>1, ElementOfSeq DEF Inv, TypeOK, Top, Depth
<1> QED BY <1>1, <1>2 DEF Inv, FramesApart, Top, Depth, Frame

LEMMA InvSkipMet == Inv /\ SkipMet => Inv'
<1> SUFFICES ASSUME Inv, SkipMet PROVE Inv'
  OBVIOUS
<1>1. PICK d \in Top.left : Met(d) /\ frames' = Advanced(d)
  BY DEF SkipMet
<1>2. result = "running" /\ frames # <<>> /\ frames \in Seq(Frame)
      /\ UNCHANGED <<world, todo, seen, resolved, result>>
  BY DEF SkipMet, Inv, TypeOK
<1>3. /\ frames' \in Seq(Frame) /\ Depth' = Depth /\ DOMAIN frames' = 1..Depth
      /\ Depth \in Nat \ {0}
      /\ \A i \in 1..Depth : frames'[i].name = frames[i].name
      /\ frames'[Depth].left = frames[Depth].left \ {d}
      /\ \A i \in 1..(Depth - 1) : frames'[i] = frames[i]
  BY <1>1, <1>2, Advance DEF Depth, Top
<1>4. DOMAIN frames = 1..Depth
  BY <1>2, LenProperties DEF Depth
<1>5. \A i \in 1..Depth : i = Depth \/ i \in 1..(Depth - 1)
  BY <1>3
<1>6. \A i \in 1..Depth : frames'[i].left \subseteq frames[i].left
                        /\ frames[i].left \subseteq frames'[i].left \cup {d}
  BY <1>3, <1>5
<1>7. FramesApart'
  BY <1>2, <1>3, <1>4, <1>6, WorldStays DEF Inv, FramesApart
<1>8. FramesDone'
  <2> SUFFICES ASSUME NEW i \in 1..Depth, NEW x \in DependsOf(frames[i].name) \ frames'[i].left
               PROVE  Met(x) \/ Targets(x) \cap (seen \cup Callee(i)') # {}
    BY <1>2, <1>3, WorldStays DEF FramesDone
  <2>1. Callee(i)' = Callee(i)
    <3>1. CASE i < Depth
      <4>1. i + 1 \in 1..Depth
        BY <1>3, <3>1
      <4>2. frames'[i + 1].name = frames[i + 1].name
        BY <1>3, <4>1
      <4> QED BY <1>3, <3>1, <4>2 DEF Callee
    <3>2. CASE ~(i < Depth)
      BY <1>3, <3>2 DEF Callee
    <3> QED BY <3>1, <3>2
  <2>2. CASE x = d
    BY <1>1, <2>2
  <2>3. CASE x # d
    <3>1. x \in DependsOf(frames[i].name) \ frames[i].left
      BY <1>6, <2>3
    <3> QED BY <1>4, <2>1, <3>1 DEF Inv, FramesDone
  <2> QED BY <2>2, <2>3
<1> QED BY <1>2, <1>3, <1>7, <1>8, OrderStays, WorldStays DEF Inv, TypeOK

LEMMA InvDescend == Inv /\ Descend => Inv'
<1> SUFFICES ASSUME Inv, Descend PROVE Inv'
  OBVIOUS
<1>0. PICK d \in Top.left : \E n \in Targets(d) : Enter(n, Advanced(d))
  BY DEF Descend
<1>1. PICK n \in Targets(d) : Enter(n, Advanced(d))
  BY <1>0
<1>2. result = "running" /\ frames # <<>> /\ frames \in Seq(Frame)
      /\ UNCHANGED <<world, todo, resolved>> /\ seen' = seen
  BY <1>1 DEF Descend, Inv, TypeOK, Enter
<1>3. n \in Names
  <2>1. d \in Deps
    BY <1>1, <1>2, InvAdvance
  <2> QED BY <1>1, <2>1, TargetsType
<1> DEFINE callers == Advanced(d)
<1>4. /\ callers \in Seq(Frame) /\ Len(callers) = Depth /\ Depth \in Nat \ {0}
      /\ \A i \in 1..Depth : callers[i].name = frames[i].name
      /\ callers[Depth].left = frames[Depth].left \ {d}
      /\ \A i \in 1..(Depth - 1) : callers[i] = frames[i]
  BY <1>2, Advance DEF Depth, Top
<1>5. Enter(n, callers)
  BY <1>1
<1> HIDE DEF callers
<1>6. \A i \in 1..Depth : i = Depth \/ i \in 1..(Depth - 1)
  BY <1>4
<1>7. \A i \in 1..Depth : callers[i].left \subseteq frames[i].left
  BY <1>4, <1>6
<1>8. ASSUME NEW i \in 1..Depth, NEW x \in DependsOf(frames[i].name) \ callers[i].left
      PROVE  \/ Met(x) \/ Targets(x) \cap (seen \cup Callee(i)) # {}
             \/ i = Depth /\ n \in Targets(x)
  <2>1. DOMAIN frames = 1..Depth
    BY <1>2, LenProperties DEF Depth
  <2>2. CASE x \in frames[i].left
    <3>1. i = Depth /\ x = d
      BY <1>4, <1>6, <1>8, <2>2
    <3> QED BY <1>1, <3>1
  <2>3. CASE x \notin frames[i].left
    BY <1>8, <2>1, <2>3 DEF Inv, FramesDone
  <2> QED BY <2>2, <2>3
<1>9. FramesApart' /\ FramesDone' /\ frames' \in Seq(Frame) /\ result' \in Results
  BY <1>2, <1>3, <1>4, <1>5, <1>7, <1>8, EnterKeepsFrames
<1> QED BY <1>2, <1>9, OrderStays, WorldStays DEF Inv, TypeOK

LEMMA InvReturn == Inv /\ Return => Inv'
<1> SUFFICES ASSUME Inv, Return PROVE Inv'
  OBVIOUS
<1> DEFINE n == Top.name
<1>1. frames # <<>> /\ frames \in Seq(Frame) /\ resolved \in Seq(Names) /\ world' = world
      /\ Top.left = {} /\ UNCHANGED <<todo, result>> /\ seen' = seen \cup {n}
      /\ resolved' = Append(resolved, n)
  BY DEF Return, Inv, TypeOK
<1>2. /\ frames' \in Seq(Frame) /\ Depth' = Depth - 1 /\ DOMAIN frames' = 1..(Depth - 1)
      /\ \A i \in 1..(Depth - 1) : frames'[i] = frames[i]
  BY <1>1, Pop DEF Return, Depth
<1>3. Depth \in Nat \ {0} /\ DOMAIN frames = 1..Depth /\ n = frames[Depth].name
  BY <1>1, EmptySeq, LenProperties DEF Depth, Top
<1>4. n \in Names
  <2>1. Top \in Frame
    BY <1>1, <1>3, ElementOfSeq DEF Top, Depth
  <2> QED BY <2>1 DEF Frame
<1>5. Known(n) /\ n \notin seen /\ (\A i \in 1..(Depth - 1) : frames[i].name # n)
  BY <1>3 DEF Inv, FramesApart
<1>6. \A d \in DependsOf(n) : Met(d) \/ Targets(d) \cap seen # {}
  <2> SUFFICES ASSUME NEW d \in DependsOf(n) PROVE Met(d) \/ Targets(d) \cap seen # {}
    OBVIOUS
  <2>1. Depth \in DOMAIN frames /\ d \in DependsOf(frames[Depth].name) \ frames[Depth].left
    BY <1>1, <1>3 DEF Top, Depth
  <2>2. Callee(Depth) = {}
    BY <1>3 DEF Callee
  <2> QED BY <2>1, <2>2 DEF Inv, FramesDone
<1> HIDE DEF n
<1>7. /\ Len(resolved) \in Nat /\ DOMAIN resolved = 1..Len(resolved)
      /\ resolved' \in Seq(Names) /\ DOMAIN resolved' = 1..(Len(resolved) + 1)
      /\ resolved'[Len(resolved) + 1] = n
      /\ \A i \in 1..Len(resolved) : resolved'[i] = resolved[i]
  BY <1>1, <1>4
<1> DEFINE m == Len(resolved)
<1>8. \A i \in 1..(m + 1) : i \in 1..m \/ i = m + 1
  BY <1>7
<1>9. TypeOK'
  BY <1>1, <1>2, <1>4, <1>7, WorldStays DEF Inv, TypeOK
<1>10. SeenIsResolved'
  BY <1>1, <1>7, <1>8 DEF Inv, SeenIsResolved
<1>11. OrderedOnce'
  <2>1. \A i \in 1..m : resolved[i] # n
    BY <1>5, <1>7 DEF Inv, SeenIsResolved
  <2> QED BY <1>7, <1>8, <2>1 DEF Inv, OrderedOnce
<1>12. DependenciesFirst'
  <2> SUFFICES ASSUME NEW i \in 1..(m + 1), NEW d \in DependsOf(resolved'[i])
               PROVE  Met(d) \/ \E j \in 1..(i - 1) : resolved'[j] \in Targets(d)
    BY <1>1, <1>7, WorldStays DEF DependenciesFirst
  <2>1. CASE i \in 1..m
    <3>1. Met(d) \/ \E j \in 1..(i - 1) : resolved[j] \in Targets(d)
      BY <1>7, <2>1 DEF Inv, DependenciesFirst
    <3>2. \A j \in 1..(i - 1) : resolved'[j] = resolved[j]
      BY <1>7, <2>1
    <3> QED BY <3>1, <3>2
  <2>2. CASE i = m + 1
    <3>1. Met(d) \/ Targets(d) \cap seen # {}
      BY <1>6, <1>7, <2>2
    <3>2. \A x \in seen : \E j \in 1..m : resolved'[j] = x
      BY <1>7 DEF Inv, SeenIsResolved
    <3>3. i - 1 = m
      BY <1>7, <2>2
    <3> QED BY <3>1, <3>2, <3>3
  <2> QED BY <1>8, <2>1, <2>2
<1>13. \A i \in 1..(Depth - 1) : i \in 1..Depth /\ frames'[i] = frames[i] /\ frames[i].name # n
  BY <1>2, <1>3, <1>5
<1>14. FramesApart'
  BY <1>1, <1>2, <1>3, <1>13, WorldStays DEF Inv, FramesApart
<1>15. FramesDone'
  <2> SUFFICES ASSUME NEW i \in 1..(Depth - 1), NEW d \in DependsOf(frames[i].name) \ frames[i].left
               PROVE  Met(d) \/ Targets(d) \cap (seen \cup {n} \cup Callee(i)') # {}
    BY <1>1, <1>2, WorldStays DEF FramesDone
  <2>1. Met(d) \/ Targets(d) \cap (seen \cup Callee(i)) # {}
    BY <1>3, <1>13 DEF Inv, FramesDone
  <2>2. CASE i < Depth - 1
    <3>1. i + 1 \in 1..(Depth - 1) /\ i < Depth
      BY <1>3, <2>2
    <3>2. Callee(i)' = Callee(i)
      BY <1>2, <2>2, <3>1 DEF Callee
    <3> QED BY <2>1, <3>2
  <2>3. CASE i = Depth - 1
    <3>1. i < Depth /\ i + 1 = Depth
      BY <1>3, <2>3
    <3>2. Callee(i) = {n}
      BY <1>3, <3>1 DEF Callee
    <3> QED BY <2>1, <3>2
  <2> QED BY <1>3, <2>2, <2>3
<1> QED BY <1>9, <1>10, <1>11, <1>12, <1>14, <1>15 DEF Inv

LEMMA InvNext == Inv /\ [Next]_vars => Inv'
<1> SUFFICES ASSUME Inv, [Next]_vars PROVE Inv'
  OBVIOUS
<1>1. CASE UNCHANGED <<world, todo, frames, seen, resolved>> /\ result' \in Results
  <2>1. FramesApart' /\ FramesDone'
    BY <1>1, WorldStays DEF Inv, FramesApart, FramesDone, Callee, Depth
  <2> QED BY <1>1, <2>1, OrderStays, WorldStays DEF Inv, TypeOK
<1>2. CASE Finish \/ Unresolved \/ UNCHANGED vars
  BY <1>1, <1>2 DEF Finish, Unresolved, vars, Inv, TypeOK, Results
<1> QED BY <1>2, InvRequest, InvSkipMet, InvDescend, InvReturn DEF Next

THEOREM Invariant == Spec => []Inv
<1> QED BY InvInit, InvNext, PTL DEF Spec

\* Types: every state of the search is one of the expected kind.
THEOREM TypeCorrect == Spec => []TypeOK
<1>1. Inv => TypeOK
  BY DEF Inv
<1> QED BY <1>1, Invariant, PTL

\* Whatever the packages and the cycles among them, at any time of the search
\* a package stands in the order only behind one that meets each dependency it
\* has (resolve_package_local pushes a name after its loop).
THEOREM OrderHasDependenciesFirst == Spec => []DependenciesFirst
<1>1. Inv => DependenciesFirst
  BY DEF Inv
<1> QED BY <1>1, Invariant, PTL

\* And it stands there once (resolved_set is asked first).
THEOREM NoPackageTwice == Spec => []OrderedOnce
<1>1. Inv => OrderedOnce
  BY DEF Inv
<1> QED BY <1>1, Invariant, PTL

-----------------------------------------------------------------------------
(* What is needed.  Reached is an intersection of sets that no edge leaves: *)
(* to reach a name is to be in each of them.                               *)

Closed(S) == S \in SUBSET Names /\ \A e \in Edges : e[1] \in S => e[2] \in S
After(n) == {m \in Names : <<n, m>> \in Edges}

LEMMA ReachedIsInAll ==
    ASSUME NEW ns, NEW n
    PROVE  n \in Reached(ns) <=> n \in Names /\ \A S : Closed(S) /\ ns \subseteq S => n \in S
BY DEF Reached, Closed

LEMMA EdgesStay ==
    ASSUME world' = world
    PROVE  /\ Edges' = Edges /\ \A n : After(n)' = After(n)
           /\ \A S : Closed(S)' <=> Closed(S)
           /\ \A ns : Reached(ns)' = Reached(ns)
<1>1. Edges' = Edges
  BY WorldStays DEF Edges
<1> QED BY <1>1 DEF Closed, Reached, After

Cyclic == \E n \in Reached(world.request) : n \in Reached({m \in Names : <<n, m>> \in Edges})

LEMMA CyclesStay == world' = world /\ Cyclic => Cyclic'
<1> SUFFICES ASSUME world' = world, Cyclic PROVE Cyclic'
  OBVIOUS
<1>1. Edges' = Edges
  BY EdgesStay
<1> QED BY <1>1 DEF Cyclic, Reached

\* All names that were called for are needed, and each by those below it.
AllReached == \A S : Closed(S) /\ world.request \subseteq S => OnStack \subseteq S /\ seen \subseteq S
Chained ==
    \A i, j \in DOMAIN frames : i < j =>
        \A S : Closed(S) /\ After(frames[i].name) \subseteq S => frames[j].name \in S

\* A name asked for is to come, resolved, or what the outermost call is for.
Wanted ==
    result \in {"running", "ok"} =>
        world.request \subseteq todo \cup seen \cup (IF frames = <<>> THEN {} ELSE {frames[1].name})
Finished == result = "ok" => frames = <<>> /\ todo = {}

RInv ==
    /\ Inv /\ todo \subseteq world.request
    /\ AllReached /\ Chained /\ Wanted /\ Finished /\ ErrorsAreReal

\* A dependency that the innermost call comes to is an edge.
LEMMA EdgeFromTop ==
    ASSUME Inv, result = "running", frames # <<>>,
           NEW d \in Top.left, ~Met(d), NEW n \in Targets(d)
    PROVE  <<Top.name, n>> \in Edges /\ Top.name \in OnStack /\ Known(Top.name) /\ n \in Names
<1>1. /\ Top.name = frames[Depth].name /\ Top.left \subseteq DependsOf(Top.name)
      /\ d \in Deps /\ Depth \in 1..Depth /\ Depth \in Nat
  BY InvAdvance
<1>2. DOMAIN frames = 1..Depth /\ frames[Depth] \in Frame
  BY <1>1, LenProperties, ElementOfSeq DEF Inv, TypeOK, Depth
<1>3. Known(Top.name) /\ Top.name \in OnStack /\ Top.name \in Names
  BY <1>1, <1>2 DEF Inv, FramesApart, OnStack, Frame
<1>4. n \in Names
  BY <1>1, TargetsType
<1> QED BY <1>1, <1>3, <1>4 DEF Edges

LEMMA EmptyStack == frames = <<>> => OnStack = {}
BY DEF OnStack

\* Nothing that was said of the stack is about the dependencies it holds.
LEMMA SameNames ==
    ASSUME RInv, world' = world, seen' = seen, frames \in Seq(Frame), frames' \in Seq(Frame),
           Len(frames') = Len(frames), \A i \in 1..Len(frames) : frames'[i].name = frames[i].name
    PROVE  AllReached' /\ Chained' /\ OnStack' = OnStack
<1>1. DOMAIN frames = 1..Len(frames) /\ DOMAIN frames' = 1..Len(frames)
  BY LenProperties
<1>2. OnStack' = OnStack
  BY <1>1 DEF OnStack
<1>3. AllReached'
  BY <1>2, EdgesStay DEF RInv, AllReached
<1>4. Chained'
  BY <1>1, EdgesStay DEF RInv, Chained
<1> QED BY <1>2, <1>3, <1>4

-----------------------------------------------------------------------------
(* Every step keeps it                                                     *)

LEMMA RInvInit == Init => RInv
<1> SUFFICES ASSUME Init PROVE RInv
  OBVIOUS
<1>1. Inv /\ OnStack = {} /\ DOMAIN frames = {}
  BY InvInit, EmptyStack DEF Init
<1>2. AllReached /\ Chained
  BY <1>1 DEF Init, AllReached, Chained
<1>3. Wanted /\ Finished /\ ErrorsAreReal
  BY DEF Init, Wanted, Finished, ErrorsAreReal
<1> QED BY <1>1, <1>2, <1>3 DEF Init, RInv

LEMMA RInvRequest == RInv /\ Request => RInv'
<1> SUFFICES ASSUME RInv, Request PROVE RInv'
  OBVIOUS
<1>1. PICK n \in todo : Enter(n, <<>>) /\ todo' = todo \ {n}
  BY DEF Request
<1>2. /\ result = "running" /\ frames = <<>> /\ world' = world /\ resolved' = resolved
      /\ seen' = seen /\ OnStack = {}
  BY <1>1, EmptyStack DEF Request, Enter
<1>3. Inv' /\ todo' \subseteq world'.request /\ n \in Names /\ n \in world.request
  BY <1>1, <1>2, InvRequest DEF RInv, Inv, TypeOK
<1>a. n \in Reached(world.request)
  BY <1>3, ReachedIsInAll
<1>4. CASE n \in seen /\ frames' = <<>> /\ result' = result
  <2>1. AllReached' /\ Chained'
    BY <1>2, <1>4, SameNames DEF RInv, Inv, TypeOK
  <2>2. Wanted' /\ Finished' /\ ErrorsAreReal'
    BY <1>1, <1>2, <1>4 DEF RInv, Wanted, Finished, ErrorsAreReal
  <2> QED BY <1>3, <2>1, <2>2 DEF RInv
<1>5. CASE Known(n) /\ result' = result /\ frames' = Append(<<>>, [name |-> n, left |-> DependsOf(n)])
  <2>1. frames' = <<[name |-> n, left |-> DependsOf(n)]>>
    BY <1>5
  <2>2. DOMAIN frames' = {1} /\ frames'[1].name = n /\ frames' # <<>>
    BY <2>1
  <2>3. OnStack' = {n}
    BY <2>2 DEF OnStack
  <2>4. AllReached'
    BY <1>2, <1>3, <2>3, EdgesStay DEF RInv, AllReached
  <2>5. Chained'
    BY <2>2 DEF Chained
  <2>6. Wanted' /\ Finished' /\ ErrorsAreReal'
    BY <1>1, <1>2, <1>5, <2>2 DEF RInv, Wanted, Finished, ErrorsAreReal
  <2> QED BY <1>3, <2>4, <2>5, <2>6 DEF RInv
<1>6. CASE ~Known(n) /\ result' = "not found" /\ frames' = frames
  <2>1. AllReached' /\ Chained'
    BY <1>2, <1>6, SameNames DEF RInv, Inv, TypeOK
  <2>2. Wanted' /\ Finished'
    BY <1>6 DEF Wanted, Finished
  <2>3. ErrorsAreReal'
    BY <1>2, <1>6, <1>a, EdgesStay, WorldStays DEF ErrorsAreReal
  <2> QED BY <1>3, <2>1, <2>2, <2>3 DEF RInv
<1> QED BY <1>1, <1>2, <1>4, <1>5, <1>6 DEF Enter

LEMMA RInvSkipMet == RInv /\ SkipMet => RInv'
<1> SUFFICES ASSUME RInv, SkipMet PROVE RInv'
  OBVIOUS
<1>1. PICK d \in Top.left : frames' = Advanced(d)
  BY DEF SkipMet
<1>2. /\ result = "running" /\ frames # <<>> /\ frames \in Seq(Frame)
      /\ UNCHANGED <<world, todo, seen, resolved, result>>
  BY DEF SkipMet, RInv, Inv, TypeOK
<1>3. /\ frames' \in Seq(Frame) /\ Len(frames') = Len(frames) /\ Len(frames) \in Nat \ {0}
      /\ \A i \in 1..Len(frames) : frames'[i].name = frames[i].name
  BY <1>1, <1>2, Advance DEF Depth
<1>4. Inv' /\ AllReached' /\ Chained'
  BY <1>2, <1>3, InvSkipMet, SameNames DEF RInv
<1>5. frames'[1].name = frames[1].name /\ frames' # <<>>
  BY <1>3
<1>6. Wanted' /\ Finished' /\ ErrorsAreReal'
  BY <1>2, <1>5 DEF RInv, Wanted, Finished, ErrorsAreReal
<1> QED BY <1>2, <1>4, <1>6 DEF RInv

LEMMA RInvDescend == RInv /\ Descend => RInv'
<1> SUFFICES ASSUME RInv, Descend PROVE RInv'
  OBVIOUS
<1>0. PICK d \in Top.left : ~Met(d) /\ \E n \in Targets(d) : Enter(n, Advanced(d))
  BY DEF Descend
<1>1. PICK n \in Targets(d) : Enter(n, Advanced(d))
  BY <1>0
<1>2. /\ result = "running" /\ frames # <<>> /\ frames \in Seq(Frame)
      /\ UNCHANGED <<world, todo, resolved, seen>> /\ Inv'
  BY <1>1, InvDescend DEF Descend, RInv, Inv, TypeOK, Enter
<1>3. /\ <<Top.name, n>> \in Edges /\ Top.name \in OnStack /\ Known(Top.name) /\ n \in Names
  BY <1>0, <1>1, <1>2, EdgeFromTop DEF RInv
<1>4. \A S : Closed(S) /\ Top.name \in S => n \in S
  BY <1>3 DEF Closed
<1>5. \A S : Closed(S) /\ world.request \subseteq S => n \in S
  BY <1>3, <1>4 DEF RInv, AllReached
<1>6. n \in Reached(world.request)
  BY <1>3, <1>5, ReachedIsInAll
<1> DEFINE callers == Advanced(d)
<1>7. /\ callers \in Seq(Frame) /\ Len(callers) = Depth /\ Depth \in Nat \ {0}
      /\ \A i \in 1..Depth : callers[i].name = frames[i].name
  BY <1>2, Advance DEF Depth
<1>8. DOMAIN frames = 1..Depth /\ Top.name = frames[Depth].name /\ Depth \in 1..Depth
  BY <1>2, <1>7, LenProperties DEF Depth, Top
<1>9. Enter(n, callers)
  BY <1>1
<1> HIDE DEF callers
<1>10. CASE frames' = callers /\ result' = result
  <2>1. AllReached' /\ Chained'
    BY <1>2, <1>7, <1>10, SameNames DEF Depth
  <2>2. frames'[1].name = frames[1].name /\ frames' # <<>>
    BY <1>7, <1>10
  <2>3. Wanted' /\ Finished' /\ ErrorsAreReal'
    BY <1>2, <1>10, <2>2 DEF RInv, Wanted, Finished, ErrorsAreReal
  <2> QED BY <1>2, <2>1, <2>3 DEF RInv
<1>11. CASE n \in OnStack /\ result' = "circular" /\ frames' = frames
  <2>1. AllReached' /\ Chained'
    BY <1>2, <1>11, SameNames
  <2>2. Wanted' /\ Finished'
    BY <1>11 DEF Wanted, Finished
  <2>3. PICK i \in 1..Depth : frames[i].name = n
    BY <1>8, <1>11 DEF OnStack
  <2>4. \A S : Closed(S) /\ After(n) \subseteq S => n \in S
    <3> SUFFICES ASSUME NEW S, Closed(S), After(n) \subseteq S PROVE n \in S
      OBVIOUS
    <3>1. CASE i = Depth
      BY <1>3, <1>8, <2>3, <3>1 DEF After
    <3>2. CASE i # Depth
      <4>1. i < Depth
        BY <1>7, <3>2
      <4>2. Top.name \in S
        BY <1>8, <2>3, <4>1 DEF RInv, Chained
      <4> QED BY <1>4, <4>2
    <3> QED BY <3>1, <3>2
  <2>5. n \in Reached(After(n))
    BY <1>3, <2>4, ReachedIsInAll
  <2>6. ErrorsAreReal'
    <3>1. \E x \in Reached(world.request) : x \in Reached({m \in Names : <<x, m>> \in Edges})
      BY <1>6, <2>5 DEF After
    <3> QED BY <1>2, <1>11, <3>1, CyclesStay DEF ErrorsAreReal, Cyclic
  <2> QED BY <1>2, <2>1, <2>2, <2>6 DEF RInv
<1>12. CASE /\ result' = result
            /\ frames' = Append(callers, [name |-> n, left |-> DependsOf(n)])
  <2> DEFINE e == [name |-> n, left |-> DependsOf(n)]
  <2>1. e.name = n
    OBVIOUS
  <2>a. frames' \in Seq(Frame)
    BY <1>2 DEF Inv, TypeOK
  <2>2. /\ DOMAIN frames' = 1..(Depth + 1) /\ frames'[Depth + 1] = e
        /\ \A i \in 1..Depth : frames'[i] = callers[i]
    <3> HIDE DEF e
    <3> QED BY <1>7, <1>12 DEF e
  <2>3. \A i \in 1..(Depth + 1) : i \in 1..Depth \/ i = Depth + 1
    BY <1>7
  <2>4. /\ \A i \in 1..Depth : frames'[i].name = frames[i].name
        /\ frames'[Depth + 1].name = n
    BY <1>7, <2>1, <2>2
  <2>5. OnStack' = OnStack \cup {n}
    BY <1>7, <1>8, <2>2, <2>3, <2>4 DEF OnStack
  <2>6. AllReached'
    BY <1>2, <1>5, <2>5, EdgesStay DEF RInv, AllReached
  <2>7. Chained'
    <3> SUFFICES ASSUME NEW i \in 1..(Depth + 1), NEW j \in 1..(Depth + 1), i < j,
                        NEW S, Closed(S), After(frames'[i].name) \subseteq S
                 PROVE  frames'[j].name \in S
      BY <1>2, <2>2, EdgesStay DEF Chained
    <3>1. i \in 1..Depth /\ After(frames[i].name) \subseteq S
      BY <1>7, <2>3, <2>4
    <3>2. CASE j \in 1..Depth
      BY <1>8, <2>4, <3>1, <3>2 DEF RInv, Chained
    <3>3. CASE j = Depth + 1 /\ i < Depth
      BY <1>4, <1>8, <2>4, <3>1, <3>3 DEF RInv, Chained
    <3>4. CASE j = Depth + 1 /\ i = Depth
      BY <1>3, <1>8, <2>4, <3>1, <3>4 DEF After
    <3> QED BY <1>7, <2>3, <3>1, <3>2, <3>3, <3>4
  <2>8. frames'[1].name = frames[1].name /\ frames' # <<>>
    BY <1>7, <2>2, <2>4
  <2>9. Wanted' /\ Finished' /\ ErrorsAreReal'
    BY <1>2, <1>12, <2>8 DEF RInv, Wanted, Finished, ErrorsAreReal
  <2> QED BY <1>2, <2>6, <2>7, <2>9 DEF RInv
<1>13. CASE ~Known(n) /\ result' = "not found" /\ frames' = frames
  <2>1. AllReached' /\ Chained'
    BY <1>2, <1>13, SameNames
  <2>2. Wanted' /\ Finished'
    BY <1>13 DEF Wanted, Finished
  <2>3. ErrorsAreReal'
    BY <1>2, <1>6, <1>13, EdgesStay, WorldStays DEF ErrorsAreReal
  <2> QED BY <1>2, <2>1, <2>2, <2>3 DEF RInv
<1> QED BY <1>9, <1>10, <1>11, <1>12, <1>13 DEF Enter

LEMMA RInvUnresolved == RInv /\ Unresolved => RInv'
<1> SUFFICES ASSUME RInv, Unresolved PROVE RInv'
  OBVIOUS
<1>1. PICK d \in Top.left : ~Met(d) /\ Targets(d) = {}
  BY DEF Unresolved
<1>2. /\ result = "running" /\ result' = "unresolved" /\ frames # <<>> /\ frames \in Seq(Frame)
      /\ UNCHANGED <<world, todo, frames, seen, resolved>>
  BY DEF Unresolved, RInv, Inv, TypeOK
<1>3. Inv' /\ AllReached' /\ Chained'
  BY <1>2, InvNext, SameNames DEF RInv, Next
<1>4. /\ Top.name = frames[Depth].name /\ Top.left \subseteq DependsOf(Top.name)
      /\ Depth \in 1..Depth
  BY <1>2, InvAdvance DEF RInv
<1>5. DOMAIN frames = 1..Depth /\ frames[Depth] \in Frame
  BY <1>2, <1>4, LenProperties, ElementOfSeq DEF Depth
<1>6. Known(Top.name) /\ Top.name \in OnStack /\ Top.name \in Names
  BY <1>4, <1>5 DEF RInv, Inv, FramesApart, OnStack, Frame
<1>7. Top.name \in Reached(world.request)
  BY <1>6, ReachedIsInAll DEF RInv, AllReached
<1>8. ErrorsAreReal'
  BY <1>1, <1>2, <1>4, <1>6, <1>7, EdgesStay, WorldStays DEF ErrorsAreReal
<1>9. Wanted' /\ Finished'
  BY <1>2 DEF Wanted, Finished
<1> QED BY <1>2, <1>3, <1>8, <1>9 DEF RInv

LEMMA RInvReturn == RInv /\ Return => RInv'
<1> SUFFICES ASSUME RInv, Return PROVE RInv'
  OBVIOUS
<1>1. /\ result = "running" /\ frames # <<>> /\ frames \in Seq(Frame) /\ world' = world
      /\ UNCHANGED <<todo, result>> /\ seen' = seen \cup {Top.name}
      /\ frames' = SubSeq(frames, 1, Len(frames) - 1) /\ Inv'
  BY InvReturn DEF Return, RInv, Inv, TypeOK
<1>2. /\ DOMAIN frames' = 1..(Depth - 1) /\ Len(frames') = Depth - 1
      /\ \A i \in 1..(Depth - 1) : frames'[i] = frames[i]
  BY <1>1, Pop DEF Depth
<1>3. Depth \in Nat \ {0} /\ DOMAIN frames = 1..Depth /\ Top.name = frames[Depth].name
  BY <1>1, EmptySeq, LenProperties DEF Depth, Top
<1>4. OnStack' \subseteq OnStack /\ Top.name \in OnStack
  BY <1>2, <1>3 DEF OnStack
<1>5. AllReached'
  BY <1>1, <1>4, EdgesStay DEF RInv, AllReached
<1>6. Chained'
  <2>1. ASSUME NEW i \in 1..(Depth - 1), NEW j \in 1..(Depth - 1), i < j,
               NEW S, Closed(S), After(frames[i].name) \subseteq S
        PROVE  frames[j].name \in S
    <3>1. i \in DOMAIN frames /\ j \in DOMAIN frames
      BY <1>3
    <3> QED BY <2>1, <3>1 DEF RInv, Chained
  <2>2. \A S : Closed(S)' <=> Closed(S)
    BY <1>1, EdgesStay
  <2>3. \A n : After(n)' = After(n)
    BY <1>1, EdgesStay
  <2> QED BY <1>2, <2>1, <2>2, <2>3 DEF Chained
<1>7. Wanted'
  <2>1. CASE Depth = 1
    BY <1>1, <1>3, <2>1 DEF RInv, Wanted
  <2>2. CASE Depth # 1
    <3>1. frames'[1] = frames[1] /\ frames' # <<>>
      BY <1>2, <1>3, <2>2
    <3> QED BY <1>1, <3>1 DEF RInv, Wanted
  <2> QED BY <2>1, <2>2
<1>8. Finished' /\ ErrorsAreReal'
  BY <1>1 DEF Finished, ErrorsAreReal
<1> QED BY <1>1, <1>5, <1>6, <1>7, <1>8 DEF RInv

LEMMA RInvFinish == RInv /\ Finish => RInv'
<1> SUFFICES ASSUME RInv, Finish PROVE RInv'
  OBVIOUS
<1>1. /\ result = "running" /\ result' = "ok" /\ frames = <<>> /\ todo = {}
      /\ UNCHANGED <<world, todo, frames, seen, resolved>> /\ frames \in Seq(Frame)
  BY DEF Finish, RInv, Inv, TypeOK
<1>2. Inv' /\ AllReached' /\ Chained'
  BY <1>1, InvNext, SameNames DEF RInv, Next
<1>3. Wanted' /\ Finished' /\ ErrorsAreReal'
  BY <1>1 DEF RInv, Wanted, Finished, ErrorsAreReal
<1> QED BY <1>1, <1>2, <1>3 DEF RInv

LEMMA RInvNext == RInv /\ [Next]_vars => RInv'
<1> SUFFICES ASSUME RInv, UNCHANGED vars PROVE RInv'
  BY RInvRequest, RInvSkipMet, RInvDescend, RInvUnresolved, RInvReturn, RInvFinish DEF Next
<1>1. UNCHANGED <<world, todo, frames, seen, resolved, result>> /\ frames \in Seq(Frame)
  BY DEF vars, RInv, Inv, TypeOK
<1>2. Inv' /\ AllReached' /\ Chained'
  BY <1>1, InvNext, SameNames DEF RInv
<1>3. Wanted' /\ Finished'
  BY <1>1 DEF RInv, Wanted, Finished
<1>4. ErrorsAreReal'
  BY <1>1, CyclesStay, EdgesStay, WorldStays DEF RInv, ErrorsAreReal, Cyclic
<1> QED BY <1>1, <1>2, <1>3, <1>4 DEF RInv

\* Whatever was asked for: an order that is returned has all of it and only what
\* it needs, directly or not, and an error that is returned is a cycle, a missing
\* package or a dependency that nothing meets among what is needed (resolver.rs:38).
THEOREM SearchFindsWhatIsNeeded == Spec => []SearchIsExact
<1>1. RInv => OrderIsExact
  <2> SUFFICES ASSUME RInv, result = "ok"
               PROVE  world.request \subseteq seen /\ seen \subseteq Reached(world.request)
    BY DEF OrderIsExact, RInv, Inv, SeenIsResolved
  <2>1. frames = <<>> /\ todo = {} /\ seen \subseteq Names
    BY DEF RInv, Finished, Inv, TypeOK
  <2>2. world.request \subseteq seen
    BY <2>1 DEF RInv, Wanted
  <2>3. seen \subseteq Reached(world.request)
    BY <2>1, ReachedIsInAll DEF RInv, AllReached
  <2> QED BY <2>2, <2>3
<1>2. RInv => SearchIsExact
  BY <1>1 DEF RInv, SearchIsExact
<1> QED BY <1>2, RInvInit, RInvNext, PTL DEF Spec

-----------------------------------------------------------------------------
(* Repositories                                                            *)

AtOneRepo == {"add", "put", "write", "stamp"}
Writing == {"add", "stamp"}
Command == [pc : AtOneRepo \cup {"idle", "list", "clear", "fetch"},
            repo : RepoNames \cup {"none"}, repos : SUBSET RepoNames,
            left : SUBSET (RepoNames \cup Pkgs), pkgs : Seq(Offer), fd : BOOLEAN,
            errors : BOOLEAN, sole : Nat]

RepoTypeOK ==
    /\ repos \in [RepoNames -> {Missing, Truncated, "record"}]
    /\ cmd \in [Updaters -> Command]
    /\ \A p \in Updaters :
        /\ cmd[p].pc \in AtOneRepo => cmd[p].repo \in RepoNames
        /\ cmd[p].pc = "idle" => cmd[p].repos = {}
        /\ cmd[p].pc = "list" => cmd[p].left \subseteq RepoNames

AtHand(p, r) == r \in cmd[p].repos \/ (cmd[p].pc \in AtOneRepo /\ cmd[p].repo = r)

\* What an update has listed, or any process has at hand, is to stay - if it is one whose
\* configuration no two processes disputed.
OnlyWanted(r) == \A p \in Updaters : AtHand(p, r) => r \in wanted

\* Such a repository has a record if it is to have one, or somebody is writing it.
HasRecord(r) ==
    /\ r \notin wanted => repos[r] # "record"
    /\ r \in wanted =>
        \/ repos[r] = "record"
        \/ /\ repos[r] = Truncated
           /\ \E p \in Updaters : cmd[p].pc \in Writing /\ cmd[p].repo = r

\* While it is added, it is no record, and only the process that adds it knows of it.
AddedAlone(r) ==
    \A p \in Updaters : cmd[p].pc = "add" /\ cmd[p].repo = r =>
        repos[r] # "record" /\ \A q \in Updaters \ {p} : ~ AtHand(q, r)

Undisputed(r) == OnlyWanted(r) /\ HasRecord(r) /\ AddedAlone(r)

RepoInv ==
    /\ RepoTypeOK
    /\ \A r \in RepoNames \ raced : Undisputed(r)

LEMMA NoCommandType == NoCommand \in Command
BY EmptySeq DEF NoCommand, Command

\* A process that begins or ends a command, or a step of it, leaves the others where they were.
LEMMA OthersStay ==
    ASSUME RepoTypeOK, NEW p \in Updaters, NEW c \in Command, Become(p, c),
           c.pc \in AtOneRepo => c.repo \in RepoNames,
           c.pc = "idle" => c.repos = {},
           c.pc = "list" => c.left \subseteq RepoNames,
           repos' \in [RepoNames -> {Missing, Truncated, "record"}]
    PROVE  /\ RepoTypeOK' /\ cmd'[p] = c
           /\ \A q \in Updaters \ {p} : cmd'[q] = cmd[q]
           /\ \A q \in Updaters \ {p} : \A r : AtHand(q, r)' <=> AtHand(q, r)
<1>1. cmd'[p] = c /\ \A q \in Updaters \ {p} : cmd'[q] = cmd[q]
  BY DEF RepoTypeOK, Become
<1>2. RepoTypeOK'
  BY <1>1 DEF RepoTypeOK, Become
<1> QED BY <1>1, <1>2 DEF AtHand

\* Steps at another repository.
LEMMA StaysUndisputed ==
    ASSUME NEW p \in Updaters, NEW r \in RepoNames, Undisputed(r),
           repos'[r] = repos[r], r \in wanted' <=> r \in wanted,
           \A q \in Updaters \ {p} : cmd'[q] = cmd[q],
           AtHand(p, r)' => AtHand(p, r) \/ (repos[r] = "record" /\ r \in wanted),
           cmd[p].pc \in Writing => cmd[p].repo # r,
           cmd'[p].pc = "add" => cmd'[p].repo # r
    PROVE  Undisputed(r)'
<1>1. \A q \in Updaters \ {p} : AtHand(q, r)' <=> AtHand(q, r)
  BY DEF AtHand
<1>2. OnlyWanted(r)'
  BY <1>1 DEF Undisputed, OnlyWanted
<1>3. HasRecord(r)'
  BY DEF Undisputed, HasRecord
<1>4. AddedAlone(r)'
  <2> SUFFICES ASSUME NEW q \in Updaters, cmd'[q].pc = "add", cmd'[q].repo = r
               PROVE  repos'[r] # "record" /\ \A o \in Updaters \ {q} : ~ AtHand(o, r)'
    BY DEF AddedAlone
  <2>1. q # p /\ cmd[q].pc = "add" /\ cmd[q].repo = r
    OBVIOUS
  <2>2. repos[r] # "record" /\ \A o \in Updaters \ {q} : ~ AtHand(o, r)
    BY <2>1 DEF Undisputed, AddedAlone
  <2> QED BY <1>1, <2>1, <2>2
<1> QED BY <1>2, <1>3, <1>4 DEF Undisputed

LEMMA AddKeeps ==
    ASSUME RepoInv, NEW p \in Updaters, NEW r \in RepoNames, Add(p, r)
    PROVE  RepoInv'
<1> DEFINE c == [NoCommand EXCEPT !.pc = "add", !.repo = r]
<1>1. c \in Command /\ c.pc = "add" /\ c.repo = r /\ c.repos = {}
  BY NoCommandType DEF NoCommand, Command, AtOneRepo
<1>2. repos' \in [RepoNames -> {Missing, Truncated, "record"}]
  BY DEF Add, RepoInv, RepoTypeOK
<1>3. RepoTypeOK' /\ cmd'[p] = c /\ \A q \in Updaters \ {p} : cmd'[q] = cmd[q]
  <2>1. Become(p, c)
    BY DEF Add
  <2> HIDE DEF c
  <2> QED BY <1>1, <1>2, <2>1, OthersStay DEF RepoInv
<1> HIDE DEF c
<1>4. ASSUME NEW s \in RepoNames \ raced' PROVE Undisputed(s)'
  <2>1. CASE s = r
    <3>1. \A q \in Updaters \ {p} : cmd[q].pc = "idle"
      BY <1>4, <2>1 DEF Add, Reconfigures, Others
    <3>2. \A q \in Updaters \ {p} : ~ AtHand(q, s)'
      BY <1>3, <3>1 DEF AtHand, RepoInv, RepoTypeOK, AtOneRepo
    <3>3. repos'[s] = Truncated /\ s \in wanted'
      BY <2>1 DEF Add, RepoInv, RepoTypeOK
    <3>4. OnlyWanted(s)' /\ HasRecord(s)'
      BY <1>1, <1>3, <2>1, <3>3 DEF OnlyWanted, HasRecord, Writing
    <3>5. AddedAlone(s)'
      BY <1>3, <3>1, <3>2, <3>3, RepoAssumption DEF AddedAlone
    <3> QED BY <3>4, <3>5 DEF Undisputed
  <2>2. CASE s # r
    <3>1. s \in RepoNames \ raced /\ (s \in wanted' <=> s \in wanted) /\ repos'[s] = repos[s]
      BY <1>4, <2>2 DEF Add, Reconfigures, RepoInv, RepoTypeOK
    <3>2. Undisputed(s)
      BY <3>1 DEF RepoInv
    <3>3. ~ AtHand(p, s)'
      BY <1>1, <1>3, <2>2 DEF AtHand
    <3>4. cmd[p].pc \notin Writing
      BY DEF Add, Begins, Writing
    <3> QED BY <1>1, <1>3, <2>2, <3>1, <3>2, <3>3, <3>4, StaysUndisputed
  <2> QED BY <2>1, <2>2
<1> QED BY <1>3, <1>4 DEF RepoInv

\* A record that was not written to its end is given up.
LEMMA AddFailsKeeps ==
    ASSUME RepoInv, NEW p \in Updaters, AddFails(p)
    PROVE  RepoInv'
<1>1. PICK r : r = cmd[p].repo
  OBVIOUS
<1>2. /\ cmd[p].pc = "add" /\ r \in RepoNames /\ Become(p, NoCommand)
      /\ wanted' = wanted \ {r} /\ UNCHANGED <<repos, raced>>
  BY <1>1 DEF AddFails, RepoInv, RepoTypeOK, AtOneRepo
<1>3. NoCommand.pc = "idle" /\ NoCommand.repos = {}
  BY DEF NoCommand
<1>4. /\ RepoTypeOK' /\ cmd'[p] = NoCommand
      /\ \A q \in Updaters \ {p} : cmd'[q] = cmd[q]
      /\ \A q \in Updaters \ {p} : \A s : AtHand(q, s)' <=> AtHand(q, s)
  BY <1>2, <1>3, NoCommandType, OthersStay DEF RepoInv, RepoTypeOK, AtOneRepo
<1>5. ASSUME NEW s \in RepoNames \ raced' PROVE Undisputed(s)'
  <2>1. Undisputed(s)
    BY <1>2 DEF RepoInv
  <2>2. ~ AtHand(p, s)'
    BY <1>3, <1>4 DEF AtHand, AtOneRepo
  <2>3. CASE s = r
    <3>1. repos[s] # "record" /\ \A q \in Updaters \ {p} : ~ AtHand(q, s)
      BY <1>1, <1>2, <2>1, <2>3 DEF Undisputed, AddedAlone
    <3>2. \A q \in Updaters : ~ AtHand(q, s)'
      BY <1>4, <2>2, <3>1
    <3>3. repos'[s] # "record" /\ s \notin wanted'
      BY <1>2, <2>3, <3>1
    <3> QED BY <3>2, <3>3 DEF Undisputed, OnlyWanted, HasRecord, AddedAlone
  <2>4. CASE s # r
    <3>1. repos'[s] = repos[s] /\ (s \in wanted' <=> s \in wanted)
      BY <1>2, <2>4
    <3>2. cmd[p].repo # s /\ cmd'[p].pc # "add"
      BY <1>1, <1>3, <1>4, <2>4
    <3> QED BY <1>4, <2>1, <2>2, <3>1, <3>2, StaysUndisputed
  <2> QED BY <2>3, <2>4
<1> QED BY <1>4, <1>5 DEF RepoInv

LEMMA DelKeeps ==
    ASSUME RepoInv, NEW p \in Updaters, NEW r \in RepoNames, Del(p, r)
    PROVE  RepoInv'
<1>1. RepoTypeOK' /\ cmd' = cmd
  BY DEF Del, RepoInv, RepoTypeOK
<1>2. ASSUME NEW s \in RepoNames \ raced' PROVE Undisputed(s)'
  <2>1. CASE s = r
    <3>1. \A q \in Updaters : cmd[q].pc = "idle"
      BY <1>2, <2>1 DEF Del, Reconfigures, Others, Begins
    <3>2. \A q \in Updaters : ~ AtHand(q, s)'
      BY <1>1, <3>1 DEF AtHand, RepoInv, RepoTypeOK, AtOneRepo
    <3>3. repos'[s] = Missing /\ s \notin wanted'
      BY <2>1 DEF Del, RepoInv, RepoTypeOK
    <3> QED BY <3>2, <3>3, RepoAssumption DEF Undisputed, OnlyWanted, HasRecord, AddedAlone
  <2>2. CASE s # r
    <3>1. s \in RepoNames \ raced /\ (s \in wanted' <=> s \in wanted) /\ repos'[s] = repos[s]
      BY <1>2, <2>2 DEF Del, Reconfigures, RepoInv, RepoTypeOK
    <3>2. Undisputed(s)
      BY <3>1 DEF RepoInv
    <3>3. cmd[p].pc = "idle"
      BY DEF Del, Begins
    <3>4. AtHand(p, s)' => AtHand(p, s)
      BY <1>1 DEF AtHand
    <3> QED BY <1>1, <3>1, <3>2, <3>3, <3>4, StaysUndisputed DEF Writing
  <2> QED BY <2>1, <2>2
<1> QED BY <1>1, <1>2 DEF RepoInv

\* Steps that open no record and close none, and have at hand what has a record.
LEMMA QuietStepKeeps ==
    ASSUME RepoInv, NEW p \in Updaters, NEW c \in Command, Become(p, c),
           UNCHANGED <<repos, wanted, raced>>,
           cmd[p].pc \notin Writing, c.pc # "add",
           c.pc \in AtOneRepo => c.repo \in RepoNames,
           c.pc = "idle" => c.repos = {},
           c.pc = "list" => c.left \subseteq RepoNames,
           \A r \in RepoNames \ raced :
               r \in c.repos \/ (c.pc \in AtOneRepo /\ c.repo = r)
                 => AtHand(p, r) \/ repos[r] = "record"
    PROVE  RepoInv'
<1>1. RepoTypeOK' /\ cmd'[p] = c /\ \A q \in Updaters \ {p} : cmd'[q] = cmd[q]
  BY OthersStay DEF RepoInv, RepoTypeOK
<1>2. ASSUME NEW r \in RepoNames \ raced PROVE Undisputed(r)'
  <2>1. Undisputed(r)
    BY DEF RepoInv
  <2>2. AtHand(p, r)' => AtHand(p, r) \/ (repos[r] = "record" /\ r \in wanted)
    BY <1>1, <2>1 DEF AtHand, Undisputed, HasRecord
  <2> QED BY <1>1, <2>1, <2>2, StaysUndisputed
<1> QED BY <1>1, <1>2 DEF RepoInv

LEMMA ListingKeeps ==
    ASSUME RepoInv, commands \in Nat,
           NEW p \in Updaters, Update(p) \/ List(p) \/ ListingDone(p)
    PROVE  RepoInv'
<1>0. cmd[p] \in Command /\ UNCHANGED <<repos, wanted, raced>>
  BY DEF Update, List, ListingDone, RepoInv, RepoTypeOK
<1>1. NoCommand.pc = "idle" /\ NoCommand.repos = {} /\ NoCommand \in Command
  BY NoCommandType DEF NoCommand
<1>2. CASE Update(p)
  <2>0. PICK n \in Nat : n = IF Others(p) = {} THEN commands + 1 ELSE 0
    OBVIOUS
  <2>1. Become(p, [NoCommand EXCEPT !.pc = "list", !.left = RepoNames, !.sole = n])
    BY <1>2, <2>0 DEF Update
  <2> DEFINE c == [NoCommand EXCEPT !.pc = "list", !.left = RepoNames, !.sole = n]
  <2>2. c \in Command /\ c.pc = "list" /\ c.repos = {} /\ c.left = RepoNames
    BY <1>1 DEF NoCommand, Command
  <2>3. Become(p, c) /\ cmd[p].pc = "idle"
    BY <1>2, <2>1 DEF Update, Begins
  <2> HIDE DEF c
  <2> QED BY <1>0, <2>2, <2>3, QuietStepKeeps DEF AtOneRepo, Writing
<1>3. CASE List(p)
  <2>1. PICK r \in cmd[p].left :
            Become(p, [cmd[p] EXCEPT !.left = @ \ {r},
                                     !.repos = IF IsRepo(r) THEN @ \cup {r} ELSE @])
    BY <1>3 DEF List
  <2> DEFINE new == IF IsRepo(r) THEN cmd[p].repos \cup {r} ELSE cmd[p].repos
             c == [cmd[p] EXCEPT !.left = @ \ {r}, !.repos = new]
  <2>2. cmd[p].pc = "list" /\ cmd[p].left \subseteq RepoNames /\ r \in RepoNames
    BY <1>3 DEF List, RepoInv, RepoTypeOK
  <2>3. new \subseteq RepoNames
    BY <1>0, <2>2 DEF Command
  <2>4. c \in Command /\ c.pc = "list" /\ c.repos = new /\ c.left \subseteq RepoNames
    BY <1>0, <2>2, <2>3 DEF Command
  <2>5. \A s \in new : s \in cmd[p].repos \/ repos[s] = "record"
    BY DEF IsRepo
  <2>6. Become(p, c)
    BY <2>1
  <2> HIDE DEF c, new
  <2> QED BY <1>0, <2>2, <2>4, <2>5, <2>6, QuietStepKeeps DEF AtOneRepo, Writing, AtHand
<1>4. CASE ListingDone(p)
  <2>1. cmd[p].pc = "list"
    BY <1>4 DEF ListingDone
  <2>2. CASE cmd[p].repos = {}
    <3>1. Become(p, NoCommand)
      BY <1>4, <2>2 DEF ListingDone
    <3> QED BY <1>0, <1>1, <2>1, <3>1, QuietStepKeeps DEF AtOneRepo, Writing
  <2>3. CASE cmd[p].repos # {}
    <3> DEFINE c == [cmd[p] EXCEPT !.pc = "clear", !.left = Pkgs]
    <3>1. c \in Command /\ c.pc = "clear" /\ c.repos = cmd[p].repos
      BY <1>0 DEF Command
    <3>2. Become(p, c)
      BY <1>4, <2>3 DEF ListingDone
    <3> HIDE DEF c
    <3> QED BY <1>0, <2>1, <3>1, <3>2, QuietStepKeeps DEF AtOneRepo, Writing, AtHand
  <2> QED BY <2>2, <2>3
<1> QED BY <1>2, <1>3, <1>4

LEMMA ClearKeeps ==
    ASSUME RepoInv, NEW p \in Updaters, Clear(p)
    PROVE  RepoInv'
<1>1. \A q \in Updaters : /\ cmd'[q] \in Command /\ cmd'[q].pc = cmd[q].pc
                          /\ cmd'[q].repo = cmd[q].repo /\ cmd'[q].repos = cmd[q].repos
                          /\ cmd'[q].left \subseteq cmd[q].left
  <2>1. \A q \in Updaters : cmd[q] \in Command
    BY DEF RepoInv, RepoTypeOK
  <2>2. PICK k \in cmd[p].left :
            cmd' = [q \in Updaters |-> IF q = p THEN [cmd[p] EXCEPT !.left = @ \ {k}]
                                       ELSE [cmd[q] EXCEPT !.fd = @ /\ ~ Fills(q, k)]]
    BY DEF Clear
  <2>3. \A q \in Updaters : (cmd[q].fd /\ ~ Fills(q, k)) \in BOOLEAN
    OBVIOUS
  <2>4. TAKE q \in Updaters
  <2>5. CASE q = p
    <3>1. cmd'[q] = [cmd[q] EXCEPT !.left = @ \ {k}]
      BY <2>2, <2>5
    <3> QED BY <2>1, <3>1 DEF Command
  <2>6. CASE q # p
    <3>1. PICK fd \in BOOLEAN : fd = (cmd[q].fd /\ ~ Fills(q, k))
      BY <2>3
    <3>2. cmd'[q] = [cmd[q] EXCEPT !.fd = fd]
      BY <2>2, <2>6, <3>1
    <3> HIDE <3>1
    <3> QED BY <2>1, <3>2 DEF Command
  <2> QED BY <2>5, <2>6
<1>2. UNCHANGED <<repos, wanted, raced>> /\ cmd' = [q \in Updaters |-> cmd'[q]]
  BY DEF Clear
<1>3. RepoTypeOK'
  <2>1. cmd' \in [Updaters -> Command]
    BY <1>1, <1>2
  <2> QED BY <1>1, <1>2, <2>1 DEF RepoInv, RepoTypeOK
<1>4. \A q \in Updaters : \A r : AtHand(q, r)' <=> AtHand(q, r)
  BY <1>1 DEF AtHand
<1>5. ASSUME NEW r \in RepoNames \ raced PROVE Undisputed(r)'
  <2>1. Undisputed(r)
    BY DEF RepoInv
  <2> QED BY <1>1, <1>2, <1>4, <2>1 DEF Undisputed, OnlyWanted, HasRecord, AddedAlone
<1> QED BY <1>2, <1>3, <1>5 DEF RepoInv

LEMMA ClearedKeeps ==
    ASSUME RepoInv, NEW p \in Updaters, ClearFails(p) \/ Cleared(p)
    PROVE  RepoInv'
<1>1. /\ cmd[p] \in Command /\ UNCHANGED <<repos, wanted, raced>> /\ cmd[p].pc = "clear"
  BY DEF ClearFails, Cleared, RepoInv, RepoTypeOK
<1>2. PICK c : Become(p, c) /\ c \in Command /\ c.pc \in {"clear", "fetch"} /\ c.repos = cmd[p].repos
  <2>1. CASE ClearFails(p)
    <3>1. PICK k \in cmd[p].left : Become(p, [cmd[p] EXCEPT !.left = @ \ {k}, !.sole = 0])
      BY <2>1 DEF ClearFails
    <3> DEFINE c == [cmd[p] EXCEPT !.left = @ \ {k}, !.sole = 0]
    <3>2. c \in Command /\ c.pc = "clear" /\ c.repos = cmd[p].repos
      BY <1>1 DEF Command
    <3>3. Become(p, c)
      BY <3>1
    <3> HIDE DEF c
    <3> QED BY <3>2, <3>3
  <2>2. CASE Cleared(p)
    BY <1>1, <2>2 DEF Cleared, Command
  <2> QED BY <2>1, <2>2
<1> QED BY <1>1, <1>2, QuietStepKeeps DEF Writing, AtOneRepo, AtHand

LEMMA FetchKeeps ==
    ASSUME RepoInv, NEW p \in Updaters, Fetch(p)
    PROVE  RepoInv'
<1>1. PICK r \in RepoNames : r \in cmd[p].repos /\ Begun(p, r)
  BY DEF Fetch, IsNext
<1> DEFINE c == [cmd[p] EXCEPT !.pc = "put", !.repo = r, !.repos = @ \ {r}, !.pkgs = Offers[r]]
<1>2. c \in Command /\ c.pc = "put" /\ c.repo = r /\ c.repos = cmd[p].repos \ {r}
  <2>1. cmd[p] \in Command /\ Offers[r] \in Seq(Offer)
    BY RepoAssumption DEF RepoInv, RepoTypeOK
  <2> QED BY <2>1 DEF Command, AtOneRepo
<1>4. Become(p, c) /\ UNCHANGED <<repos, wanted, raced>> /\ cmd[p].pc = "fetch"
  BY <1>1 DEF Fetch, Begun
<1> HIDE DEF c
<1> QED BY <1>1, <1>2, <1>4, QuietStepKeeps DEF Writing, AtHand

LEMMA FetchFailsKeeps ==
    ASSUME RepoInv, NEW p \in Updaters, FetchFails(p)
    PROVE  RepoInv'
<1>1. PICK r \in RepoNames :
         Become(p, [cmd[p] EXCEPT !.repos = @ \ {r}, !.errors = TRUE])
  BY DEF FetchFails
<1> DEFINE c == [cmd[p] EXCEPT !.repos = @ \ {r}, !.errors = TRUE]
<1>2. cmd[p].pc = "fetch" /\ UNCHANGED <<repos, wanted, raced>>
  BY DEF FetchFails
<1>3. c \in Command /\ c.pc = "fetch" /\ c.repos = cmd[p].repos \ {r}
  <2>1. cmd[p] \in Command
    BY DEF RepoInv, RepoTypeOK
  <2> QED BY <1>2, <2>1 DEF Command
<1>5. Become(p, c)
  BY <1>1
<1> HIDE DEF c
<1> QED BY <1>2, <1>3, <1>5, QuietStepKeeps DEF Writing, AtOneRepo, AtHand

\* put_available and its failures, the repository at hand being the same.
LEMMA PuttingKeeps ==
    ASSUME RepoInv, NEW p \in Updaters, cmd[p].pc \in {"put", "write"},
           NEW pc \in {"put", "write"}, NEW left \in Seq(Offer), NEW fd \in BOOLEAN,
           Become(p, [cmd[p] EXCEPT !.pc = pc, !.pkgs = left, !.fd = fd]),
           UNCHANGED <<repos, wanted, raced>>
    PROVE  RepoInv'
<1> DEFINE c == [cmd[p] EXCEPT !.pc = pc, !.pkgs = left, !.fd = fd]
<1>1. cmd[p] \in Command
  BY DEF RepoInv, RepoTypeOK
<1>2. c \in Command /\ c.pc = pc /\ c.repo = cmd[p].repo /\ c.repos = cmd[p].repos
  BY <1>1 DEF Command, AtOneRepo
<1>3. c.repo \in RepoNames
  BY <1>2 DEF RepoInv, RepoTypeOK, AtOneRepo
<1>4. \A r : r \in cmd[p].repos \/ cmd[p].repo = r => AtHand(p, r)
  BY DEF AtOneRepo, AtHand
<1>5. Become(p, c)
  OBVIOUS
<1> HIDE DEF c
<1> QED BY <1>2, <1>3, <1>4, <1>5, QuietStepKeeps DEF Writing

LEMMA PutKeeps ==
    ASSUME RepoInv, NEW p \in Updaters, Put(p) \/ Write(p) \/ PutFails(p)
    PROVE  RepoInv'
<1>1. cmd[p] \in Command
  BY DEF RepoInv, RepoTypeOK
<1>2. cmd[p].pkgs \in Seq(Offer)
  BY <1>1 DEF Command
<1>3. CASE Put(p)
  <2>1. [cmd[p] EXCEPT !.pc = "write", !.fd = TRUE]
          = [cmd[p] EXCEPT !.pc = "write", !.pkgs = cmd[p].pkgs, !.fd = TRUE]
    BY <1>1 DEF Command
  <2> QED BY <1>2, <1>3, <2>1, PuttingKeeps DEF Put
<1>4. CASE PutFails(p)
  <2>1. Tail(cmd[p].pkgs) \in Seq(Offer)
    BY <1>2, <1>4, HeadTailProperties DEF PutFails
  <2> QED BY <1>4, <2>1, PuttingKeeps DEF PutFails
<1>5. CASE Write(p)
  <2>1. CASE cmd[p].pkgs # <<>>
    <3>1. Tail(cmd[p].pkgs) \in Seq(Offer)
      BY <1>2, <2>1, HeadTailProperties
    <3> QED BY <1>5, <3>1, PuttingKeeps DEF Write
  <2>2. CASE cmd[p].pkgs = <<>>
    <3>1. Tail(cmd[p].pkgs) \in Seq(Offer)
      BY <2>2
    <3> QED BY <1>5, <3>1, PuttingKeeps DEF Write
  <2> QED BY <2>1, <2>2
<1> QED BY <1>3, <1>4, <1>5

LEMMA StampKeeps ==
    ASSUME RepoInv, NEW p \in Updaters, Stamp(p)
    PROVE  RepoInv'
<1> DEFINE r == cmd[p].repo
           c == [cmd[p] EXCEPT !.pc = "stamp"]
<1>1. cmd[p] \in Command /\ r \in RepoNames /\ cmd[p].pc = "put"
  BY DEF Stamp, RepoInv, RepoTypeOK, AtOneRepo
<1>2. c \in Command /\ c.pc = "stamp" /\ c.repo = r /\ c.repos = cmd[p].repos
  BY <1>1 DEF Command, AtOneRepo
<1>3. /\ repos' \in [RepoNames -> {Missing, Truncated, "record"}]
      /\ repos'[r] = Truncated /\ \A s \in RepoNames \ {r} : repos'[s] = repos[s]
      /\ UNCHANGED <<wanted, raced>> /\ Become(p, c)
  BY <1>1 DEF Stamp, RepoInv, RepoTypeOK
<1> HIDE DEF c, r
<1>4. RepoTypeOK' /\ cmd'[p] = c /\ \A q \in Updaters \ {p} : cmd'[q] = cmd[q]
  BY <1>1, <1>2, <1>3, OthersStay DEF RepoInv
<1>5. \A s : AtHand(p, s)' <=> AtHand(p, s)
  BY <1>1, <1>2, <1>4 DEF AtHand, AtOneRepo, r
<1>6. ASSUME NEW s \in RepoNames \ raced PROVE Undisputed(s)'
  <2>1. Undisputed(s)
    BY DEF RepoInv
  <2>2. CASE s = r
    <3>1. AtHand(p, s)
      BY <1>1, <2>2 DEF AtHand, AtOneRepo, r
    <3>2. s \in wanted /\ \A q \in Updaters : ~ (cmd[q].pc = "add" /\ cmd[q].repo = s)
      BY <1>1, <2>1, <3>1 DEF Undisputed, OnlyWanted, AddedAlone
    <3>3. HasRecord(s)'
      BY <1>2, <1>3, <1>4, <2>2, <3>2 DEF HasRecord, Writing
    <3>4. OnlyWanted(s)'
      BY <1>3, <3>2 DEF OnlyWanted
    <3>5. AddedAlone(s)'
      BY <1>2, <1>4, <3>2 DEF AddedAlone
    <3> QED BY <3>3, <3>4, <3>5 DEF Undisputed
  <2>3. CASE s # r
    BY <1>1, <1>2, <1>3, <1>4, <1>5, <2>1, <2>3, StaysUndisputed DEF r
  <2> QED BY <2>2, <2>3
<1> QED BY <1>3, <1>4, <1>6 DEF RepoInv

\* The end of a write: a record that is there is complete.
LEMMA FilledKeeps ==
    ASSUME RepoInv, NEW p \in Updaters, cmd[p].pc \in Writing, Filled(p),
           NEW c \in Command, Become(p, c), c.pc \in {"idle", "fetch"},
           c.repos \subseteq cmd[p].repos, c.pc = "idle" => c.repos = {},
           UNCHANGED <<wanted, raced>>
    PROVE  RepoInv'
<1> DEFINE r == cmd[p].repo
<1>1. r \in RepoNames
  BY DEF RepoInv, RepoTypeOK, Writing, AtOneRepo
<1>2. /\ repos' \in [RepoNames -> {Missing, Truncated, "record"}]
      /\ repos'[r] = IF repos[r] = Missing THEN Missing ELSE "record"
      /\ \A s \in RepoNames \ {r} : repos'[s] = repos[s]
  BY <1>1 DEF Filled, RepoInv, RepoTypeOK
<1>3. RepoTypeOK' /\ cmd'[p] = c /\ \A q \in Updaters \ {p} : cmd'[q] = cmd[q]
  BY <1>2, OthersStay DEF RepoInv, AtOneRepo
<1>4. AtHand(p, r) /\ \A s : AtHand(p, s)' => AtHand(p, s)
  BY <1>3 DEF AtHand, AtOneRepo, Writing
<1>5. cmd'[p].pc # "add"
  BY <1>3
<1>6. ASSUME NEW s \in RepoNames \ raced PROVE Undisputed(s)'
  <2>1. Undisputed(s)
    BY DEF RepoInv
  <2>2. CASE s = r
    <3>1. s \in wanted /\ \A q \in Updaters \ {p} : ~ (cmd[q].pc = "add" /\ cmd[q].repo = s)
      BY <1>4, <2>1, <2>2 DEF Undisputed, OnlyWanted, AddedAlone
    <3>2. repos[s] # Missing
      BY <2>1, <3>1, RepoAssumption DEF Undisputed, HasRecord
    <3>3. HasRecord(s)'
      BY <1>2, <2>2, <3>1, <3>2 DEF HasRecord
    <3>4. OnlyWanted(s)'
      BY <3>1 DEF OnlyWanted
    <3>5. AddedAlone(s)'
      BY <1>3, <1>5, <3>1 DEF AddedAlone
    <3> QED BY <3>3, <3>4, <3>5 DEF Undisputed
  <2>3. CASE s # r
    BY <1>2, <1>3, <1>4, <1>5, <2>1, <2>3, StaysUndisputed
  <2> QED BY <2>2, <2>3
<1> QED BY <1>3, <1>6 DEF RepoInv

LEMMA WritesKeep ==
    ASSUME RepoInv, NEW p \in Updaters, AddWrite(p) \/ StampWrite(p)
    PROVE  RepoInv'
<1>1. CASE AddWrite(p)
  BY <1>1, FilledKeeps, NoCommandType DEF AddWrite, NoCommand, Writing
<1>2. CASE StampWrite(p)
  <2> DEFINE c == [cmd[p] EXCEPT !.pc = "fetch"]
  <2>1. cmd[p] \in Command
    BY DEF RepoInv, RepoTypeOK
  <2>2. c \in Command /\ c.pc = "fetch" /\ c.repos = cmd[p].repos
    BY <2>1 DEF Command
  <2>3. Become(p, c) /\ cmd[p].pc \in Writing /\ Filled(p) /\ UNCHANGED <<wanted, raced>>
    BY <1>2 DEF StampWrite, Writing
  <2> HIDE DEF c
  <2> QED BY <2>2, <2>3, FilledKeeps
<1> QED BY <1>1, <1>2

LEMMA UpdateDoneKeeps ==
    ASSUME RepoInv, NEW p \in Updaters, UpdateDone(p)
    PROVE  RepoInv'
<1>1. NoCommand.pc = "idle" /\ NoCommand.repos = {}
  BY DEF NoCommand
<1>2. Become(p, NoCommand) /\ UNCHANGED <<repos, wanted, raced>> /\ cmd[p].pc = "fetch"
  BY DEF UpdateDone
<1> QED BY <1>1, <1>2, NoCommandType, QuietStepKeeps DEF Writing, AtOneRepo

LEMMA StampFailsKeeps ==
    ASSUME RepoInv, NEW p \in Updaters, StampFails(p)
    PROVE  RepoInv'
<1> DEFINE c == [cmd[p] EXCEPT !.pc = "fetch"]
<1>1. cmd[p] \in Command /\ cmd[p].pc = "put" /\ UNCHANGED <<repos, wanted, raced>>
  BY DEF StampFails, RepoInv, RepoTypeOK
<1>2. c \in Command /\ c.pc = "fetch" /\ c.repos = cmd[p].repos
  BY <1>1 DEF Command
<1>3. Become(p, c)
  BY DEF StampFails
<1> HIDE DEF c
<1> QED BY <1>1, <1>2, <1>3, QuietStepKeeps DEF Writing, AtOneRepo, AtHand

\* A record that is left as it is, perhaps half written, is one that is given up.
LEMMA GivingUpKeeps ==
    ASSUME RepoInv, NEW p \in Updaters, NEW c \in Command, Become(p, c),
           UNCHANGED <<repos, wanted>>, raced \subseteq raced',
           cmd[p].pc \in Writing => cmd[p].repo \in raced',
           c.pc \in {"idle", "fetch"}, c.pc = "idle" => c.repos = {},
           c.repos \subseteq cmd[p].repos
    PROVE  RepoInv'
<1>1. RepoTypeOK' /\ cmd'[p] = c /\ \A q \in Updaters \ {p} : cmd'[q] = cmd[q]
  BY OthersStay DEF RepoInv, RepoTypeOK, AtOneRepo
<1>2. ASSUME NEW s \in RepoNames \ raced' PROVE Undisputed(s)'
  <2>1. Undisputed(s)
    BY <1>2 DEF RepoInv
  <2>2. AtHand(p, s)' => AtHand(p, s)
    BY <1>1 DEF AtHand, AtOneRepo
  <2> QED BY <1>1, <1>2, <2>1, <2>2, StaysUndisputed
<1> QED BY <1>1, <1>2 DEF RepoInv

LEMMA GivenUpKeeps ==
    ASSUME RepoInv, NEW p \in Updaters, StampStops(p) \/ Kill(p)
    PROVE  RepoInv'
<1>1. CASE StampStops(p)
  <2> DEFINE c == [cmd[p] EXCEPT !.pc = "fetch"]
  <2>1. cmd[p] \in Command
    BY DEF RepoInv, RepoTypeOK
  <2>2. c \in Command /\ c.pc = "fetch" /\ c.repos = cmd[p].repos
    BY <2>1 DEF Command
  <2>3. Become(p, c) /\ UNCHANGED <<repos, wanted>> /\ raced' = raced \cup {cmd[p].repo}
    BY <1>1 DEF StampStops
  <2> HIDE DEF c
  <2> QED BY <2>2, <2>3, GivingUpKeeps
<1>2. CASE Kill(p)
  <2>1. NoCommand.pc = "idle" /\ NoCommand.repos = {}
    BY DEF NoCommand
  <2>2. /\ Become(p, NoCommand) /\ UNCHANGED <<repos, wanted>> /\ raced \subseteq raced'
        /\ cmd[p].pc \in Writing => cmd[p].repo \in raced'
    BY <1>2 DEF Kill, Writing
  <2> QED BY <2>1, <2>2, NoCommandType, GivingUpKeeps
<1> QED BY <1>1, <1>2

-----------------------------------------------------------------------------
(* What repositories list                                                  *)

LEMMA PositionIs ==
    ASSUME NEW r \in RepoNames
    PROVE  /\ Position(r) \in Nat /\ Repos[Position(r)] = r
<1>1. \E i \in DOMAIN Repos : Repos[i] = r
  BY DEF RepoNames, ToSet
<1>2. Position(r) \in DOMAIN Repos /\ Repos[Position(r)] = r
  BY <1>1 DEF Position
<1>3. DOMAIN Repos \subseteq Nat
  BY RepoAssumption
<1> QED BY <1>2, <1>3

LEMMA OneEachPosition ==
    ASSUME NEW r \in RepoNames, NEW s \in RepoNames
    PROVE  /\ Position(r) \in Int /\ Position(s) \in Int
           /\ r = s \/ Position(r) < Position(s) \/ Position(s) < Position(r)
<1>1. Position(r) \in Nat /\ Position(s) \in Nat
  BY PositionIs
<1>2. Position(r) = Position(s) => r = s
  BY PositionIs
<1> QED BY <1>1, <1>2

LEMMA OffersType ==
    ASSUME NEW r \in RepoNames
    PROVE  /\ Offers[r] \in Seq(Offer) /\ Len(Offers[r]) \in Nat
           /\ DOMAIN Offers[r] = 1..Len(Offers[r])
           /\ \A i \in DOMAIN Offers[r] : Offers[r][i] \in Offer
<1>1. Offers[r] \in Seq(Offer)
  BY RepoAssumption
<1> QED BY <1>1

\* A wanted repository lists the package at that place.
ListsAt(r, i, k) == r \in wanted /\ i \in DOMAIN Offers[r] /\ Offers[r][i].pkg = k

\* The last place of all, if it is known, has the version.
LEMMA LastVersionIs ==
    ASSUME wanted \subseteq RepoNames, NEW k, NEW r, NEW i, ListsAt(r, i, k),
           \A s, j : ListsAt(s, j, k) => Position(s) < Position(r) \/ (s = r /\ j <= i)
    PROVE  LastVersion(k) = Offers[r][i].version
<1> DEFINE listing == {s \in wanted : \E j \in DOMAIN Offers[s] : Offers[s][j].pkg = k}
           last == CHOOSE s \in listing : \A t \in listing : Position(t) <= Position(s)
           at == {j \in DOMAIN Offers[last] : Offers[last][j].pkg = k}
           l == CHOOSE j \in at : \A m \in at : m <= j
<1>1. LastVersion(k) = IF listing = {} THEN Missing ELSE Offers[last][l].version
  BY DEF LastVersion
<1>2. r \in listing /\ r \in RepoNames
  BY DEF ListsAt
<1>3. ASSUME NEW s \in listing PROVE s \in RepoNames /\ (Position(s) < Position(r) \/ s = r)
  <2>1. PICK j \in DOMAIN Offers[s] : Offers[s][j].pkg = k
    OBVIOUS
  <2>2. ListsAt(s, j, k) /\ s \in RepoNames
    BY <2>1 DEF ListsAt
  <2> QED BY <2>2
<1> HIDE DEF listing
<1>4. \A s \in listing : Position(s) <= Position(r)
  <2>1. TAKE s \in listing
  <2>2. Position(s) \in Int /\ Position(r) \in Int
    BY <1>2, <1>3, OneEachPosition
  <2> QED BY <1>3, <2>2
<1>5. last = r
  <2>1. last \in listing /\ \A t \in listing : Position(t) <= Position(last)
    BY <1>2, <1>4
  <2> HIDE DEF last
  <2>2. Position(last) \in Int /\ Position(r) \in Int /\ Position(r) <= Position(last)
    BY <1>2, <1>3, <2>1, OneEachPosition
  <2> QED BY <1>3, <2>1, <2>2
<1> HIDE DEF last
<1>6. i \in at /\ at \subseteq Nat
  BY <1>2, <1>5, OffersType DEF ListsAt
<1>7. \A m \in at : m <= i
  <2>1. TAKE m \in at
  <2>2. ListsAt(r, m, k)
    BY <1>5 DEF ListsAt
  <2>3. ~ (Position(r) < Position(r))
    BY <1>2, OneEachPosition
  <2> QED BY <2>2, <2>3
<1>8. l = i
  <2> HIDE DEF at
  <2>1. l \in at /\ \A m \in at : m <= l
    BY <1>6, <1>7
  <2> HIDE DEF l
  <2>2. l \in Int /\ i \in Int /\ l <= i /\ i <= l
    BY <1>6, <1>7, <2>1
  <2> QED BY <2>2
<1> QED BY <1>1, <1>2, <1>5, <1>8

LEMMA NotListed ==
    ASSUME NEW k, \A s, j : ~ ListsAt(s, j, k)
    PROVE  LastVersion(k) = Missing
<1> DEFINE listing == {s \in wanted : \E j \in DOMAIN Offers[s] : Offers[s][j].pkg = k}
<1>1. listing = {}
  BY DEF ListsAt
<1> QED BY <1>1 DEF LastVersion

-----------------------------------------------------------------------------
(* What updates still have to put                                          *)

Putting == {"put", "write"}

\* The place of the first package still to be put, of the repository at hand.
PutSoFar(p) == Len(Offers[cmd[p].repo]) - Len(cmd[p].pkgs)

\* The update p is still to put what r lists at i.  A file that was unlinked when it was
\* open does not count.
Remaining(p, r, i) ==
    /\ i \in DOMAIN Offers[r]
    /\ \/ r \in cmd[p].repos /\ cmd[p].pc # "list"
       \/ /\ cmd[p].pc \in Putting /\ r = cmd[p].repo /\ i > PutSoFar(p)
          /\ cmd[p].pc = "write" /\ ~ cmd[p].fd => i > PutSoFar(p) + 1

Owes(p, k) == \E r \in wanted : \E i \in DOMAIN Offers[r] :
                  Remaining(p, r, i) /\ Offers[r][i].pkg = k

\* An update that missed no repository: it goes on with all that follow.
Orderly(p) ==
    /\ cmd[p].pc # "list" =>
          /\ cmd[p].repos \subseteq wanted
          /\ \A s \in cmd[p].repos, t \in wanted :
                Position(s) < Position(t) => t \in cmd[p].repos
    /\ cmd[p].pc \in {"idle", "add"} => cmd[p].repos = {}
    /\ cmd[p].pc = "clear" => cmd[p].repos = wanted
    /\ cmd[p].pc \in Putting =>
          /\ cmd[p].repo \in wanted
          /\ \A t \in wanted : Position(cmd[p].repo) < Position(t) => t \in cmd[p].repos
          /\ PutSoFar(p) \in Nat
          /\ \A j \in 1..Len(cmd[p].pkgs) :
                cmd[p].pkgs[j] = Offers[cmd[p].repo][PutSoFar(p) + j]
    /\ cmd[p].pc = "write" => cmd[p].pkgs # <<>>

Settled(k) == available[k] = LastVersion(k) \/ \E p \in Updaters : Owes(p, k)

Settling == (\A p \in Updaters : Orderly(p)) /\ (\A k \in Pkgs : Settled(k))

\* No repository was tried yet.
Early == {"idle", "add", "list", "clear"}

Erring == \E p \in Updaters : cmd[p].errors

ConvergesInv ==
    /\ available = [k \in Pkgs |-> available[k]]
    /\ wanted \subseteq RepoNames
    /\ \A p \in Updaters : cmd[p].pc \in Early => ~ cmd[p].errors
    /\ ~ stale /\ ~ Erring => Settling

\* What a step of p leaves alone.
LEMMA OtherUpdaters ==
    ASSUME NEW p \in Updaters, NEW c, RepoTypeOK, Become(p, c), wanted' = wanted,
           NEW q \in Updaters \ {p}
    PROVE  /\ cmd'[q] = cmd[q]
           /\ Orderly(q)' <=> Orderly(q)
           /\ \A r, i : Remaining(q, r, i)' <=> Remaining(q, r, i)
           /\ \A k : Owes(q, k)' <=> Owes(q, k)
<1>1. cmd'[q] = cmd[q]
  BY DEF Become, RepoTypeOK
<1>2. Orderly(q)' <=> Orderly(q)
  BY <1>1 DEF Orderly, PutSoFar
<1>3. \A r, i : Remaining(q, r, i)' <=> Remaining(q, r, i)
  BY <1>1 DEF Remaining, PutSoFar
<1>4. \A k : Owes(q, k)' <=> Owes(q, k)
  <2>1. TAKE k
  <2>2. Owes(q, k)' <=> \E r \in wanted' : \E i \in DOMAIN Offers[r] :
                            Remaining(q, r, i)' /\ Offers[r][i].pkg = k
    BY DEF Owes
  <2> QED BY <1>3, <2>2 DEF Owes
<1> QED BY <1>1, <1>2, <1>3, <1>4

LEMMA SameLastVersion ==
    ASSUME wanted' = wanted, NEW k
    PROVE  LastVersion(k)' = LastVersion(k)
BY DEF LastVersion

\* A step of p that puts nothing, and after which p is still to put what it was.
LEMMA StepKeepsDebts ==
    ASSUME RepoTypeOK, Settling, NEW p \in Updaters, NEW c, Become(p, c),
           available' = available, wanted' = wanted, Orderly(p)',
           \A r, i : Remaining(p, r, i) => Remaining(p, r, i)'
    PROVE  Settling'
<1>1. ASSUME NEW q \in Updaters PROVE Orderly(q)'
  BY OtherUpdaters DEF Settling
<1>2. ASSUME NEW k \in Pkgs PROVE Settled(k)'
  <2>1. ASSUME NEW q \in Updaters, Owes(q, k) PROVE Owes(q, k)'
    <3>1. CASE q = p
      <4>0. PICK r \in wanted : \E i \in DOMAIN Offers[r] :
                Remaining(p, r, i) /\ Offers[r][i].pkg = k
        BY <2>1, <3>1 DEF Owes
      <4>1. PICK i \in DOMAIN Offers[r] : Remaining(p, r, i) /\ Offers[r][i].pkg = k
        BY <4>0
      <4>2. Remaining(p, r, i)'
        BY <4>1
      <4> QED BY <3>1, <4>1, <4>2 DEF Owes
    <3>2. CASE q # p
      BY <2>1, <3>2, OtherUpdaters
    <3> QED BY <3>1, <3>2
  <2>2. LastVersion(k)' = LastVersion(k)
    BY SameLastVersion
  <2> QED BY <2>1, <2>2 DEF Settling, Settled
<1> QED BY <1>1, <1>2 DEF Settling

\* A step that puts nothing and fails nothing.
LEMMA QuietStepSettles ==
    ASSUME RepoTypeOK, ConvergesInv, NEW p \in Updaters, NEW c, Become(p, c),
           available' = available, wanted' = wanted, stale => stale',
           cmd[p].errors => c.errors \/ stale', c.pc \in Early => ~ c.errors,
           ~ stale' /\ Settling => Orderly(p)' /\ \A r, i : Remaining(p, r, i) => Remaining(p, r, i)'
    PROVE  ConvergesInv'
<1>1. cmd'[p] = c /\ \A q \in Updaters \ {p} : cmd'[q] = cmd[q]
  BY DEF Become, RepoTypeOK
<1>2. ASSUME ~ stale', ~ Erring' PROVE Settling'
  <2>1. ~ stale /\ ~ Erring
    BY <1>1, <1>2 DEF Erring
  <2>2. Settling
    BY <2>1 DEF ConvergesInv
  <2> QED BY <1>2, <2>2, StepKeepsDebts
<1>3. \A q \in Updaters : cmd'[q].pc \in Early => ~ cmd'[q].errors
  BY <1>1 DEF ConvergesInv
<1> QED BY <1>2, <1>3 DEF ConvergesInv

\* A step that fails, or with which an update may miss something.
LEMMA FailedStepSettles ==
    ASSUME RepoTypeOK, ConvergesInv, NEW p \in Updaters, NEW c, Become(p, c),
           available' = available, wanted' \subseteq RepoNames, stale' \/ c.errors,
           c.pc \in Early => ~ c.errors
    PROVE  ConvergesInv'
<1>1. cmd'[p] = c /\ \A q \in Updaters \ {p} : cmd'[q] = cmd[q]
  BY DEF Become, RepoTypeOK
<1>2. \A q \in Updaters : cmd'[q].pc \in Early => ~ cmd'[q].errors
  BY <1>1 DEF ConvergesInv
<1>3. stale' \/ Erring'
  BY <1>1 DEF Erring
<1> QED BY <1>2, <1>3 DEF ConvergesInv

LEMMA ConfiguringSettles ==
    ASSUME RepoTypeOK, ConvergesInv, NEW p \in Updaters, NEW r \in RepoNames,
           Add(p, r) \/ Del(p, r)
    PROVE  ConvergesInv'
<1>1. CASE Add(p, r)
  <2> DEFINE c == [NoCommand EXCEPT !.pc = "add", !.repo = r]
  <2>1. Become(p, c) /\ available' = available /\ wanted' = wanted \cup {r} /\ stale'
    BY <1>1 DEF Add, Reconfigures
  <2>2. ~ c.errors
    BY DEF NoCommand
  <2>3. wanted' \subseteq RepoNames
    BY <2>1 DEF ConvergesInv
  <2> HIDE DEF c
  <2> QED BY <2>1, <2>2, <2>3, FailedStepSettles
<1>2. CASE Del(p, r)
  BY <1>2 DEF Del, Reconfigures, ConvergesInv
<1> QED BY <1>1, <1>2

LEMMA AddWriteSettles ==
    ASSUME RepoTypeOK, ConvergesInv, NEW p \in Updaters, AddWrite(p)
    PROVE  ConvergesInv'
<1>1. /\ cmd[p].pc = "add" /\ Become(p, NoCommand)
      /\ available' = available /\ wanted' = wanted /\ stale' = stale
  BY DEF AddWrite
<1>2. /\ NoCommand.pc = "idle" /\ NoCommand.repos = {} /\ NoCommand.errors = FALSE
      /\ cmd'[p] = NoCommand
  BY <1>1 DEF NoCommand, Become, RepoTypeOK
<1>3. ~ cmd[p].errors
  BY <1>1 DEF ConvergesInv, Early
<1>4. Orderly(p)'
  BY <1>2 DEF Orderly, Putting
<1>5. Settling => \A r, i : ~ Remaining(p, r, i)
  BY <1>1 DEF Settling, Orderly, Remaining, Putting
<1> QED BY <1>1, <1>2, <1>3, <1>4, <1>5, QuietStepSettles

LEMMA ListingSettles ==
    ASSUME RepoTypeOK, ConvergesInv, NEW p \in Updaters, Update(p) \/ List(p)
    PROVE  ConvergesInv'
<1>1. PICK c : Become(p, c) /\ c.pc = "list" /\ c.errors = FALSE
  <2>1. CASE Update(p)
    <3>1. PICK n : Become(p, [NoCommand EXCEPT !.pc = "list", !.left = RepoNames, !.sole = n])
      BY <2>1 DEF Update
    <3> DEFINE c == [NoCommand EXCEPT !.pc = "list", !.left = RepoNames, !.sole = n]
    <3>2. c.pc = "list" /\ c.errors = FALSE
      BY DEF NoCommand
    <3> HIDE DEF c
    <3> QED BY <3>1, <3>2 DEF c
  <2>2. CASE List(p)
    <3>1. PICK r \in cmd[p].left :
              Become(p, [cmd[p] EXCEPT !.left = @ \ {r},
                                       !.repos = IF IsRepo(r) THEN @ \cup {r} ELSE @])
      BY <2>2 DEF List
    <3> DEFINE new == IF IsRepo(r) THEN cmd[p].repos \cup {r} ELSE cmd[p].repos
               c == [cmd[p] EXCEPT !.left = @ \ {r}, !.repos = new]
    <3>2. cmd[p] \in Command /\ cmd[p].pc = "list"
      BY <2>2 DEF List, RepoTypeOK
    <3>3. ~ cmd[p].errors
      BY <3>2 DEF ConvergesInv, Early
    <3>4. c.pc = "list" /\ c.errors = FALSE
      BY <3>2, <3>3 DEF Command
    <3>5. Become(p, c)
      BY <3>1
    <3> HIDE DEF c
    <3> QED BY <3>4, <3>5
  <2> QED BY <2>1, <2>2
<1>2. /\ available' = available /\ wanted' = wanted /\ stale' = stale
      /\ cmd[p].pc \in {"idle", "list"}
  BY DEF Update, List, Begins
<1>3. cmd'[p] = c
  BY <1>1 DEF Become, RepoTypeOK
<1>4. ~ cmd[p].errors
  BY <1>2 DEF ConvergesInv, Early
<1>5. Orderly(p)'
  BY <1>1, <1>3 DEF Orderly, Putting
<1>6. Settling => \A r, i : ~ Remaining(p, r, i)
  BY <1>2 DEF Settling, Orderly, Remaining, Putting
<1> QED BY <1>1, <1>2, <1>4, <1>5, <1>6, QuietStepSettles

LEMMA ListedSettles ==
    ASSUME RepoTypeOK, ConvergesInv, NEW p \in Updaters, ListingDone(p)
    PROVE  ConvergesInv'
<1>1. /\ cmd[p].pc = "list" /\ available' = available /\ wanted' = wanted
      /\ cmd[p] \in Command
  BY DEF ListingDone, RepoTypeOK
<1>2. ~ cmd[p].errors
  BY <1>1 DEF ConvergesInv, Early
<1>3. \A r, i : ~ Remaining(p, r, i)
  BY <1>1 DEF Remaining, Putting
<1>4. CASE cmd[p].repos = {}
  <2>1. Become(p, NoCommand) /\ stale' = stale
    BY <1>4 DEF ListingDone
  <2>2. /\ NoCommand.pc = "idle" /\ NoCommand.repos = {} /\ NoCommand.errors = FALSE
        /\ cmd'[p] = NoCommand
    BY <2>1 DEF NoCommand, Become, RepoTypeOK
  <2>3. Orderly(p)'
    BY <2>2 DEF Orderly, Putting
  <2> QED BY <1>1, <1>2, <1>3, <2>1, <2>2, <2>3, QuietStepSettles
<1>5. CASE cmd[p].repos # {}
  <2> DEFINE c == [cmd[p] EXCEPT !.pc = "clear", !.left = Pkgs]
  <2>1. Become(p, c) /\ stale' = (stale \/ cmd[p].repos # wanted)
    BY <1>5 DEF ListingDone
  <2>2. c.pc = "clear" /\ c.repos = cmd[p].repos /\ c.errors = cmd[p].errors
    BY <1>1 DEF Command
  <2> HIDE DEF c
  <2>3. cmd'[p] = c
    BY <2>1 DEF Become, RepoTypeOK
  <2>4. ~ stale' => Orderly(p)'
    BY <1>1, <2>1, <2>2, <2>3 DEF Orderly, Putting
  <2> QED BY <1>1, <1>2, <1>3, <2>1, <2>2, <2>4, QuietStepSettles
<1> QED BY <1>4, <1>5

LEMMA FetchSettles ==
    ASSUME RepoTypeOK, ConvergesInv, NEW p \in Updaters, Fetch(p)
    PROVE  ConvergesInv'
<1>1. PICK r \in RepoNames : IsNext(p, r) /\ Begun(p, r)
  BY DEF Fetch
<1> DEFINE c == [cmd[p] EXCEPT !.pc = "put", !.repo = r, !.repos = @ \ {r}, !.pkgs = Offers[r]]
<1>2. /\ cmd[p].pc = "fetch" /\ available' = available /\ wanted' = wanted /\ stale' = stale
  BY DEF Fetch
<1>3. Become(p, c) /\ r \in cmd[p].repos /\ \A s \in cmd[p].repos : Position(r) <= Position(s)
  BY <1>1 DEF Begun, IsNext
<1>4. /\ c.pc = "put" /\ c.repo = r /\ c.repos = cmd[p].repos \ {r} /\ c.pkgs = Offers[r]
      /\ c.errors = cmd[p].errors
  <2>1. cmd[p] \in Command
    BY DEF RepoTypeOK
  <2> QED BY <2>1 DEF Command
<1> HIDE DEF c
<1>5. cmd'[p] = c
  BY <1>3 DEF Become, RepoTypeOK
<1>6. Len(Offers[r]) \in Nat /\ PutSoFar(p)' = 0
  <2>1. Len(Offers[r]) \in Nat
    BY OffersType
  <2>2. PutSoFar(p)' = Len(Offers[r]) - Len(Offers[r])
    BY <1>4, <1>5 DEF PutSoFar
  <2> QED BY <2>1, <2>2
<1>7. ASSUME Settling PROVE Orderly(p)'
  <2>1. Orderly(p)
    BY <1>7 DEF Settling
  <2>2. wanted \subseteq RepoNames
    BY DEF ConvergesInv
  <2>3. \A t \in wanted : Position(r) < Position(t) => t \in cmd[p].repos \ {r}
    <3>1. TAKE t \in wanted
    <3>2. r \in RepoNames /\ t \in RepoNames
      BY <2>2
    <3>3. Position(r) \in Int
      BY OneEachPosition
    <3> QED BY <1>2, <1>3, <2>1, <3>3 DEF Orderly
  <2>4. \A s \in cmd[p].repos \ {r}, t \in wanted :
            Position(s) < Position(t) => t \in cmd[p].repos \ {r}
    <3>1. TAKE s \in cmd[p].repos \ {r}, t \in wanted
    <3>2. s \in RepoNames /\ t \in RepoNames
      BY <1>2, <2>1, <2>2 DEF Orderly
    <3>3. /\ Position(r) \in Int /\ Position(s) \in Int /\ Position(t) \in Int
          /\ Position(r) <= Position(s)
      BY <1>3, <3>2, OneEachPosition
    <3>4. Position(s) < Position(t) => Position(r) < Position(t)
      BY <3>3
    <3> QED BY <2>3, <3>4
  <2>5. r \in wanted /\ cmd[p].repos \ {r} \subseteq wanted
    BY <1>2, <1>3, <2>1 DEF Orderly
  <2>6. \A j \in 1..Len(Offers[r]) : Offers[r][j] = Offers[r][0 + j]
    BY <1>6
  <2>7. /\ cmd'[p].pc = "put" /\ cmd'[p].repo = r /\ cmd'[p].repos = cmd[p].repos \ {r}
        /\ cmd'[p].pkgs = Offers[r] /\ wanted' = wanted
    BY <1>2, <1>4, <1>5
  <2> QED BY <1>6, <2>3, <2>4, <2>5, <2>6, <2>7 DEF Orderly, Putting
<1>8. ASSUME NEW s, NEW i, Remaining(p, s, i) PROVE Remaining(p, s, i)'
  <2>1. i \in DOMAIN Offers[s] /\ s \in cmd[p].repos
    BY <1>2, <1>8 DEF Remaining, Putting
  <2>2. CASE s = r
    <3>1. i \in 1..Len(Offers[r])
      BY <2>1, <2>2, OffersType
    <3>2. i > 0
      BY <1>6, <3>1
    <3> QED BY <1>4, <1>5, <1>6, <2>1, <2>2, <3>2 DEF Remaining, Putting
  <2>3. CASE s # r
    BY <1>4, <1>5, <2>1, <2>3 DEF Remaining
  <2> QED BY <2>2, <2>3
<1> QED BY <1>2, <1>3, <1>4, <1>7, <1>8, QuietStepSettles DEF Early

LEMMA StampingSettles ==
    ASSUME RepoTypeOK, ConvergesInv, NEW p \in Updaters,
           Stamp(p) \/ StampWrite(p) \/ StampFails(p) \/ StampStops(p)
    PROVE  ConvergesInv'
<1>1. PICK pc \in {"stamp", "fetch"} : Become(p, [cmd[p] EXCEPT !.pc = pc])
  BY DEF Stamp, StampWrite, StampFails, StampStops
<1> DEFINE c == [cmd[p] EXCEPT !.pc = pc]
<1>2. /\ available' = available /\ wanted' = wanted /\ stale' = stale
      /\ cmd[p].pc = "stamp" \/ (cmd[p].pc = "put" /\ cmd[p].pkgs = <<>>)
  BY DEF Stamp, StampWrite, StampFails, StampStops
<1>3. /\ c.pc = pc /\ c.repo = cmd[p].repo /\ c.repos = cmd[p].repos /\ c.errors = cmd[p].errors
  <2>1. cmd[p] \in Command
    BY DEF RepoTypeOK
  <2> QED BY <2>1 DEF Command
<1>4. cmd'[p] = c
  BY <1>1 DEF Become, RepoTypeOK
<1> HIDE DEF c
<1>5. Orderly(p) => Orderly(p)'
  BY <1>2, <1>3, <1>4 DEF Orderly, Putting
<1>6. ASSUME NEW r, NEW i, Remaining(p, r, i), Orderly(p) PROVE Remaining(p, r, i)'
  <2>1. r \in cmd[p].repos
    <3>1. SUFFICES ASSUME r \notin cmd[p].repos PROVE FALSE
      OBVIOUS
    <3>2. cmd[p].pc = "put" /\ cmd[p].pkgs = <<>> /\ r = cmd[p].repo /\ i > PutSoFar(p)
          /\ i \in DOMAIN Offers[r]
      BY <1>2, <1>6, <3>1 DEF Remaining, Putting
    <3>3. r \in RepoNames
      BY <3>2 DEF RepoTypeOK, AtOneRepo
    <3>4. Len(Offers[r]) \in Nat /\ i \in 1..Len(Offers[r])
      BY <3>2, <3>3, OffersType
    <3>5. PutSoFar(p) = Len(Offers[r]) - 0
      BY <3>2 DEF PutSoFar
    <3> QED BY <3>2, <3>4, <3>5
  <2> QED BY <1>3, <1>4, <1>6, <2>1 DEF Remaining
<1>7. Settling => Orderly(p)
  BY DEF Settling
<1>8. c.pc \notin Early
  BY <1>3 DEF Early
<1> QED BY <1>1, <1>2, <1>3, <1>5, <1>6, <1>7, <1>8, QuietStepSettles DEF c

LEMMA UpdateDoneSettles ==
    ASSUME RepoTypeOK, ConvergesInv, NEW p \in Updaters, UpdateDone(p)
    PROVE  ConvergesInv'
<1>1. /\ cmd[p].pc = "fetch" /\ cmd[p].repos = {} /\ Become(p, NoCommand)
      /\ available' = available /\ wanted' = wanted /\ stale' = (stale \/ cmd[p].errors)
  BY DEF UpdateDone
<1>2. /\ NoCommand.pc = "idle" /\ NoCommand.repos = {} /\ NoCommand.errors = FALSE
      /\ cmd'[p] = NoCommand
  BY <1>1 DEF NoCommand, Become, RepoTypeOK
<1>3. Orderly(p)'
  BY <1>2 DEF Orderly, Putting
<1>4. \A r, i : ~ Remaining(p, r, i)
  BY <1>1 DEF Remaining, Putting
<1> QED BY <1>1, <1>2, <1>3, <1>4, QuietStepSettles

\* Failures and kills.
LEMMA FailingSettles ==
    ASSUME RepoTypeOK, ConvergesInv, NEW p \in Updaters,
           AddFails(p) \/ ClearFails(p) \/ FetchFails(p) \/ PutFails(p) \/ Kill(p)
    PROVE  ConvergesInv'
<1>1. cmd[p] \in Command /\ wanted \subseteq RepoNames /\ ~ NoCommand.errors
  BY DEF RepoTypeOK, ConvergesInv, NoCommand
<1>0. CASE AddFails(p)
  BY <1>0, <1>1, FailedStepSettles DEF AddFails
<1>9. CASE ClearFails(p)
  <2>1. PICK k \in cmd[p].left : Become(p, [cmd[p] EXCEPT !.left = @ \ {k}, !.sole = 0])
    BY <1>9 DEF ClearFails
  <2> DEFINE c == [cmd[p] EXCEPT !.left = @ \ {k}, !.sole = 0]
  <2>2. /\ c.errors = cmd[p].errors /\ c.pc = cmd[p].pc /\ cmd[p].pc = "clear"
        /\ stale' /\ available' = available /\ wanted' = wanted
    BY <1>1, <1>9 DEF ClearFails, Command
  <2>3. ~ c.errors
    BY <2>2 DEF ConvergesInv, Early
  <2>4. Become(p, c)
    BY <2>1
  <2> HIDE DEF c
  <2> QED BY <1>1, <2>2, <2>3, <2>4, FailedStepSettles
<1>2. CASE FetchFails(p)
  <2>1. PICK r \in RepoNames : Become(p, [cmd[p] EXCEPT !.repos = @ \ {r}, !.errors = TRUE])
    BY <1>2 DEF FetchFails
  <2> DEFINE c == [cmd[p] EXCEPT !.repos = @ \ {r}, !.errors = TRUE]
  <2>2. c.errors /\ c.pc = "fetch" /\ available' = available /\ wanted' = wanted
    BY <1>1, <1>2 DEF FetchFails, Command
  <2>3. Become(p, c)
    BY <2>1
  <2> HIDE DEF c
  <2> QED BY <1>1, <2>2, <2>3, FailedStepSettles DEF Early
<1>3. CASE PutFails(p)
  <2> DEFINE c == [cmd[p] EXCEPT !.pc = "put", !.pkgs = Tail(@), !.fd = FALSE]
  <2>1. /\ stale' /\ Become(p, c) /\ available' = available /\ wanted' = wanted
        /\ c.pc = "put"
    BY <1>1, <1>3 DEF PutFails, Command
  <2> HIDE DEF c
  <2> QED BY <1>1, <2>1, FailedStepSettles DEF Early
<1>4. CASE Kill(p)
  <2>1. stale' /\ Become(p, NoCommand) /\ available' = available /\ wanted' = wanted
    BY <1>4 DEF Kill
  <2>2. ~ NoCommand.errors
    BY DEF NoCommand
  <2> QED BY <1>1, <2>1, <2>2, FailedStepSettles
<1> QED BY <1>0, <1>2, <1>3, <1>4, <1>9

\* What an update puts next is from the list of the repository at hand.
LEMMA HeadIs ==
    ASSUME RepoTypeOK, NEW p \in Updaters, cmd[p].pc \in Putting, Orderly(p),
           wanted \subseteq RepoNames, cmd[p].pkgs # <<>>
    PROVE  /\ cmd[p].repo \in wanted /\ PutSoFar(p) \in Nat
           /\ PutSoFar(p) + 1 \in DOMAIN Offers[cmd[p].repo]
           /\ Offers[cmd[p].repo][PutSoFar(p) + 1] = Head(cmd[p].pkgs)
           /\ Head(cmd[p].pkgs).pkg \in Pkgs /\ Head(cmd[p].pkgs).version \in Nat
           /\ Tail(cmd[p].pkgs) \in Seq(Offer)
           /\ Len(Tail(cmd[p].pkgs)) = Len(cmd[p].pkgs) - 1
           /\ Len(cmd[p].pkgs) \in Nat \ {0}
           /\ \A j \in 1..Len(Tail(cmd[p].pkgs)) :
                 j + 1 \in 1..Len(cmd[p].pkgs) /\ Tail(cmd[p].pkgs)[j] = cmd[p].pkgs[j + 1]
<1> DEFINE s == cmd[p].pkgs
           r == cmd[p].repo
<1>1. cmd[p] \in Command
  BY DEF RepoTypeOK
<1>2. s \in Seq(Offer) /\ s # <<>>
  BY <1>1 DEF Command
<1>3. r \in wanted /\ r \in RepoNames /\ PutSoFar(p) \in Nat
  BY DEF Orderly
<1>4. PutSoFar(p) = Len(Offers[r]) - Len(s)
  BY DEF PutSoFar
<1>5. \A j \in 1..Len(s) : s[j] = Offers[r][PutSoFar(p) + j]
  BY DEF Orderly
<1>6. DOMAIN Offers[r] = 1..Len(Offers[r]) /\ Len(Offers[r]) \in Nat
  BY <1>3, OffersType
<1> HIDE DEF s, r
<1>7. /\ Len(s) \in Nat \ {0} /\ Head(s) = s[1] /\ s[1] \in Offer
      /\ Tail(s) \in Seq(Offer) /\ Len(Tail(s)) = Len(s) - 1
      /\ \A j \in 1..Len(Tail(s)) : Tail(s)[j] = s[j + 1]
  <2>1. Len(s) \in Nat \ {0}
    BY <1>2, EmptySeq
  <2> QED BY <1>2, <2>1, HeadTailProperties
<1>8. \A j \in 1..Len(Tail(s)) : j + 1 \in 1..Len(s)
  BY <1>7
<1>9. PutSoFar(p) + 1 \in 1..Len(Offers[r])
  BY <1>3, <1>4, <1>6, <1>7
<1>10. Offers[r][PutSoFar(p) + 1] = Head(s)
  BY <1>5, <1>7
<1>11. Head(s).pkg \in Pkgs /\ Head(s).version \in Nat
  BY <1>7 DEF Offer
<1> QED BY <1>3, <1>6, <1>7, <1>8, <1>9, <1>10, <1>11 DEF s, r

LEMMA PutSettles ==
    ASSUME RepoTypeOK, ConvergesInv, NEW p \in Updaters, Put(p)
    PROVE  ConvergesInv'
<1> DEFINE c == [cmd[p] EXCEPT !.pc = "write", !.fd = TRUE]
<1>0. PICK k : k = Head(cmd[p].pkgs).pkg
  OBVIOUS
<1>1. /\ cmd[p].pc = "put" /\ cmd[p].pkgs # <<>> /\ Become(p, c)
      /\ available' = [available EXCEPT ![k] = Truncated]
      /\ wanted' = wanted /\ stale' = stale
  BY <1>0 DEF Put
<1>2. /\ c.pc = "write" /\ c.repo = cmd[p].repo /\ c.repos = cmd[p].repos
      /\ c.pkgs = cmd[p].pkgs /\ c.fd = TRUE /\ c.errors = cmd[p].errors
  <2>1. cmd[p] \in Command
    BY DEF RepoTypeOK
  <2> QED BY <2>1 DEF Command
<1> HIDE DEF c
<1>3. cmd'[p] = c /\ \A q \in Updaters \ {p} : cmd'[q] = cmd[q]
  BY <1>1 DEF Become, RepoTypeOK
<1>4. wanted \subseteq RepoNames /\ wanted' \subseteq RepoNames
  BY <1>1 DEF ConvergesInv
<1>5. available' = [l \in Pkgs |-> available'[l]]
  <2>1. available = [l \in Pkgs |-> available[l]]
    BY DEF ConvergesInv
  <2> QED BY <1>1, <2>1
<1>6. \A q \in Updaters : cmd'[q].pc \in Early => ~ cmd'[q].errors
  BY <1>2, <1>3 DEF ConvergesInv, Early
<1>7. ASSUME ~ stale', ~ Erring' PROVE Settling'
  <2>1. Settling
    BY <1>1, <1>2, <1>3, <1>7 DEF ConvergesInv, Erring
  <2>2. Orderly(p)
    BY <2>1 DEF Settling
  <2>3. PutSoFar(p)' = PutSoFar(p)
    BY <1>2, <1>3 DEF PutSoFar
  <2>4. Orderly(p)'
    BY <1>1, <1>2, <1>3, <2>2, <2>3 DEF Orderly, Putting
  <2>5. ASSUME NEW q \in Updaters PROVE Orderly(q)'
    BY <1>1, <2>1, <2>4, OtherUpdaters DEF Settling
  <2>6. \A r, i : Remaining(p, r, i) => Remaining(p, r, i)'
    BY <1>1, <1>2, <1>3, <2>3 DEF Remaining, Putting
  <2>7. ASSUME NEW q \in Updaters, NEW l, Owes(q, l) PROVE Owes(q, l)'
    <3>1. CASE q = p
      <4>1. PICK r \in wanted : \E i \in DOMAIN Offers[r] :
                Remaining(p, r, i) /\ Offers[r][i].pkg = l
        BY <2>7, <3>1 DEF Owes
      <4>2. PICK i \in DOMAIN Offers[r] : Remaining(p, r, i) /\ Offers[r][i].pkg = l
        BY <4>1
      <4>3. Remaining(p, r, i)'
        BY <2>6, <4>2
      <4> QED BY <1>1, <3>1, <4>2, <4>3 DEF Owes
    <3>2. CASE q # p
      BY <1>1, <2>7, <3>2, OtherUpdaters
    <3> QED BY <3>1, <3>2
  <2>8. Owes(p, k)'
    <3>0. PICK r, i : r = cmd[p].repo /\ i = PutSoFar(p) + 1
      OBVIOUS
    <3>1. /\ r \in wanted /\ PutSoFar(p) \in Nat /\ i \in DOMAIN Offers[r]
          /\ Offers[r][i].pkg = k
      BY <1>0, <1>1, <1>4, <2>2, <3>0, HeadIs DEF Putting
    <3>2. i > PutSoFar(p)
      BY <3>0, <3>1
    <3>3. Remaining(p, r, i)'
      BY <1>2, <1>3, <2>3, <3>0, <3>1, <3>2 DEF Remaining, Putting
    <3> QED BY <1>1, <3>1, <3>3 DEF Owes
  <2>9. ASSUME NEW l \in Pkgs PROVE Settled(l)'
    <3>1. CASE l = k
      BY <2>8, <3>1 DEF Settled
    <3>2. CASE l # k
      <4>1. available'[l] = available[l]
        BY <1>1, <3>2 DEF ConvergesInv
      <4>2. LastVersion(l)' = LastVersion(l)
        BY <1>1, SameLastVersion
      <4>3. Settled(l)
        BY <2>1 DEF Settling
      <4> QED BY <2>7, <4>1, <4>2, <4>3 DEF Settled
    <3> QED BY <3>1, <3>2
  <2> QED BY <2>5, <2>9 DEF Settling
<1> QED BY <1>4, <1>5, <1>6, <1>7 DEF ConvergesInv

\* A version that was written and is not to be put again by the same update is that of the
\* last repository that lists the package.
LEMMA WriteSettles ==
    ASSUME RepoTypeOK, ConvergesInv, NEW p \in Updaters, Write(p)
    PROVE  ConvergesInv'
<1> DEFINE s == cmd[p].pkgs
           c == [cmd[p] EXCEPT !.pc = "put", !.pkgs = Tail(s), !.fd = FALSE]
           h == Head(s)
           r == cmd[p].repo
<1>1. /\ cmd[p].pc = "write" /\ Become(p, c)
      /\ available' = IF cmd[p].fd THEN [available EXCEPT ![h.pkg] = h.version] ELSE available
      /\ wanted' = wanted /\ stale' = stale
  BY DEF Write
<1>2. /\ c.pc = "put" /\ c.repo = r /\ c.repos = cmd[p].repos
      /\ c.pkgs = Tail(s) /\ c.fd = FALSE /\ c.errors = cmd[p].errors
      /\ cmd[p].fd \in BOOLEAN
  <2>1. cmd[p] \in Command
    BY DEF RepoTypeOK
  <2> QED BY <2>1 DEF Command
<1> HIDE DEF c
<1>3. cmd'[p] = c /\ \A q \in Updaters \ {p} : cmd'[q] = cmd[q]
  BY <1>1 DEF Become, RepoTypeOK
<1>4. wanted \subseteq RepoNames /\ wanted' \subseteq RepoNames
  BY <1>1 DEF ConvergesInv
<1>5. \A q \in Updaters : cmd'[q].pc \in Early => ~ cmd'[q].errors
  BY <1>2, <1>3 DEF ConvergesInv, Early
<1>6. ASSUME ~ stale', ~ Erring' PROVE Settling'
  <2>1. Settling
    BY <1>1, <1>2, <1>3, <1>6 DEF ConvergesInv, Erring
  <2>2. Orderly(p) /\ s # <<>>
    BY <1>1, <2>1 DEF Settling, Orderly
  <2>3. /\ r \in wanted /\ PutSoFar(p) \in Nat
        /\ PutSoFar(p) + 1 \in DOMAIN Offers[r] /\ Offers[r][PutSoFar(p) + 1] = h
        /\ h.pkg \in Pkgs /\ h.version \in Nat
        /\ Len(Tail(s)) = Len(s) - 1 /\ Len(s) \in Nat \ {0}
        /\ \A j \in 1..Len(Tail(s)) : j + 1 \in 1..Len(s) /\ Tail(s)[j] = s[j + 1]
    BY <1>1, <1>4, <2>2, HeadIs DEF Putting
  <2>4. Len(Offers[r]) \in Nat /\ DOMAIN Offers[r] = 1..Len(Offers[r])
    BY <1>4, <2>3, OffersType
  <2>5. PutSoFar(p)' = PutSoFar(p) + 1
    <3>1. PutSoFar(p) = Len(Offers[r]) - Len(s) /\ PutSoFar(p)' = Len(Offers[r]) - Len(Tail(s))
      BY <1>2, <1>3 DEF PutSoFar
    <3> HIDE DEF r, s
    <3> QED BY <2>3, <2>4, <3>1
  <2>6. Orderly(p)'
    <3>1. \A j \in 1..Len(s) : s[j] = Offers[r][PutSoFar(p) + j]
      BY <1>1, <2>2 DEF Orderly, Putting
    <3>2. \A j \in 1..Len(Tail(s)) : Tail(s)[j] = Offers[r][PutSoFar(p) + 1 + j]
      <4>1. TAKE j \in 1..Len(Tail(s))
      <4>2. Tail(s)[j] = Offers[r][PutSoFar(p) + (j + 1)]
        BY <2>3, <3>1
      <4>3. PutSoFar(p) + (j + 1) = PutSoFar(p) + 1 + j
        BY <2>3
      <4> QED BY <4>2, <4>3
    <3>3. PutSoFar(p) + 1 \in Nat
      BY <2>3
    <3> QED BY <1>1, <1>2, <1>3, <2>2, <2>5, <3>2, <3>3 DEF Orderly, Putting
  <2>7. ASSUME NEW q \in Updaters PROVE Orderly(q)'
    BY <1>1, <2>1, <2>6, OtherUpdaters DEF Settling
  <2>8. ASSUME NEW t, NEW i, Remaining(p, t, i), ~ (cmd[p].fd /\ t = r /\ i = PutSoFar(p) + 1)
        PROVE  Remaining(p, t, i)'
    <3>1. CASE t \in cmd[p].repos
      BY <1>2, <1>3, <2>8, <3>1 DEF Remaining
    <3>2. CASE t \notin cmd[p].repos
      <4>1. /\ t = r /\ i > PutSoFar(p) /\ i \in DOMAIN Offers[r]
            /\ ~ cmd[p].fd => i > PutSoFar(p) + 1
        BY <1>1, <2>8, <3>2 DEF Remaining
      <4>2. i > PutSoFar(p) + 1
        BY <2>3, <2>4, <2>8, <4>1
      <4> QED BY <1>2, <1>3, <2>5, <4>1, <4>2 DEF Remaining, Putting
    <3> QED BY <3>1, <3>2
  <2>9. ASSUME NEW l, ~ (cmd[p].fd /\ l = h.pkg), NEW q \in Updaters, Owes(q, l)
        PROVE  Owes(q, l)'
    <3>1. CASE q = p
      <4>1. PICK t \in wanted : \E i \in DOMAIN Offers[t] :
                Remaining(p, t, i) /\ Offers[t][i].pkg = l
        BY <2>9, <3>1 DEF Owes
      <4>2. PICK i \in DOMAIN Offers[t] : Remaining(p, t, i) /\ Offers[t][i].pkg = l
        BY <4>1
      <4>3. Remaining(p, t, i)'
        BY <2>3, <2>8, <2>9, <4>2
      <4> QED BY <1>1, <3>1, <4>2, <4>3 DEF Owes
    <3>2. CASE q # p
      BY <1>1, <2>9, <3>2, OtherUpdaters
    <3> QED BY <3>1, <3>2
  <2>10. ASSUME NEW l \in Pkgs PROVE Settled(l)'
    <3>1. CASE ~ (cmd[p].fd /\ l = h.pkg)
      <4>1. available'[l] = available[l]
        BY <1>1, <3>1 DEF ConvergesInv
      <4>2. LastVersion(l)' = LastVersion(l)
        BY <1>1, SameLastVersion
      <4>3. Settled(l)
        BY <2>1 DEF Settling
      <4> QED BY <2>9, <3>1, <4>1, <4>2, <4>3 DEF Settled
    <3>2. CASE cmd[p].fd /\ l = h.pkg
      <4>1. available'[l] = h.version
        BY <1>1, <2>3, <3>2 DEF ConvergesInv
      <4>2. CASE Owes(p, l)'
        BY <4>2 DEF Settled
      <4>3. CASE ~ Owes(p, l)'
        <5>1. ASSUME NEW t, NEW i, ListsAt(t, i, l)
              PROVE  Position(t) < Position(r) \/ (t = r /\ i <= PutSoFar(p) + 1)
          <6>1. t \in wanted /\ i \in DOMAIN Offers[t] /\ Offers[t][i].pkg = l
            BY <5>1 DEF ListsAt
          <6>2. ~ Remaining(p, t, i)'
            BY <1>1, <4>3, <6>1 DEF Owes
          <6>3. t \notin cmd[p].repos
            BY <1>2, <1>3, <6>1, <6>2 DEF Remaining
          <6>4. ~ (Position(r) < Position(t))
            BY <1>1, <2>2, <6>1, <6>3 DEF Orderly, Putting
          <6>5. CASE t = r
            <7>1. ~ (i > PutSoFar(p) + 1)
              BY <1>2, <1>3, <2>5, <6>1, <6>2, <6>5 DEF Remaining, Putting
            <7> QED BY <2>3, <2>4, <6>1, <6>5, <7>1
          <6>6. CASE t # r
            <7>1. r \in RepoNames /\ t \in RepoNames
              BY <1>4, <2>3, <6>1
            <7> QED BY <6>4, <6>6, <7>1, OneEachPosition
          <6> QED BY <6>5, <6>6
        <5>2. ListsAt(r, PutSoFar(p) + 1, l)
          BY <2>3, <3>2 DEF ListsAt
        <5>3. LastVersion(l) = Offers[r][PutSoFar(p) + 1].version
          <6> HIDE DEF r
          <6> QED BY <1>4, <5>1, <5>2, LastVersionIs
        <5>4. LastVersion(l)' = LastVersion(l)
          BY <1>1, SameLastVersion
        <5> QED BY <2>3, <4>1, <5>3, <5>4 DEF Settled
      <4> QED BY <4>2, <4>3
    <3> QED BY <3>1, <3>2
  <2> QED BY <2>7, <2>10 DEF Settling
<1>7. available' = [l \in Pkgs |-> available'[l]]
  <2>1. available = [l \in Pkgs |-> available[l]]
    BY DEF ConvergesInv
  <2> HIDE DEF h
  <2> QED BY <1>1, <2>1
<1> QED BY <1>4, <1>5, <1>6, <1>7 DEF ConvergesInv

\* What nobody lists is owed by nobody.
LEMMA NobodyOwes ==
    ASSUME NEW k, LastVersion(k) = Missing, Settled(k), \A r, i : ~ ListsAt(r, i, k)
    PROVE  available[k] = Missing
BY DEF Settled, Owes, ListsAt

\* Whoever clears the table is to put everything after that.
LEMMA ClearSettles ==
    ASSUME RepoTypeOK, ConvergesInv, NEW p \in Updaters, Clear(p)
    PROVE  ConvergesInv'
<1>0. PICK k \in cmd[p].left :
          /\ available' = [available EXCEPT ![k] = Missing]
          /\ cmd' = [q \in Updaters |-> IF q = p THEN [cmd[p] EXCEPT !.left = @ \ {k}]
                                         ELSE [cmd[q] EXCEPT !.fd = @ /\ ~ Fills(q, k)]]
  BY DEF Clear
<1>1. cmd[p].pc = "clear" /\ wanted' = wanted /\ stale' = stale
  BY DEF Clear
<1>2. \A q \in Updaters :
        /\ cmd'[q].pc = cmd[q].pc /\ cmd'[q].repo = cmd[q].repo
        /\ cmd'[q].repos = cmd[q].repos /\ cmd'[q].pkgs = cmd[q].pkgs
        /\ cmd'[q].errors = cmd[q].errors
  <2>1. \A q \in Updaters : cmd[q] \in Command
    BY DEF RepoTypeOK
  <2> QED BY <1>0, <2>1 DEF Command
<1>3. wanted \subseteq RepoNames /\ wanted' \subseteq RepoNames
  BY <1>1 DEF ConvergesInv
<1>4. \A q \in Updaters : cmd'[q].pc \in Early => ~ cmd'[q].errors
  BY <1>2 DEF ConvergesInv
<1>5. available' = [l \in Pkgs |-> available'[l]]
  <2>1. available = [l \in Pkgs |-> available[l]]
    BY DEF ConvergesInv
  <2> QED BY <1>0, <2>1
<1>6. ASSUME ~ stale', ~ Erring' PROVE Settling'
  <2>1. Settling
    BY <1>1, <1>2, <1>6 DEF ConvergesInv, Erring
  <2>2. ASSUME NEW q \in Updaters PROVE Orderly(q)'
    <3>1. Orderly(q)
      BY <2>1 DEF Settling
    <3>2. PutSoFar(q)' = PutSoFar(q)
      BY <1>2 DEF PutSoFar
    <3> QED BY <1>1, <1>2, <3>1, <3>2 DEF Orderly
  <2>3. cmd[p].repos = wanted
    BY <1>1, <2>1 DEF Settling, Orderly
  <2>4. ASSUME NEW l \in Pkgs PROVE Settled(l)'
    <3>1. CASE \E r, i : ListsAt(r, i, l)
      <4>1. PICK r, i : ListsAt(r, i, l)
        BY <3>1
      <4>2. r \in wanted /\ i \in DOMAIN Offers[r] /\ Offers[r][i].pkg = l
        BY <4>1 DEF ListsAt
      <4>3. Remaining(p, r, i)'
        BY <1>1, <1>2, <2>3, <4>2 DEF Remaining
      <4> QED BY <1>1, <4>2, <4>3 DEF Owes, Settled
    <3>2. CASE ~ \E r, i : ListsAt(r, i, l)
      <4>1. LastVersion(l) = Missing /\ LastVersion(l)' = Missing
        BY <1>1, <3>2, NotListed, SameLastVersion
      <4>2. available[l] = Missing
        BY <2>1, <3>2, <4>1, NobodyOwes DEF Settling
      <4>3. available'[l] = Missing
        BY <1>0, <4>2 DEF ConvergesInv
      <4> QED BY <4>1, <4>3 DEF Settled
    <3> QED BY <3>1, <3>2
  <2> QED BY <2>2, <2>4 DEF Settling
<1> QED BY <1>3, <1>4, <1>5, <1>6 DEF ConvergesInv

\* A command that began when no other was running is alone for as long as none has begun
\* since, and what it has unlinked stays away that long.
Alone(p) ==
    /\ cmd[p].sole <= commands
    /\ cmd[p].pc \in {"list", "clear"} /\ cmd[p].sole = commands =>
          /\ Others(p) = {}
          /\ cmd[p].pc = "clear" => \A k \in Pkgs \ cmd[p].left : available[k] = Missing

SoleInv ==
    /\ commands \in Nat
    /\ \A p \in Updaters : cmd[p].pc # "idle" => commands > 0
    /\ \A p \in Updaters : Alone(p)

\* A command counts; the steps of one do not.
LEMMA CountingIs ==
    ASSUME RepoTypeOK, SoleInv, NEW p \in Updaters, RepoStep(p)
    PROVE  /\ \/ cmd[p].pc = "idle" /\ commands' = commands + 1
              \/ cmd[p].pc # "idle" /\ commands' = commands
           /\ \A q \in Updaters \ {p} : cmd'[q].pc = cmd[q].pc /\ cmd'[q].sole = cmd[q].sole
<1>1. CASE (\E r \in RepoNames : Add(p, r) \/ Del(p, r)) \/ Update(p)
  <2>1. cmd[p].pc = "idle" /\ commands' = commands + 1
    BY <1>1 DEF Add, Del, Update, Begins
  <2>2. \A q \in Updaters \ {p} : cmd'[q] = cmd[q]
    BY <1>1 DEF Add, Del, Update, Become, RepoTypeOK
  <2> QED BY <2>1, <2>2
<1>2. CASE Clear(p)
  <2>1. cmd[p].pc = "clear" /\ commands' = commands
    BY <1>2 DEF Clear
  <2>2. \A q \in Updaters : cmd[q] \in Command
    BY DEF RepoTypeOK
  <2>3. \A q \in Updaters \ {p} : cmd'[q].pc = cmd[q].pc /\ cmd'[q].sole = cmd[q].sole
    BY <1>2, <2>2 DEF Clear, Command
  <2> QED BY <2>1, <2>3
<1>3. CASE \/ AddWrite(p) \/ AddFails(p) \/ List(p) \/ ListingDone(p) \/ ClearFails(p) \/ Cleared(p)
           \/ Fetch(p) \/ FetchFails(p) \/ Put(p) \/ Write(p) \/ PutFails(p) \/ UpdateDone(p)
           \/ Stamp(p) \/ StampWrite(p) \/ StampFails(p) \/ StampStops(p) \/ Kill(p)
  <2>1. cmd[p].pc # "idle" /\ commands' = commands
    BY <1>3 DEF AddWrite, AddFails, List, ListingDone, ClearFails, Cleared, Fetch, FetchFails, Put,
                Write, PutFails, UpdateDone, Stamp, StampWrite, StampFails, StampStops, Kill
  <2>2. \E c : Become(p, c)
    BY <1>3 DEF AddWrite, AddFails, List, ListingDone, ClearFails, Cleared, Fetch, FetchFails, Put,
                Write, PutFails, UpdateDone, Stamp, StampWrite, StampFails, StampStops, Kill,
                Begun
  <2>3. \A q \in Updaters \ {p} : cmd'[q] = cmd[q]
    BY <2>2 DEF Become, RepoTypeOK
  <2> QED BY <2>1, <2>3
<1> QED BY <1>1, <1>2, <1>3 DEF RepoStep

LEMMA StepStaysAlone ==
    ASSUME RepoTypeOK, SoleInv, ConvergesInv, NEW p \in Updaters, RepoStep(p)
    PROVE  Alone(p)'
<1>0. /\ cmd[p] \in Command /\ commands \in Nat /\ Alone(p)
      /\ cmd[p].sole \in Nat
  BY DEF RepoTypeOK, SoleInv, Command
<1>1. /\ \/ cmd[p].pc = "idle" /\ commands' = commands + 1
         \/ cmd[p].pc # "idle" /\ commands' = commands
      /\ \A q \in Updaters \ {p} : cmd'[q].pc = cmd[q].pc
  BY CountingIs
<1>2. Others(p)' = Others(p)
  BY <1>1 DEF Others
<1>3. CASE Update(p)
  <2> DEFINE sole == IF Others(p) = {} THEN commands + 1 ELSE 0
  <2>5. sole \in Nat
    <3>1. commands + 1 \in Nat /\ 0 \in Nat
      BY <1>0
    <3> QED BY <3>1
  <2>0. PICK n \in Nat : n = sole
    BY <2>5
  <2>1. Become(p, [NoCommand EXCEPT !.pc = "list", !.left = RepoNames, !.sole = n])
    BY <1>3, <2>0 DEF Update
  <2>2. cmd'[p].pc = "list" /\ cmd'[p].sole = n
    BY <2>1 DEF Become, RepoTypeOK, NoCommand
  <2>3. commands' = commands + 1
    BY <1>3 DEF Update, Begins
  <2>4. n <= commands + 1 /\ (n = commands + 1 => Others(p) = {})
    BY <1>0, <2>0
  <2> QED BY <1>2, <2>2, <2>3, <2>4 DEF Alone
<1>4. CASE List(p)
  <2>1. /\ cmd'[p].pc = "list" /\ cmd'[p].sole = cmd[p].sole /\ cmd[p].pc = "list"
        /\ commands' = commands
    BY <1>0, <1>4 DEF List, Become, RepoTypeOK, Command
  <2> QED BY <1>0, <1>2, <2>1 DEF Alone
<1>5. CASE ListingDone(p)
  <2>1. cmd[p].pc = "list" /\ commands' = commands
    BY <1>5 DEF ListingDone
  <2>2. CASE cmd[p].repos = {}
    <3>1. cmd'[p] = NoCommand
      BY <1>5, <2>2 DEF ListingDone, Become, RepoTypeOK
    <3> QED BY <1>0, <2>1, <3>1 DEF Alone, NoCommand
  <2>3. CASE cmd[p].repos # {}
    <3>1. cmd'[p] = [cmd[p] EXCEPT !.pc = "clear", !.left = Pkgs]
      BY <1>5, <2>3 DEF ListingDone, Become, RepoTypeOK
    <3>2. cmd'[p].pc = "clear" /\ cmd'[p].sole = cmd[p].sole /\ cmd'[p].left = Pkgs
      BY <1>0, <3>1 DEF Command
    <3> QED BY <1>0, <1>2, <2>1, <3>2 DEF Alone
  <2> QED BY <2>2, <2>3
<1>6. CASE Clear(p)
  <2>0. PICK k \in cmd[p].left :
            /\ available' = [available EXCEPT ![k] = Missing]
            /\ cmd' = [q \in Updaters |-> IF q = p THEN [cmd[p] EXCEPT !.left = @ \ {k}]
                                           ELSE [cmd[q] EXCEPT !.fd = @ /\ ~ Fills(q, k)]]
    BY <1>6 DEF Clear
  <2>1. cmd[p].pc = "clear" /\ commands' = commands
    BY <1>6 DEF Clear
  <2>2. /\ cmd'[p].pc = "clear" /\ cmd'[p].sole = cmd[p].sole
        /\ cmd'[p].left = cmd[p].left \ {k}
    BY <1>0, <2>0, <2>1 DEF Command
  <2>3. ASSUME NEW l \in Pkgs \ (cmd[p].left \ {k}), l \in cmd[p].left \/ available[l] = Missing
        PROVE  available'[l] = Missing
    BY <2>0, <2>3 DEF ConvergesInv
  <2> QED BY <1>0, <1>2, <2>1, <2>2, <2>3 DEF Alone
<1>7. CASE ClearFails(p)
  <2>1. cmd'[p].sole = 0 /\ commands' = commands /\ commands > 0
    <3>1. PICK k \in cmd[p].left : Become(p, [cmd[p] EXCEPT !.left = @ \ {k}, !.sole = 0])
      BY <1>7 DEF ClearFails
    <3>2. cmd'[p] = [cmd[p] EXCEPT !.left = @ \ {k}, !.sole = 0]
      BY <3>1 DEF Become, RepoTypeOK
    <3>3. cmd'[p].sole = 0
      BY <1>0, <3>2 DEF Command
    <3>4. cmd[p].pc = "clear" /\ commands' = commands
      BY <1>7 DEF ClearFails
    <3>5. commands > 0
      BY <3>4 DEF SoleInv
    <3> QED BY <3>3, <3>4, <3>5
  <2>2. cmd'[p].sole <= commands' /\ cmd'[p].sole # commands'
    BY <1>0, <2>1
  <2> QED BY <2>2 DEF Alone
<1>8. CASE \E r \in RepoNames : Add(p, r) \/ Del(p, r)
  <2>1. commands' = commands + 1 /\ cmd[p].pc = "idle"
    BY <1>8 DEF Add, Del, Begins
  <2>2. cmd'[p] = cmd[p] \/ \E r : cmd'[p] = [NoCommand EXCEPT !.pc = "add", !.repo = r]
    BY <1>8 DEF Add, Del, Become, RepoTypeOK
  <2>3. cmd'[p].pc \in {"add", "idle"} /\ cmd'[p].sole \in {0, cmd[p].sole}
    BY <2>1, <2>2 DEF NoCommand
  <2>4. cmd'[p].sole <= commands'
    <3>1. 0 <= commands + 1 /\ cmd[p].sole <= commands + 1
      BY <1>0 DEF Alone
    <3> QED BY <2>1, <2>3, <3>1
  <2>5. cmd'[p].sole # commands' \/ cmd'[p].pc \notin {"list", "clear"}
    BY <2>3
  <2> QED BY <2>4, <2>5 DEF Alone
<1>9. CASE \/ AddWrite(p) \/ AddFails(p) \/ Cleared(p) \/ Fetch(p) \/ FetchFails(p)
           \/ Put(p) \/ Write(p) \/ PutFails(p) \/ UpdateDone(p)
           \/ Stamp(p) \/ StampWrite(p) \/ StampFails(p) \/ StampStops(p) \/ Kill(p)
  <2>1. commands' = commands
    BY <1>9, <1>1 DEF AddWrite, AddFails, Cleared, Fetch, FetchFails, Put,
                Write, PutFails, UpdateDone, Stamp, StampWrite, StampFails, StampStops, Kill
  <2>2. cmd'[p].pc \notin {"list", "clear"} /\ cmd'[p].sole \in {0, cmd[p].sole}
    <3>1. CASE AddWrite(p) \/ AddFails(p) \/ UpdateDone(p) \/ Kill(p)
      BY <3>1 DEF AddWrite, AddFails, UpdateDone, Kill, Become, RepoTypeOK, NoCommand
    <3>2. CASE Cleared(p) \/ Fetch(p) \/ FetchFails(p)
      <4>1. CASE Cleared(p)
        BY <1>0, <4>1 DEF Cleared, Become, RepoTypeOK, Command
      <4>2. CASE Fetch(p)
        <5>1. PICK r : Begun(p, r)
          BY <4>2 DEF Fetch
        <5> QED BY <1>0, <5>1 DEF Begun, Become, RepoTypeOK, Command
      <4>3. CASE FetchFails(p)
        <5>1. PICK r : Become(p, [cmd[p] EXCEPT !.repos = @ \ {r}, !.errors = TRUE])
          BY <4>3 DEF FetchFails
        <5>2. cmd'[p] = [cmd[p] EXCEPT !.repos = @ \ {r}, !.errors = TRUE]
          BY <5>1 DEF Become, RepoTypeOK
        <5>3. cmd'[p].pc = cmd[p].pc /\ cmd'[p].sole = cmd[p].sole
          BY <1>0, <5>2 DEF Command
        <5> QED BY <4>3, <5>3 DEF FetchFails
      <4> QED BY <3>2, <4>1, <4>2, <4>3
    <3>3. CASE Put(p) \/ Write(p) \/ PutFails(p)
      <4>1. CASE Put(p)
        <5>1. cmd'[p] = [cmd[p] EXCEPT !.pc = "write", !.fd = TRUE]
          BY <4>1 DEF Put, Become, RepoTypeOK
        <5> QED BY <1>0, <5>1 DEF Command
      <4>2. CASE Write(p) \/ PutFails(p)
        <5>1. cmd'[p] = [cmd[p] EXCEPT !.pc = "put", !.pkgs = Tail(@), !.fd = FALSE]
          BY <4>2 DEF Write, PutFails, Become, RepoTypeOK
        <5> QED BY <1>0, <5>1 DEF Command
      <4> QED BY <3>3, <4>1, <4>2
    <3>4. CASE Stamp(p) \/ StampWrite(p) \/ StampFails(p) \/ StampStops(p)
      BY <1>0, <3>4 DEF Stamp, StampWrite, StampFails, StampStops, Become, RepoTypeOK, Command
    <3> QED BY <1>9, <3>1, <3>2, <3>3, <3>4
  <2> QED BY <1>0, <2>1, <2>2 DEF Alone
<1> QED BY <1>3, <1>4, <1>5, <1>6, <1>7, <1>8, <1>9 DEF RepoStep

LEMMA SoleSteps ==
    ASSUME RepoTypeOK, SoleInv, ConvergesInv, NEW p \in Updaters, RepoStep(p)
    PROVE  SoleInv'
<1>1. /\ \/ cmd[p].pc = "idle" /\ commands' = commands + 1
         \/ cmd[p].pc # "idle" /\ commands' = commands
      /\ \A q \in Updaters \ {p} : cmd'[q].pc = cmd[q].pc /\ cmd'[q].sole = cmd[q].sole
  BY CountingIs
<1>2. commands \in Nat /\ commands' \in Nat /\ commands' > 0
  BY <1>1 DEF SoleInv
<1>3. ASSUME NEW q \in Updaters \ {p} PROVE Alone(q)'
  <2>1. Alone(q) /\ cmd[q].sole \in Nat
    BY DEF SoleInv, RepoTypeOK, Command
  <2>2. CASE cmd[p].pc = "idle" /\ commands' = commands + 1
    BY <1>1, <1>2, <2>1, <2>2 DEF Alone
  <2>3. CASE cmd[p].pc # "idle" /\ commands' = commands
    <3>1. p \in Others(q)
      BY <2>3 DEF Others
    <3> QED BY <1>1, <2>1, <2>3, <3>1 DEF Alone
  <2> QED BY <1>1, <2>2, <2>3
<1> QED BY <1>2, <1>3, StepStaysAlone DEF SoleInv

LEMMA ClearedSettles ==
    ASSUME RepoTypeOK, SoleInv, ConvergesInv, NEW p \in Updaters, Cleared(p)
    PROVE  ConvergesInv'
<1> DEFINE c == [cmd[p] EXCEPT !.pc = "fetch"]
<1>1. /\ cmd[p].pc = "clear" /\ cmd[p].left = {} /\ Become(p, c)
      /\ available' = available /\ wanted' = wanted
      /\ stale' = (stale /\ ~ (cmd[p].sole = commands /\ cmd[p].repos = wanted))
  BY DEF Cleared
<1>2. /\ c.pc = "fetch" /\ c.repo = cmd[p].repo /\ c.repos = cmd[p].repos
      /\ c.errors = cmd[p].errors
  <2>1. cmd[p] \in Command
    BY DEF RepoTypeOK
  <2> QED BY <2>1 DEF Command
<1> HIDE DEF c
<1>3. cmd'[p] = c /\ \A q \in Updaters \ {p} : cmd'[q] = cmd[q]
  BY <1>1 DEF Become, RepoTypeOK
<1>4. CASE stale => stale'
  <2>1. Orderly(p) => Orderly(p)'
    BY <1>1, <1>2, <1>3 DEF Orderly, Putting
  <2>2. \A r, i : Remaining(p, r, i) => Remaining(p, r, i)'
    BY <1>1, <1>2, <1>3 DEF Remaining, Putting
  <2>3. c.pc \notin Early
    BY <1>2 DEF Early
  <2> QED BY <1>1, <1>2, <1>4, <2>1, <2>2, <2>3, QuietStepSettles DEF Settling
<1>5. CASE cmd[p].sole = commands /\ cmd[p].repos = wanted
  <2>1. Others(p) = {} /\ \A k \in Pkgs : available[k] = Missing
    BY <1>1, <1>5 DEF SoleInv, Alone
  <2>2. \A q \in Updaters \ {p} : cmd'[q].pc = "idle" /\ cmd'[q].repos = {}
    BY <1>3, <2>1 DEF Others, RepoTypeOK
  <2>3. \A q \in Updaters \ {p} : Orderly(q)'
    BY <2>2 DEF Orderly, Putting
  <2>4. Orderly(p)'
    BY <1>1, <1>2, <1>3, <1>5 DEF Orderly, Putting
  <2>5. ASSUME NEW k \in Pkgs PROVE Settled(k)'
    <3>1. CASE \E r, i : ListsAt(r, i, k)
      <4>1. PICK r, i : ListsAt(r, i, k)
        BY <3>1
      <4>2. r \in wanted /\ i \in DOMAIN Offers[r] /\ Offers[r][i].pkg = k
        BY <4>1 DEF ListsAt
      <4>3. Remaining(p, r, i)'
        BY <1>2, <1>3, <1>5, <4>2 DEF Remaining
      <4> QED BY <1>1, <4>2, <4>3 DEF Owes, Settled
    <3>2. CASE ~ \E r, i : ListsAt(r, i, k)
      <4>1. LastVersion(k)' = Missing
        BY <1>1, <3>2, NotListed, SameLastVersion
      <4> QED BY <1>1, <2>1, <4>1 DEF Settled
    <3> QED BY <3>1, <3>2
  <2>6. \A q \in Updaters : cmd'[q].pc \in Early => ~ cmd'[q].errors
    BY <1>2, <1>3 DEF ConvergesInv, Early
  <2> QED BY <1>1, <2>3, <2>4, <2>5, <2>6 DEF ConvergesInv, Settling
<1> QED BY <1>1, <1>4, <1>5

LEMMA StepSettles ==
    ASSUME RepoTypeOK, SoleInv, ConvergesInv, NEW p \in Updaters, RepoStep(p)
    PROVE  ConvergesInv'
<1>1. CASE \E r \in RepoNames : Add(p, r) \/ Del(p, r)
  BY <1>1, ConfiguringSettles
<1>2. CASE AddWrite(p) \/ Fetch(p) \/ UpdateDone(p)
  BY <1>2, AddWriteSettles, FetchSettles, UpdateDoneSettles
<1>3. CASE Update(p) \/ List(p) \/ ListingDone(p)
  BY <1>3, ListingSettles, ListedSettles
<1>4. CASE Clear(p) \/ Cleared(p) \/ Put(p) \/ Write(p)
  BY <1>4, ClearSettles, ClearedSettles, PutSettles, WriteSettles
<1>5. CASE AddFails(p) \/ ClearFails(p) \/ FetchFails(p) \/ PutFails(p) \/ Kill(p)
  BY <1>5, FailingSettles
<1>6. CASE Stamp(p) \/ StampWrite(p) \/ StampFails(p) \/ StampStops(p)
  BY <1>6, StampingSettles
<1> QED BY <1>1, <1>2, <1>3, <1>4, <1>5, <1>6 DEF RepoStep

LEMMA ConvergesInit == RepoInit => ConvergesInv
<1> SUFFICES ASSUME RepoInit PROVE ConvergesInv
  OBVIOUS
<1>1. wanted = {} /\ available = [k \in Pkgs |-> Missing]
      /\ \A p \in Updaters : cmd[p].pc = "idle" /\ cmd[p].repos = {} /\ ~ cmd[p].errors
  BY DEF RepoInit, NoCommand
<1>2. ASSUME NEW k \in Pkgs PROVE Settled(k)
  <2>1. \A r, i : ~ ListsAt(r, i, k)
    BY <1>1 DEF ListsAt
  <2> QED BY <1>1, <2>1, NotListed DEF Settled
<1>3. \A p \in Updaters : Orderly(p)
  BY <1>1 DEF Orderly, Putting
<1> QED BY <1>1, <1>2, <1>3 DEF ConvergesInv, Settling

LEMMA ConvergesWhenQuiet ==
    ASSUME RepoTypeOK, ConvergesInv
    PROVE  UpdatesConverge
<1> SUFFICES ASSUME Quiet, ~ stale, NEW k \in Pkgs PROVE available[k] = LastVersion(k)
  BY DEF UpdatesConverge
<1>1. \A p \in Updaters : cmd[p].pc = "idle" /\ cmd[p].repos = {} /\ ~ cmd[p].errors
  BY DEF Quiet, RepoTypeOK, ConvergesInv, Early
<1>2. Settled(k)
  BY <1>1 DEF ConvergesInv, Erring, Settling
<1>3. \A p \in Updaters : ~ Owes(p, k)
  BY <1>1 DEF Owes, Remaining, Putting
<1> QED BY <1>2, <1>3 DEF Settled

LEMMA SettledStutter ==
    ASSUME ConvergesInv, UNCHANGED rvars
    PROVE  ConvergesInv'
<1>1. available' = available /\ cmd' = cmd /\ wanted' = wanted /\ stale' = stale
  BY DEF rvars
<1>2. \A q \in Updaters : Orderly(q)' <=> Orderly(q)
  BY <1>1 DEF Orderly, PutSoFar
<1>3. \A q \in Updaters : \A k : Owes(q, k) => Owes(q, k)'
  BY <1>1 DEF Owes, Remaining, PutSoFar
<1>4. \A k : LastVersion(k)' = LastVersion(k)
  BY <1>1, SameLastVersion
<1>5. Settling => Settling'
  BY <1>1, <1>2, <1>3, <1>4 DEF Settling, Settled
<1>6. Erring' <=> Erring
  BY <1>1 DEF Erring
<1> QED BY <1>1, <1>5, <1>6 DEF ConvergesInv

-----------------------------------------------------------------------------
\* Updates side by side, and `repo add' and `repo del': once all have ended, the table of
\* available packages is what the last wanted repository lists of each, unless a kill, a
\* failed call or another command came in since it was last cleared alone and in full; and an
\* update, which rewrites the record of every repository it fetched, neither loses nor
\* brings back one - those given up whose record a kill or a write of an update cut short
\* (nobody looks at what put_repo returns, repo.rs:193), or that another command met
\* (update_repos, repo.rs:166): for any repositories and indexes and however many processes,
\* each record listed, unlinked and written in steps of its own, and any call failing.
THEOREM RepositoriesStayAsCommanded == RepoSpec => []RepositoriesAreAsCommanded
<1> DEFINE I == RepoInv /\ SoleInv /\ ConvergesInv
<1>1. RepoInit => I
  <2> SUFFICES ASSUME RepoInit PROVE I
    OBVIOUS
  <2>1. \A p \in Updaters : /\ cmd[p] \in Command /\ cmd[p].pc = "idle"
                            /\ cmd[p].repos = {} /\ cmd[p].sole = 0
    BY NoCommandType DEF RepoInit, NoCommand
  <2>2. RepoTypeOK
    BY <2>1 DEF RepoInit, RepoTypeOK, AtOneRepo
  <2>3. \A r \in RepoNames : Undisputed(r)
    BY <2>1, RepoAssumption
    DEF RepoInit, Undisputed, AtHand, OnlyWanted, HasRecord, AddedAlone, AtOneRepo
  <2>4. SoleInv
    BY <2>1 DEF RepoInit, SoleInv, Alone
  <2> QED BY <2>2, <2>3, <2>4, ConvergesInit DEF RepoInv
<1>2. I /\ [RepoNext]_rvars => I'
  <2>1. ASSUME I, NEW p \in Updaters, RepoStep(p) PROVE RepoInv'
    <3>0. RepoInv /\ commands \in Nat
      BY <2>1 DEF SoleInv
    <3>1. CASE \E r \in RepoNames : Add(p, r) \/ Del(p, r)
      BY <3>0, <3>1, AddKeeps, DelKeeps
    <3>2. CASE AddWrite(p) \/ StampWrite(p) \/ AddFails(p)
      BY <3>0, <3>2, WritesKeep, AddFailsKeeps
    <3>3. CASE Update(p) \/ List(p) \/ ListingDone(p)
      BY <3>0, <3>3, ListingKeeps
    <3>4. CASE Clear(p) \/ ClearFails(p) \/ Cleared(p) \/ UpdateDone(p)
      BY <3>0, <3>4, ClearKeeps, ClearedKeeps, UpdateDoneKeeps
    <3>5. CASE Fetch(p) \/ FetchFails(p)
      BY <3>0, <3>5, FetchKeeps, FetchFailsKeeps
    <3>6. CASE Put(p) \/ Write(p) \/ PutFails(p)
      BY <3>0, <3>6, PutKeeps
    <3>7. CASE Stamp(p) \/ StampFails(p) \/ StampStops(p) \/ Kill(p)
      BY <3>0, <3>7, StampKeeps, StampFailsKeeps, GivenUpKeeps
    <3> QED BY <2>1, <3>1, <3>2, <3>3, <3>4, <3>5, <3>6, <3>7 DEF RepoStep
  <2>2. ASSUME I, NEW p \in Updaters, RepoStep(p) PROVE SoleInv' /\ ConvergesInv'
    BY <2>2, SoleSteps, StepSettles DEF RepoInv
  <2>3. ASSUME I, UNCHANGED rvars PROVE I'
    <3>1. RepoInv'
      BY <2>3 DEF rvars, RepoInv, RepoTypeOK, Undisputed, AtHand, OnlyWanted, HasRecord,
                  AddedAlone
    <3>2. SoleInv'
      BY <2>3 DEF rvars, SoleInv, Alone, Others
    <3> QED BY <2>3, <3>1, <3>2, SettledStutter
  <2> QED BY <2>1, <2>2, <2>3 DEF RepoNext
<1>3. RepoInv => ConfigurationIsAsCommanded
  BY DEF RepoInv, Undisputed, HasRecord, ConfigurationIsAsCommanded, Quiet, Writing, IsRepo
<1>4. I => RepositoriesAreAsCommanded
  BY <1>3, ConvergesWhenQuiet DEF RepoInv, RepositoriesAreAsCommanded
<1> QED BY <1>1, <1>2, <1>4, PTL DEF RepoSpec

-----------------------------------------------------------------------------
(* The transaction log                                                     *)

Contained == FileContents \cup {NoSuchFile, CutShort}
Transaction ==
    [state : {"none", "in progress", "completed", "rollback", "rolled back"},
     ops : Seq(Operations), time : 0..MaxTime, at : Nat \ {0}, left : Seq(Files),
     fresh : BOOLEAN]
Removed(i) == ToSet(tx.ops[i].removes)
Named(i) == ToSet(tx.ops[i].creates) \cup Removed(i)

TransactionTypeOK ==
    /\ files \in [Files -> Contained] /\ atStart \in [Files -> Contained]
    /\ backup \in [0..MaxTime -> [Files -> Contained]]
    /\ completed \in Seq(Nat)
    /\ tx \in Transaction

\* completed counts down from the last operation that is not undone yet.
CountsDown ==
    /\ Len(completed) < tx.at /\ tx.at <= Len(tx.ops) + 1
    /\ tx.state = "in progress" => Len(completed) = tx.at - 1
    /\ \A i \in 1..Len(completed) : completed[i] = Len(completed) + 1 - i

\* Copies are of this transaction only, and there is one of every file that the
\* operations so far were to remove; all this but for the copies that stopped half-way.
BackedUp ==
    /\ \A f \in Files \ short : backup[tx.time][f] \in {NoSuchFile, atStart[f]}
    /\ \A i \in 1..(tx.at - 1) : \A f \in Removed(i) \ short : backup[tx.time][f] = atStart[f]

\* In execute(), no file is touched.
Executing ==
    /\ files = atStart
    /\ tx.at <= Len(tx.ops) =>
        \A f \in (Removed(tx.at) \ ToSet(tx.left)) \ short : backup[tx.time][f] = atStart[f]

\* In rollback: a file whose first operation is undone, or was never done, is back.
Spoilt == short \cup lost
Undone ==
    /\ \A f \in Files \ Spoilt : files[f] \in {NoSuchFile, atStart[f]}
    /\ \A f \in Files \ Spoilt : Naming(f) = {} => files[f] = atStart[f]
    /\ \A f \in Files \ Spoilt : \A i \in Naming(f) :
        /\ \A j \in Naming(f) : i <= j
        /\ f \in Removed(i)
        /\ i > Len(completed)
        => files[f] = atStart[f]

TransactionInv ==
    /\ TransactionTypeOK
    /\ tx.state \in {"in progress", "rollback"} => CountsDown
    /\ tx.fresh =>
        /\ tx.state \in {"in progress", "rollback"} => BackedUp
        /\ tx.state = "in progress" => Executing
        /\ tx.state = "rollback" => Undone

LEMMA OperationsType ==
    ASSUME TransactionTypeOK, NEW i \in 1..Len(tx.ops)
    PROVE  /\ tx.ops[i].creates \in Seq(Files) /\ tx.ops[i].removes \in Seq(Files)
           /\ Removed(i) \subseteq Files /\ ToSet(tx.ops[i].creates) \subseteq Files
<1>1. tx.ops \in Seq(Operations)
  BY DEF TransactionTypeOK, Transaction
<1>2. tx.ops[i] \in Operations
  BY <1>1, ElementOfSeq
<1>3. tx.ops[i].creates \in Seq(Files) /\ tx.ops[i].removes \in Seq(Files)
  BY <1>2, TransactionAssumption
<1>4. ASSUME NEW s \in Seq(Files) PROVE ToSet(s) \subseteq Files
  BY ElementOfSeq, LenProperties DEF ToSet
<1> QED BY <1>3, <1>4 DEF Removed

\* What an action leaves of the transaction when it only moves on in it.
LEMMA SameOperations ==
    ASSUME tx'.ops = tx.ops
    PROVE  /\ \A f : Naming(f)' = Naming(f)
           /\ \A i : Removed(i)' = Removed(i)
BY DEF Naming, Removed

LEMMA WritingKeeps ==
    ASSUME TransactionInv, NEW f \in Files, NEW c \in FileContents \cup {NoSuchFile}, CallerWrites(f, c)
    PROVE  TransactionInv'
<1>1. tx'.state \notin {"in progress", "rollback"} /\ tx' = tx
  BY DEF CallerWrites, Idle
<1>2. TransactionTypeOK'
  BY DEF CallerWrites, TransactionInv, TransactionTypeOK, Contained
<1> QED BY <1>1, <1>2 DEF TransactionInv

LEMMA ExecuteKeeps ==
    ASSUME TransactionInv, NEW n \in 1..MaxOps, NEW ops \in [1..n -> Operations],
           NEW time \in 0..MaxTime, Execute(ops, time)
    PROVE  TransactionInv'
<1>1. ops \in Seq(Operations) /\ Len(ops) = n /\ n \in Nat \ {0}
  BY TransactionAssumption, SeqDef
<1>2. ops[1] \in Operations /\ ops[1].removes \in Seq(Files)
  BY <1>1, TransactionAssumption
<1>a. tx'.state = "in progress" /\ (tx'.fresh => backup[time] = NoFiles)
  BY DEF Execute
<1>b. tx'.ops = ops /\ tx'.at = 1 /\ completed' = <<>>
  BY DEF Execute
<1>3. /\ tx'.time = time /\ tx'.left = ops[1].removes
      /\ files' = files /\ atStart' = files /\ backup' = backup
  BY DEF Execute
<1>4. tx' \in Transaction
  <2> DEFINE fresh == backup[time] = NoFiles
  <2>1. fresh \in BOOLEAN
    OBVIOUS
  <2>2. tx' = [state |-> "in progress", ops |-> ops, time |-> time, at |-> 1,
               left |-> ops[1].removes, fresh |-> fresh]
    BY DEF Execute
  <2>3. 1 \in Nat \ {0}
    OBVIOUS
  <2> HIDE DEF fresh
  <2> QED BY <1>1, <1>2, <2>1, <2>2, <2>3 DEF Transaction
<1>5. TransactionTypeOK'
  BY <1>b, <1>3, <1>4, EmptySeq DEF TransactionInv, TransactionTypeOK
<1>6. CountsDown'
  <2>1. Len(completed') = 0
    BY <1>b, EmptySeq
  <2>2. Len(completed') < tx'.at /\ tx'.at <= Len(tx'.ops) + 1 /\ Len(completed') = tx'.at - 1
    BY <1>1, <1>b, <2>1
  <2>3. 1..Len(completed') = {}
    BY <2>1
  <2> QED BY <2>2, <2>3 DEF CountsDown
<1>7. ASSUME tx'.fresh PROVE BackedUp'
  <2>1. backup'[tx'.time] = NoFiles
    BY <1>a, <1>3, <1>7
  <2>2. \A f \in Files : backup'[tx'.time][f] = NoSuchFile
    BY <2>1 DEF NoFiles
  <2>3. 1..(tx'.at - 1) = {}
    BY <1>b
  <2> QED BY <2>2, <2>3 DEF BackedUp
<1>8. Executing'
  BY <1>b, <1>3 DEF Executing, Removed
<1> QED BY <1>a, <1>5, <1>6, <1>7, <1>8 DEF TransactionInv

LEMMA SetOfTail ==
    ASSUME NEW s \in Seq(Files), s # <<>>
    PROVE  /\ Head(s) \in Files /\ Tail(s) \in Seq(Files)
           /\ ToSet(s) = {Head(s)} \cup ToSet(Tail(s))
<1>1. /\ Head(s) \in Files /\ Tail(s) \in Seq(Files) /\ Len(Tail(s)) = Len(s) - 1
      /\ \A i \in 1..Len(Tail(s)) : Tail(s)[i] = s[i + 1]
  BY HeadTailProperties
<1>2. Len(s) \in Nat \ {0} /\ DOMAIN s = 1..Len(s) /\ DOMAIN Tail(s) = 1..(Len(s) - 1)
  BY <1>1, EmptySeq, LenProperties
<1>3. Head(s) = s[1]
  OBVIOUS
<1>4. ASSUME NEW f \in ToSet(s), f # Head(s) PROVE f \in ToSet(Tail(s))
  <2>1. PICK i \in 1..Len(s) : f = s[i]
    BY <1>2, <1>4 DEF ToSet
  <2>2. i - 1 \in 1..(Len(s) - 1) /\ Tail(s)[i - 1] = f
    BY <1>1, <1>2, <1>3, <1>4, <2>1
  <2> QED BY <1>2, <2>2 DEF ToSet
<1>5. ToSet(Tail(s)) \subseteq ToSet(s) /\ Head(s) \in ToSet(s)
  BY <1>1, <1>2, <1>3 DEF ToSet
<1> QED BY <1>1, <1>4, <1>5

\* A copy is made, wholly or not, and only a whole one has to be right.
LEMMA BackingUpKeeps ==
    ASSUME TransactionInv, BackupFile \/ BackupStops
    PROVE  TransactionInv'
<1> DEFINE f == Head(tx.left)
<1>a. tx.state = "in progress"
  BY DEF BackupFile, BackupStops, Running
<1>1. tx \in Transaction /\ tx.left # <<>> /\ tx.at <= Len(tx.ops)
  BY DEF BackupFile, BackupStops, Running, TransactionInv, TransactionTypeOK
<1>2. tx.left \in Seq(Files) /\ tx.time \in 0..MaxTime /\ tx.at \in Nat \ {0}
  BY <1>1 DEF Transaction
<1>3. f \in Files /\ Tail(tx.left) \in Seq(Files) /\ ToSet(tx.left) = {f} \cup ToSet(Tail(tx.left))
  BY <1>1, <1>2, SetOfTail
<1>4. tx' = [tx EXCEPT !.left = Tail(tx.left)] /\ tx' \in Transaction
  BY <1>1, <1>3 DEF BackupFile, BackupStops, Transaction
<1>5. /\ tx'.state = tx.state /\ tx'.ops = tx.ops /\ tx'.time = tx.time /\ tx'.at = tx.at
      /\ tx'.fresh = tx.fresh /\ tx'.left = Tail(tx.left)
  BY <1>1, <1>4 DEF Transaction
<1>6. UNCHANGED <<files, atStart, completed>>
  BY DEF BackupFile, BackupStops
<1>7. /\ backup' \in [0..MaxTime -> [Files -> Contained]]
      /\ \A g \in Files \ {f} : backup'[tx.time][g] = backup[tx.time][g] /\ (g \in short' <=> g \in short)
      /\ f \notin short' => \/ backup'[tx.time][f] = files[f]
                           \/ /\ f \notin short /\ files[f] = NoSuchFile
                              /\ backup'[tx.time][f] = backup[tx.time][f]
  <2>1. backup \in [0..MaxTime -> [Files -> Contained]] /\ files[f] \in Contained
    BY <1>3 DEF TransactionInv, TransactionTypeOK
  <2>2. CASE BackupFile
    <3>1. \/ files[f] = NoSuchFile /\ backup' = backup /\ short' = short
          \/ backup' = [backup EXCEPT ![tx.time][f] = files[f]] /\ short' = short \ {f}
      BY <2>2 DEF BackupFile
    <3> HIDE DEF f
    <3>2. CASE files[f] = NoSuchFile /\ backup' = backup /\ short' = short
      BY <2>1, <3>2
    <3>3. CASE backup' = [backup EXCEPT ![tx.time][f] = files[f]] /\ short' = short \ {f}
      BY <1>2, <1>3, <2>1, <3>3
    <3> QED BY <3>1, <3>2, <3>3
  <2>3. CASE BackupStops
    <3>1. backup' = [backup EXCEPT ![tx.time][f] = CutShort] /\ short' = short \cup {f}
      BY <2>3 DEF BackupStops
    <3>2. CutShort \in Contained
      BY DEF Contained
    <3> HIDE DEF f
    <3> QED BY <1>2, <1>3, <2>1, <3>1, <3>2
  <2> QED BY <2>2, <2>3
<1> HIDE DEF f
<1>8. TransactionTypeOK'
  BY <1>4, <1>6, <1>7 DEF TransactionInv, TransactionTypeOK
<1>9. CountsDown'
  BY <1>a, <1>1, <1>5, <1>6 DEF TransactionInv, CountsDown
<1>10. ASSUME tx.fresh PROVE BackedUp' /\ Executing'
  <2>1. BackedUp /\ Executing
    BY <1>a, <1>10 DEF TransactionInv
  <2>2. f \notin short' => backup'[tx.time][f] = atStart[f]
    BY <1>3, <1>7, <2>1 DEF BackedUp, Executing
  <2>3. \A g \in Files \ short' : \/ g \notin short /\ backup'[tx.time][g] = backup[tx.time][g]
                                  \/ backup'[tx.time][g] = atStart[g]
    BY <1>7, <2>2
  <2>4. \A i : Removed(i)' = Removed(i)
    BY <1>5, SameOperations
  <2>5. ASSUME NEW i \in 1..tx.at PROVE Removed(i) \subseteq Files
    <3>1. Len(tx.ops) \in Nat
      BY <1>1, LenProperties DEF Transaction
    <3>2. i \in 1..Len(tx.ops)
      BY <1>1, <1>2, <3>1
    <3> QED BY <3>2, OperationsType DEF TransactionInv
  <2>6. BackedUp'
    BY <1>2, <1>5, <1>6, <2>1, <2>3, <2>4, <2>5 DEF BackedUp
  <2>7. ASSUME NEW g \in (Removed(tx.at) \ ToSet(tx'.left)) \ short'
        PROVE  backup'[tx.time][g] = atStart[g]
    <3>1. g \in Files
      BY <1>2, <2>5, <2>7
    <3>2. CASE g = f
      BY <2>2, <2>7, <3>2
    <3>3. CASE g # f
      BY <1>1, <1>3, <1>5, <1>7, <2>1, <2>7, <3>1, <3>3 DEF Executing
    <3> QED BY <3>2, <3>3
  <2> QED BY <1>5, <1>6, <2>1, <2>4, <2>6, <2>7 DEF Executing
<1> QED BY <1>a, <1>5, <1>8, <1>9, <1>10 DEF TransactionInv

LEMMA BackupFailsKeeps ==
    ASSUME TransactionInv, BackupFails
    PROVE  TransactionInv'
<1>1. tx \in Transaction /\ tx.state = "in progress"
  BY DEF BackupFails, Running, TransactionInv, TransactionTypeOK
<1>2. /\ tx' = [tx EXCEPT !.state = "rollback"] /\ tx' \in Transaction
      /\ UNCHANGED <<files, atStart, completed, backup, short>>
  BY <1>1 DEF BackupFails, Transaction
<1>3. /\ tx'.state = "rollback" /\ tx'.ops = tx.ops /\ tx'.time = tx.time /\ tx'.at = tx.at
      /\ tx'.fresh = tx.fresh
  BY <1>1, <1>2 DEF Transaction
<1>4. TransactionTypeOK'
  BY <1>2 DEF TransactionInv, TransactionTypeOK
<1>5. CountsDown'
  BY <1>1, <1>2, <1>3 DEF TransactionInv, CountsDown
<1>6. ASSUME tx.fresh PROVE BackedUp' /\ Undone'
  <2>1. BackedUp /\ Executing
    BY <1>1, <1>6 DEF TransactionInv
  <2>2. \A i : Removed(i)' = Removed(i)
    BY <1>3, SameOperations
  <2>3. BackedUp'
    BY <1>2, <1>3, <2>1, <2>2 DEF BackedUp
  <2>4. Undone'
    BY <1>2, <2>1 DEF Executing, Undone
  <2> QED BY <2>3, <2>4
<1> QED BY <1>3, <1>4, <1>5, <1>6 DEF TransactionInv

LEMMA OperationDoneKeeps ==
    ASSUME TransactionInv, OperationDone
    PROVE  TransactionInv'
<1> DEFINE next == IF tx.at < Len(tx.ops) THEN tx.ops[tx.at + 1].removes ELSE <<>>
<1>a. tx.state = "in progress"
  BY DEF OperationDone, Running
<1>b. tx \in Transaction
  BY DEF TransactionInv, TransactionTypeOK
<1>1. /\ tx.at <= Len(tx.ops) /\ tx.left = <<>>
      /\ tx.at \in Nat \ {0} /\ Len(tx.ops) \in Nat
  BY <1>b, LenProperties DEF OperationDone, Running, Transaction
<1>2. next \in Seq(Files)
  <2>1. tx.at < Len(tx.ops) => tx.at + 1 \in 1..Len(tx.ops)
    BY <1>1
  <2> QED BY <2>1, OperationsType, EmptySeq DEF TransactionInv
<1>3. tx' = [tx EXCEPT !.at = tx.at + 1, !.left = next]
  BY DEF OperationDone
<1> HIDE DEF next
<1>4. /\ tx' \in Transaction
      /\ tx'.state = tx.state /\ tx'.fresh = tx.fresh /\ tx'.time = tx.time
      /\ tx'.ops = tx.ops /\ tx'.at = tx.at + 1 /\ tx'.left = next
  <2>1. tx.at + 1 \in Nat \ {0}
    BY <1>1
  <2> QED BY <1>b, <1>2, <1>3, <2>1 DEF Transaction
<1>5. UNCHANGED <<files, atStart, backup, short>> /\ completed' = <<tx.at>> \o completed
  BY DEF OperationDone
<1>6. /\ completed' \in Seq(Nat) /\ Len(completed') = Len(completed) + 1
      /\ completed'[1] = tx.at
      /\ \A i \in 2..Len(completed') : completed'[i] = completed[i - 1]
  <2>a. completed \in Seq(Nat)
    BY DEF TransactionInv, TransactionTypeOK
  <2>b. <<tx.at>> \in Seq(Nat) /\ Len(<<tx.at>>) = 1
    <3>1. tx.at \in Nat
      BY <1>1
    <3> QED BY <3>1
  <2>1. completed \in Seq(Nat) /\ <<tx.at>> \in Seq(Nat) /\ Len(<<tx.at>>) = 1
    BY <2>a, <2>b
  <2>2. Len(completed) \in Nat
    BY <2>1, LenProperties
  <2>3. completed' \in Seq(Nat) /\ Len(completed') = 1 + Len(completed)
    BY <1>5, <2>1, ConcatProperties
  <2>4. \A i \in 1..(1 + Len(completed)) :
           completed'[i] = IF i <= 1 THEN <<tx.at>>[i] ELSE completed[i - 1]
    BY <1>5, <2>1, ConcatProperties
  <2> QED BY <2>1, <2>2, <2>3, <2>4
<1>7. TransactionTypeOK'
  BY <1>4, <1>5, <1>6 DEF TransactionInv, TransactionTypeOK
<1>8. CountsDown'
  <2>1. CountsDown /\ Len(completed) = tx.at - 1 /\ Len(completed) \in Nat
    BY <1>a, LenProperties DEF TransactionInv, CountsDown, TransactionTypeOK
  <2>2. ASSUME NEW i \in 1..Len(completed') PROVE completed'[i] = Len(completed') + 1 - i
    <3>1. CASE i = 1
      BY <1>1, <1>6, <2>1, <3>1
    <3>2. CASE i > 1
      <4>1. i \in 2..Len(completed') /\ i - 1 \in 1..Len(completed)
        BY <1>6, <2>1, <2>2, <3>2
      <4>2. completed[i - 1] = Len(completed) + 1 - (i - 1)
        BY <2>1, <4>1 DEF CountsDown
      <4> QED BY <1>6, <2>1, <4>1, <4>2
    <3> QED BY <2>1, <2>2, <1>6, <3>1, <3>2
  <2>3. tx'.at = tx.at + 1 /\ tx'.ops = tx.ops /\ Len(completed') = Len(completed) + 1
    BY <1>4, <1>6
  <2>4. Len(completed') < tx'.at /\ tx'.at <= Len(tx'.ops) + 1 /\ Len(completed') = tx'.at - 1
    <3>1. Len(completed) = tx.at - 1 /\ Len(completed) \in Nat
      BY <2>1
    <3> QED BY <1>1, <2>3, <3>1
  <2> QED BY <2>2, <2>4 DEF CountsDown
<1>9. ASSUME tx.fresh PROVE BackedUp' /\ Executing'
  <2>1. BackedUp /\ Executing
    BY <1>a, <1>9 DEF TransactionInv
  <2>2. \A i : Removed(i)' = Removed(i)
    BY <1>4, SameOperations
  <2>3. ToSet(tx.left) = {}
    <3>1. DOMAIN tx.left = {}
      BY <1>1
    <3> QED BY <3>1 DEF ToSet
  <2>4. \A g \in Removed(tx.at) \ short : backup[tx.time][g] = atStart[g]
    BY <1>1, <2>1, <2>3 DEF Executing
  <2>5. BackedUp'
    <3>1. ASSUME NEW i \in 1..(tx'.at - 1), NEW f \in Removed(i) \ short
          PROVE  backup[tx.time][f] = atStart[f]
      <4>1. i \in 1..(tx.at - 1) \/ i = tx.at
        BY <1>1, <1>4, <3>1
      <4> QED BY <2>1, <2>4, <3>1, <4>1 DEF BackedUp
    <3> QED BY <1>4, <1>5, <2>1, <2>2, <3>1 DEF BackedUp
  <2>6. tx'.at <= Len(tx.ops) => ToSet(tx'.left) = Removed(tx'.at)
    BY <1>1, <1>4 DEF next, Removed
  <2> QED BY <1>4, <1>5, <2>1, <2>2, <2>5, <2>6 DEF Executing
<1> QED BY <1>a, <1>4, <1>7, <1>8, <1>9 DEF TransactionInv

LEMMA RollbackKeeps ==
    ASSUME TransactionInv, Rollback
    PROVE  TransactionInv'
<1> DEFINE n == Len(completed)
<1>a. tx.state = "rollback" /\ completed # <<>>
  BY DEF Rollback
<1>b. tx' = tx /\ completed' = Tail(completed) /\ UNCHANGED <<backup, atStart, short>>
  BY DEF Rollback
<1>c. \A i : Removed(i)' = Removed(i)
  BY <1>b, SameOperations
<1>d. \A f : Naming(f)' = Naming(f)
  BY <1>b, SameOperations
<1>1. completed \in Seq(Nat) /\ CountsDown
  BY <1>a DEF TransactionInv, TransactionTypeOK
<1>e. \A i \in 1..n : completed[i] = n + 1 - i
  BY <1>1 DEF CountsDown
<1>2. /\ completed' \in Seq(Nat) /\ n \in Nat \ {0} /\ Len(completed') = n - 1
      /\ \A i \in 1..(n - 1) : completed'[i] = completed[i + 1]
  BY <1>a, <1>b, <1>1, EmptySeq, LenProperties, HeadTailProperties
<1>3. tx.at \in Nat \ {0} /\ Len(tx.ops) \in Nat
  <2>1. tx \in Transaction
    BY DEF TransactionInv, TransactionTypeOK
  <2> QED BY <2>1, LenProperties DEF Transaction
<1>4. Head(completed) = n /\ n \in 1..Len(tx.ops) /\ n \in 1..(tx.at - 1)
  <2>1. Head(completed) = completed[1] /\ 1 \in 1..n
    BY <1>a, <1>1, <1>2, HeadTailProperties
  <2>2. completed[1] = n
    BY <1>e, <1>2, <2>1
  <2>3. n < tx.at /\ tx.at <= Len(tx.ops) + 1
    BY <1>1 DEF CountsDown
  <2> QED BY <1>2, <1>3, <2>1, <2>2, <2>3
<1>5. PICK kept \in SUBSET Created(n), refused \in SUBSET Copied(n), cut \in SUBSET Copied(n) :
        /\ files' = [f \in Files |-> IF f \in cut THEN CutShort
                                    ELSE IF f \in Copied(n) \ refused THEN backup[tx.time][f]
                                    ELSE IF f \in Created(n) \ kept THEN NoSuchFile
                                    ELSE files[f]]
        /\ lost' = (lost \ Copied(n)) \cup refused \cup cut
  <2>1. TakeBack(n)
    BY <1>4 DEF Rollback
  <2> QED BY <2>1 DEF TakeBack
<1>6. /\ Copied(n) = {f \in Removed(n) : backup[tx.time][f] # NoSuchFile}
      /\ Created(n) \cup Removed(n) = Named(n)
  BY DEF Removed, Named, Copied, Created
<1>f. \A f \in Files : f \notin lost' =>
        IF f \in Copied(n) THEN files'[f] = backup[tx.time][f]
        ELSE /\ f \notin lost /\ files'[f] \in {NoSuchFile, files[f]}
             /\ f \notin Created(n) => files'[f] = files[f]
  BY <1>5
<1>7. \A f \in Files : \A i \in DOMAIN tx.ops : i \in Naming(f) <=> f \in Named(i)
  BY DEF Naming, Named, Removed
<1>8. DOMAIN tx.ops = 1..Len(tx.ops)
  <2>1. tx.ops \in Seq(Operations)
    BY DEF TransactionInv, TransactionTypeOK, Transaction
  <2> QED BY <2>1, LenProperties
<1>9. TransactionTypeOK'
  <2>1. files' \in [Files -> Contained]
    <3>1. backup[tx.time] \in [Files -> Contained] /\ files \in [Files -> Contained]
      BY DEF TransactionInv, TransactionTypeOK, Transaction
    <3>2. CutShort \in Contained /\ NoSuchFile \in Contained
      BY DEF Contained
    <3> QED BY <1>5, <3>1, <3>2
  <2> QED BY <1>b, <1>2, <2>1 DEF TransactionInv, TransactionTypeOK
<1>10. CountsDown'
  <2>1. ASSUME NEW i \in 1..(n - 1) PROVE completed'[i] = (n - 1) + 1 - i
    <3>1. i + 1 \in 1..n /\ completed'[i] = completed[i + 1]
      BY <1>2, <2>1
    <3>2. completed[i + 1] = n + 1 - (i + 1)
      BY <1>e, <3>1
    <3>3. n + 1 - (i + 1) = (n - 1) + 1 - i
      <4>1. n \in Nat /\ i \in Nat
        BY <1>2, <2>1
      <4> HIDE DEF n
      <4> QED BY <4>1
    <3> QED BY <3>1, <3>2, <3>3
  <2>2. n < tx.at /\ tx.at <= Len(tx.ops) + 1
    BY <1>1 DEF CountsDown
  <2>3. Len(completed') < tx'.at /\ tx'.at <= Len(tx'.ops) + 1
    <3>1. tx'.at = tx.at /\ tx'.ops = tx.ops
      BY <1>b
    <3> QED BY <1>2, <1>3, <2>2, <3>1
  <2>4. tx'.state # "in progress"
    BY <1>a, <1>b
  <2>5. \A i \in 1..Len(completed') : completed'[i] = Len(completed') + 1 - i
    BY <1>2, <2>1
  <2> QED BY <2>3, <2>4, <2>5 DEF CountsDown
<1>11. ASSUME tx.fresh PROVE BackedUp' /\ Undone'
  <2>1. BackedUp /\ Undone
    BY <1>a, <1>11 DEF TransactionInv
  <2>2. BackedUp'
    BY <1>b, <1>c, <2>1 DEF BackedUp
  <2>3. \A f \in Files \ Spoilt' :
            /\ backup[tx.time][f] \in {NoSuchFile, atStart[f]}
            /\ f \notin Copied(n) => f \notin Spoilt /\ files[f] \in {NoSuchFile, atStart[f]}
    BY <1>b, <1>f, <2>1 DEF BackedUp, Undone, Spoilt
  <2>a. \A f : f \notin Spoilt' => f \notin lost' /\ f \notin short
    BY <1>b DEF Spoilt
  <2>4. \A f \in Files \ Spoilt' : files'[f] \in {NoSuchFile, atStart[f]}
    BY <1>f, <2>3, <2>a
  <2>5. \A f \in Files \ Spoilt' : f \notin Named(n) => f \notin Spoilt /\ files'[f] = files[f]
    BY <1>6, <1>f, <2>3, <2>a
  <2>6. \A f \in Files \ Spoilt' : f \in Removed(n) => files'[f] = atStart[f]
    <3>1. \A f \in Removed(n) \ short : backup[tx.time][f] = atStart[f]
      BY <1>4, <2>1 DEF BackedUp
    <3> QED BY <1>6, <1>f, <2>3, <2>a, <3>1
  <2>7. ASSUME NEW f \in Files \ Spoilt', Naming(f) = {} PROVE files'[f] = atStart[f]
    <3>1. f \notin Named(n)
      BY <1>4, <1>7, <1>8, <2>7
    <3> QED BY <2>1, <2>5, <2>7, <3>1 DEF Undone
  <2>8. ASSUME NEW f \in Files \ Spoilt', NEW i \in Naming(f), \A j \in Naming(f) : i <= j,
               f \in Removed(i), i > n - 1
        PROVE  files'[f] = atStart[f]
    <3>0. i \in 1..Len(tx.ops)
      BY <1>8, <2>8 DEF Naming
    <3>1. CASE i = n
      BY <2>6, <2>8, <3>1
    <3>2. CASE i # n
      <4>1. i > n
        BY <1>2, <2>8, <3>0, <3>2
      <4>2. f \notin Named(n)
        <5>1. ~(i <= n)
          BY <1>2, <3>0, <4>1
        <5>2. n \notin Naming(f)
          BY <2>8, <5>1
        <5> QED BY <1>4, <1>7, <1>8, <5>2
      <4> QED BY <2>1, <2>5, <2>8, <4>1, <4>2 DEF Undone
    <3> QED BY <3>1, <3>2
  <2> HIDE DEF n
  <2>9. Undone'
    <3>1. \A f \in Files \ Spoilt' : Naming(f)' = {} => files'[f] = atStart'[f]
      BY <1>b, <1>d, <2>7
    <3>2. ASSUME NEW f \in Files \ Spoilt', NEW i \in Naming(f)', \A j \in Naming(f)' : i <= j,
                 f \in Removed(i)', i > Len(completed')
          PROVE  files'[f] = atStart'[f]
      <4>1. i \in Naming(f) /\ (\A j \in Naming(f) : i <= j) /\ f \in Removed(i) /\ i > n - 1
        BY <1>2, <1>c, <1>d, <3>2
      <4> QED BY <1>b, <2>8, <4>1
    <3>3. \A f \in Files \ Spoilt' : files'[f] \in {NoSuchFile, atStart'[f]}
      BY <1>b, <2>4
    <3> QED BY <3>1, <3>2, <3>3 DEF Undone
  <2> QED BY <2>2, <2>9
<1> QED BY <1>a, <1>b, <1>9, <1>10, <1>11 DEF TransactionInv

\* Commit and the end of a rollback leave the files.
LEMMA EndKeeps ==
    ASSUME TransactionInv, Commit \/ RolledBack
    PROVE  TransactionInv'
<1>1. tx \in Transaction
  BY DEF TransactionInv, TransactionTypeOK
<1>2. tx' \in Transaction /\ tx'.state \in {"completed", "rolled back"}
  BY <1>1 DEF Commit, RolledBack, Transaction
<1>3. UNCHANGED <<files, backup, completed, atStart>>
  BY DEF Commit, RolledBack
<1> QED BY <1>2, <1>3 DEF TransactionInv, TransactionTypeOK

LEMMA TransactionInductive ==
    ASSUME TransactionInv, [TransactionNext]_tvars
    PROVE  TransactionInv'
<1>1. CASE \E f \in Files, c \in FileContents \cup {NoSuchFile} : CallerWrites(f, c)
  BY <1>1, WritingKeeps
<1>2. CASE \E n \in 1..MaxOps : \E ops \in [1..n -> Operations], t \in 0..MaxTime : Execute(ops, t)
  BY <1>2, ExecuteKeeps
<1>3. CASE BackupFile \/ BackupStops \/ BackupFails \/ OperationDone
  BY <1>3, BackingUpKeeps, BackupFailsKeeps, OperationDoneKeeps
<1>4. CASE Commit \/ Rollback \/ RolledBack
  BY <1>4, RollbackKeeps, EndKeeps
<1>5. CASE UNCHANGED tvars
  <2>1. tx' = tx /\ UNCHANGED <<files, backup, completed, atStart, short, lost>>
    BY <1>5 DEF tvars
  <2>2. (\A f : Naming(f)' = Naming(f)) /\ (\A i : Removed(i)' = Removed(i))
    BY <2>1, SameOperations
  <2>3. (CountsDown' <=> CountsDown) /\ (BackedUp' <=> BackedUp) /\ (Executing' <=> Executing)
    BY <2>1, <2>2 DEF CountsDown, BackedUp, Executing
  <2>4. Undone' <=> Undone
    BY <2>1, <2>2 DEF Undone, Spoilt
  <2> QED BY <2>1, <2>3, <2>4 DEF TransactionInv, TransactionTypeOK
<1> QED BY <1>1, <1>2, <1>3, <1>4, <1>5 DEF TransactionNext

\* "atomic package operations with rollback capability" (transaction.rs:3): when an
\* operation fails, rollback leaves every file as it was before the transaction, whatever
\* the operations create and remove and in whatever order, also one that several of
\* them name, unless its own latest copy, there or back, stopped half-way: for any files,
\* contents and operations, and whichever calls fail.
THEOREM RollbackIsComplete == TransactionSpec => RollbackRestoresFiles
<1>1. TransactionInit => TransactionInv
  <2> SUFFICES ASSUME TransactionInit PROVE TransactionInv
    OBVIOUS
  <2>1. NoFiles \in [Files -> Contained]
    BY DEF NoFiles, Contained
  <2>2. NoTx \in Transaction /\ NoTx.state = "none"
    <3>1. 0 \in 0..MaxTime /\ 1 \in Nat \ {0}
      BY TransactionAssumption
    <3> QED BY <3>1, EmptySeq DEF NoTx, Transaction
  <2>3. backup \in [0..MaxTime -> [Files -> Contained]]
    BY <2>1 DEF TransactionInit
  <2>4. completed \in Seq(Nat)
    BY EmptySeq DEF TransactionInit
  <2> QED BY <2>1, <2>2, <2>3, <2>4 DEF TransactionInit, TransactionInv, TransactionTypeOK
<1>2. TransactionInv /\ [TransactionNext]_tvars => TransactionInv'
  BY TransactionInductive
<1>3. ASSUME TransactionInv, tx.state = "rollback", tx'.state = "rolled back", tx.fresh,
             TransactionNext
      PROVE  \A f \in Files \ Spoilt : Naming(f) = {} \/ FirstRemoves(f) => files[f] = atStart[f]
  <2>1. RolledBack
    <3>1. ~Idle
      BY <1>3 DEF Idle
    <3> QED BY <1>3, <3>1 DEF TransactionNext, CallerWrites, Execute, BackupFile, BackupFails,
                 BackupStops, OperationDone, Running, Commit, Rollback
  <2>2. Undone /\ Len(completed) = 0
    BY <1>3, <2>1, EmptySeq DEF RolledBack, TransactionInv
  <2>3. \A f : \A i \in Naming(f) : i > 0
    <3>1. tx.ops \in Seq(Operations)
      BY <1>3 DEF TransactionInv, TransactionTypeOK, Transaction
    <3>2. DOMAIN tx.ops = 1..Len(tx.ops) /\ Len(tx.ops) \in Nat
      BY <3>1, LenProperties
    <3> QED BY <3>2 DEF Naming
  <2> QED BY <2>2, <2>3 DEF Undone, FirstRemoves, Removed
<1>4. TransactionInv /\ [TransactionNext]_tvars =>
        [tx'.state = "rolled back" /\ tx.state = "rollback" /\ tx.fresh =>
           \A f \in Files \ (short \cup lost) :
               Naming(f) = {} \/ FirstRemoves(f) => files[f] = atStart[f]]_tvars
  BY <1>3 DEF Spoilt
<1> QED BY <1>1, <1>2, <1>4, PTL DEF TransactionSpec, RollbackRestoresFiles

-----------------------------------------------------------------------------
(* Induction.  Every set of natural numbers that is not empty has a least  *)
(* element; so one that contains 0, and with n also n + 1, is Nat.         *)

LEMMA LeastNumber ==
    ASSUME NEW T \in SUBSET Nat, T # {}
    PROVE  \E m \in T : \A n \in T : m <= n
<1> DEFINE R == OpToRel(<, Nat)
<1>1. IsWellFoundedOn(R, Nat)
  BY NatLessThanWellFounded
<1>2. \A i, j \in Nat : i < j => <<i, j>> \in R
  BY DEF OpToRel
<1> HIDE DEF R
<1>3. PICK m \in T : \A n \in T : ~ (<<n, m>> \in R)
  BY <1>1, WFMin
<1>4. \A n \in T : m <= n
  <2>1. TAKE n \in T
  <2>2. m \in Nat /\ n \in Nat
    OBVIOUS
  <2>3. ~ (n < m)
    BY <1>2, <1>3, <2>2
  <2> QED BY <2>2, <2>3
<1> QED BY <1>4

LEMMA Induction ==
    ASSUME NEW T \in SUBSET Nat, 0 \in T, \A n \in T : n + 1 \in T
    PROVE  T = Nat
<1>1. SUFFICES ASSUME T # Nat PROVE FALSE
  OBVIOUS
<1>2. PICK m \in Nat \ T : \A n \in Nat \ T : m <= n
  BY <1>1, LeastNumber
<1>3. m - 1 \in Nat /\ m - 1 \in T
  BY <1>2
<1> QED BY <1>2, <1>3

-----------------------------------------------------------------------------
(* The three outcomes of a comparison.                                     *)

Outcomes == {"Less", "Equal", "Greater"}

\* What the comparison the other way round gives.
Opposite(o) == IF o = "Less" THEN "Greater" ELSE IF o = "Greater" THEN "Less" ELSE o

\* The outcomes a of x and y, b of y and z, and c of x and z fit together.
Coherent(a, b, c) ==
    /\ a = "Equal" => c = b
    /\ b = "Equal" => c = a
    /\ a = b => c = a

LEMMA ThenType ==
    ASSUME NEW a \in Outcomes, NEW b \in Outcomes
    PROVE  Then(a, b) \in Outcomes /\ Opposite(a) \in Outcomes
BY DEF Then, Outcomes, Opposite

LEMMA ThenOpposite ==
    ASSUME NEW a \in Outcomes, NEW b \in Outcomes
    PROVE  Then(Opposite(a), Opposite(b)) = Opposite(Then(a, b))
BY DEF Then, Outcomes, Opposite

\* What comes second counts only if what comes first is equal throughout.
LEMMA ThenCoherent ==
    ASSUME NEW a \in Outcomes, NEW b \in Outcomes, NEW c \in Outcomes, Coherent(a, b, c),
           NEW d \in Outcomes, NEW e \in Outcomes, NEW f \in Outcomes,
           a = "Equal" /\ b = "Equal" => Coherent(d, e, f)
    PROVE  Coherent(Then(a, d), Then(b, e), Then(c, f))
BY DEF Then, Outcomes, Coherent

LEMMA Comparable == \A i, j \in Int : i < j \/ i > j \/ i = j
OBVIOUS

LEMMA OrderIsCoherent ==
    ASSUME NEW i \in Int, NEW j \in Int, NEW k \in Int
    PROVE  /\ Order(i, j) \in Outcomes
           /\ Order(j, i) = Opposite(Order(i, j))
           /\ Order(i, j) = "Equal" <=> i = j
           /\ Coherent(Order(i, j), Order(j, k), Order(i, k))
BY DEF Order, Outcomes, Opposite, Coherent

-----------------------------------------------------------------------------
(* Characters                                                              *)

Chars == Alphanumeric \cup Separators

LEMMA PlaceOfDigit ==
    ASSUME NEW c \in Digits
    PROVE  Place(c, DigitSeq) \in 1..10 /\ DigitSeq[Place(c, DigitSeq)] = c
BY DEF Digits, DigitSeq, Place

LEMMA PlaceOfLetter ==
    ASSUME NEW c \in Letters
    PROVE  /\ Place(c, LetterSeq) \in Nat \ {0}
           /\ \A d \in Letters : Place(c, LetterSeq) = Place(d, LetterSeq) => c = d
<1>1. \A d \in Letters : /\ Place(d, LetterSeq) \in DOMAIN LetterSeq
                         /\ LetterSeq[Place(d, LetterSeq)] = d
  BY DEF Letters, Place
<1>2. DOMAIN LetterSeq = 1..52
  BY DEF LetterSeq
<1> QED BY <1>1, <1>2

LEMMA KindsApart ==
    /\ Digits \cap Letters = {} /\ Digits \cap Separators = {} /\ Letters \cap Separators = {}
    /\ Chars = Digits \cup Letters \cup Separators
<1>1. Digits = {"0", "1", "2", "3", "4", "5", "6", "7", "8", "9"}
  BY DEF Digits, DigitSeq
<1>2. Letters = {"A", "B", "C", "D", "E", "F", "G", "H", "I", "J", "K", "L", "M",
                "N", "O", "P", "Q", "R", "S", "T", "U", "V", "W", "X", "Y", "Z",
                "a", "b", "c", "d", "e", "f", "g", "h", "i", "j", "k", "l", "m",
                "n", "o", "p", "q", "r", "s", "t", "u", "v", "w", "x", "y", "z"}
  BY DEF Letters, LetterSeq
<1> QED BY <1>1, <1>2 DEF Separators, Chars, Alphanumeric

\* A run ends behind the characters of its kind.
LEMMA RunEndIs ==
    ASSUME NEW s \in Seq(Chars), NEW i \in 1..(Len(s) + 1), NEW C
    PROVE  /\ RunEnd(s, i, C) \in i..(Len(s) + 1)
           /\ \A k \in i..(RunEnd(s, i, C) - 1) : s[k] \in C
           /\ RunEnd(s, i, C) <= Len(s) => s[RunEnd(s, i, C)] \notin C
<1> DEFINE T == {j \in i..(Len(s) + 1) : j <= Len(s) => s[j] \notin C}
<1>1. Len(s) + 1 \in T /\ T \in SUBSET Nat
  OBVIOUS
<1>2. PICK m \in T : \A n \in T : m <= n
  BY <1>1, LeastNumber
<1>3. \A k \in i..(m - 1) : s[k] \in C
  BY <1>2
<1>4. \E j \in i..(Len(s) + 1) : (\A k \in i..(j - 1) : s[k] \in C) /\ (j <= Len(s) => s[j] \notin C)
  BY <1>2, <1>3
<1> QED BY <1>4 DEF RunEnd

LEMMA RunType ==
    ASSUME NEW s \in Seq(Chars), NEW i \in 1..(Len(s) + 1), NEW C \in SUBSET Chars
    PROVE  Run(s, i, C) \in Seq(C)
<1> DEFINE e == RunEnd(s, i, C)
<1>1. e \in i..(Len(s) + 1) /\ \A k \in i..(e - 1) : s[k] \in C
  BY RunEndIs
<1> HIDE DEF e
<1>2. SubSeq(s, i, e - 1) = [k \in 1..(e - i) |-> s[i + k - 1]]
  BY <1>1
<1>3. \A k \in 1..(e - i) : s[i + k - 1] \in C
  <2>1. TAKE k \in 1..(e - i)
  <2>2. i + k - 1 \in i..(e - 1)
    BY <1>1
  <2> QED BY <1>1, <2>2
<1>4. e - i \in Nat
  BY <1>1
<1>5. [k \in 1..(e - i) |-> s[i + k - 1]] \in Seq(C)
  BY <1>3, <1>4
<1> QED BY <1>2, <1>5 DEF Run, e

\* The iterator moves on, by the run and the character lost behind it.
LEMMA BehindIs ==
    ASSUME NEW s \in Seq(Chars), NEW i \in 1..Len(s), NEW C, s[i] \in C
    PROVE  Behind(s, i, C) \in (i + 1)..(Len(s) + 1)
<1> DEFINE e == RunEnd(s, i, C)
<1>1. e \in i..(Len(s) + 1) /\ (e <= Len(s) => s[e] \notin C)
  BY RunEndIs
<1>2. e # i
  BY <1>1
<1> QED BY <1>1, <1>2 DEF Behind

-----------------------------------------------------------------------------
(* Numbers                                                                 *)

Numeral(s, v) ==
    \A n \in 0..Len(s) : v[n] = IF n = 0 THEN 0 ELSE 10 * v[n - 1] + (Place(s[n], DigitSeq) - 1)

\* The value of a prefix is defined by those of the shorter ones.
LEMMA NumeralExists ==
    ASSUME NEW s \in Seq(Digits)
    PROVE  \E v \in [0..Len(s) -> Nat] : Numeral(s, v)
<1> DEFINE Up(v, k) == \A n \in 0..k :
               v[n] = IF n = 0 THEN 0 ELSE 10 * v[n - 1] + (Place(s[n], DigitSeq) - 1)
           T == {k \in Nat : k <= Len(s) => \E v \in [0..Len(s) -> Nat] : Up(v, k)}
<1>1. 0 \in T
  <2>1. [n \in 0..Len(s) |-> 0] \in [0..Len(s) -> Nat] /\ Up([n \in 0..Len(s) |-> 0], 0)
    OBVIOUS
  <2> QED BY <2>1
<1>2. ASSUME NEW k \in T PROVE k + 1 \in T
  <2>1. SUFFICES ASSUME k + 1 <= Len(s)
                 PROVE  \E v \in [0..Len(s) -> Nat] : Up(v, k + 1)
    OBVIOUS
  <2>2. PICK v \in [0..Len(s) -> Nat] : Up(v, k)
    BY <2>1
  <2> DEFINE d == Place(s[k + 1], DigitSeq) - 1
             w == [v EXCEPT ![k + 1] = 10 * v[k] + d]
  <2>3. d \in Nat
    <3>1. s[k + 1] \in Digits
      BY <2>1
    <3> QED BY <3>1, PlaceOfDigit
  <2>4. v[k] \in Nat
    BY <2>1
  <2>5. w \in [0..Len(s) -> Nat]
    <3> HIDE DEF d
    <3> QED BY <2>3, <2>4
  <2>6. ASSUME NEW n \in 0..(k + 1)
        PROVE  w[n] = IF n = 0 THEN 0 ELSE 10 * w[n - 1] + (Place(s[n], DigitSeq) - 1)
    <3>1. CASE n = k + 1
      <4>1. w[n] = 10 * v[k] + d
        BY <2>1, <3>1
      <4>2. w[n - 1] = v[k]
        BY <2>1, <3>1
      <4> QED BY <4>1, <4>2, <3>1
    <3>2. CASE n # k + 1
      <4>1. n \in 0..k /\ n \in 0..Len(s) /\ w[n] = v[n]
        BY <2>1, <3>2
      <4>2. n # 0 => n - 1 \in 0..Len(s) /\ w[n - 1] = v[n - 1]
        BY <2>1, <3>2
      <4> QED BY <2>2, <4>1, <4>2
    <3> QED BY <3>1, <3>2
  <2> QED BY <2>5, <2>6
<1> HIDE DEF Up
<1>3. T = Nat
  <2> HIDE DEF T
  <2>1. T \in SUBSET Nat
    BY DEF T
  <2> QED BY <1>1, <1>2, <2>1, Induction
<1>4. Len(s) \in T
  <2>1. Len(s) \in Nat
    OBVIOUS
  <2> HIDE DEF T
  <2> QED BY <1>3, <2>1
<1> QED BY <1>4 DEF Up, Numeral

LEMMA NumberType ==
    ASSUME NEW s \in Seq(Chars), NEW max \in Nat
    PROVE  Number(s, max) \in Nat
<1> DEFINE value == CHOOSE v : v = [n \in 0..Len(s) |->
               IF n = 0 THEN 0 ELSE 10 * v[n - 1] + (Place(s[n], DigitSeq) - 1)]
<1>1. CASE ~ \A i \in DOMAIN s : s[i] \in Digits
  BY <1>1 DEF Number
<1>2. CASE \A i \in DOMAIN s : s[i] \in Digits
  <2>1. s \in Seq(Digits)
    BY <1>2
  <2>2. PICK v \in [0..Len(s) -> Nat] : Numeral(s, v)
    BY <2>1, NumeralExists
  <2>3. v = [n \in 0..Len(s) |->
               IF n = 0 THEN 0 ELSE 10 * v[n - 1] + (Place(s[n], DigitSeq) - 1)]
    BY <2>2 DEF Numeral
  <2>4. Numeral(s, value)
    <3>1. value = [n \in 0..Len(s) |->
               IF n = 0 THEN 0 ELSE 10 * value[n - 1] + (Place(s[n], DigitSeq) - 1)]
      BY <2>3
    <3> HIDE DEF value
    <3> QED BY <3>1 DEF Numeral
  <2>5. Number(s, max) = IF value[Len(s)] <= max THEN value[Len(s)] ELSE 0
    BY <1>2 DEF Number
  <2> HIDE DEF value
  <2>6. value[Len(s)] \in Nat
    <3> DEFINE T == {k \in Nat : k <= Len(s) => value[k] \in Nat}
    <3>1. 0 \in T
      BY <2>4 DEF Numeral
    <3>2. ASSUME NEW k \in T PROVE k + 1 \in T
      <4>1. SUFFICES ASSUME k + 1 <= Len(s) PROVE value[k + 1] \in Nat
        OBVIOUS
      <4>2. value[k + 1] = 10 * value[k] + (Place(s[k + 1], DigitSeq) - 1)
        BY <2>4, <4>1 DEF Numeral
      <4>3. s[k + 1] \in Digits
        BY <2>1, <4>1
      <4>4. Place(s[k + 1], DigitSeq) \in 1..10
        BY <4>3, PlaceOfDigit
      <4>5. value[k] \in Nat
        BY <4>1
      <4>6. \A p \in 1..10 : 10 * value[k] + (p - 1) \in Nat
        BY <4>5
      <4> HIDE DEF T
      <4> QED BY <4>2, <4>4, <4>6
    <3>3. T = Nat
      <4> HIDE DEF T
      <4>1. T \in SUBSET Nat
        BY DEF T
      <4> QED BY <3>1, <3>2, <4>1, Induction
    <3> QED BY <3>3
  <2> QED BY <2>5, <2>6
<1> QED BY <1>1, <1>2

-----------------------------------------------------------------------------
(* Runs of letters                                                         *)

\* The place of a run's letter in the alphabet; there is none behind its end.
Rank(x, i) == IF i <= Len(x) THEN Place(x[i], LetterSeq) ELSE 0

\* The first place where x and y differ is i, and x is the smaller one there.
LessAt(x, y, i) ==
    /\ \A j \in 1..(i - 1) : Rank(x, j) = Rank(y, j)
    /\ Rank(x, i) < Rank(y, i)

LEMMA RankType ==
    ASSUME NEW x \in Seq(Letters), NEW i \in Nat \ {0}
    PROVE  Rank(x, i) \in Nat /\ (Rank(x, i) = 0 <=> i > Len(x))
<1>1. CASE i <= Len(x)
  <2>1. x[i] \in Letters
    BY <1>1
  <2> QED BY <1>1, <2>1, PlaceOfLetter DEF Rank
<1>2. CASE ~(i <= Len(x))
  BY <1>2 DEF Rank
<1> QED BY <1>1, <1>2

LEMMA LettersByRank ==
    ASSUME NEW x \in Seq(Letters), NEW y \in Seq(Letters)
    PROVE  /\ OrderOfLetters(x, y) \in Outcomes
           /\ OrderOfLetters(x, y) = "Less" => \E i \in Nat \ {0} : LessAt(x, y, i)
           /\ OrderOfLetters(x, y) = "Greater" => \E i \in Nat \ {0} : LessAt(y, x, i)
           /\ OrderOfLetters(x, y) = "Equal" => x = y
<1> DEFINE differ == {i \in DOMAIN x \cap DOMAIN y : x[i] # y[i]}
           k == CHOOSE i \in differ : \A j \in differ : i <= j
<1>a. /\ DOMAIN x = 1..Len(x) /\ DOMAIN y = 1..Len(y)
      /\ Len(x) \in Nat /\ Len(y) \in Nat
  OBVIOUS
<1>1. CASE differ = {}
  <2>1. OrderOfLetters(x, y) = Order(Len(x), Len(y))
    BY <1>1 DEF OrderOfLetters
  <2>2. \A i \in Nat : i \in 1..Len(x) /\ i \in 1..Len(y) => Rank(x, i) = Rank(y, i)
    BY <1>1 DEF Rank
  <2>3. \A i \in DOMAIN x \cap DOMAIN y : x[i] = y[i]
    BY <1>1
  <2> HIDE DEF differ, k
  <2>4. CASE Len(x) < Len(y)
    <3>1. LessAt(x, y, Len(x) + 1)
      BY <1>a, <2>2, <2>4, RankType DEF LessAt
    <3>2. OrderOfLetters(x, y) = "Less"
      BY <1>a, <2>1, <2>4 DEF Order
    <3> QED BY <1>a, <3>1, <3>2 DEF Outcomes
  <2>5. CASE Len(x) > Len(y)
    <3>1. LessAt(y, x, Len(y) + 1)
      BY <1>a, <2>2, <2>5, RankType DEF LessAt
    <3>2. OrderOfLetters(x, y) = "Greater"
      BY <1>a, <2>1, <2>5 DEF Order
    <3> QED BY <1>a, <3>1, <3>2 DEF Outcomes
  <2>6. CASE Len(x) = Len(y)
    <3>1. x = y
      BY <1>a, <2>3, <2>6
    <3>2. OrderOfLetters(x, y) = "Equal"
      BY <1>a, <2>1, <2>6 DEF Order
    <3> QED BY <3>1, <3>2 DEF Outcomes
  <2>7. Len(x) < Len(y) \/ Len(x) > Len(y) \/ Len(x) = Len(y)
    <3>1. Len(x) \in Int /\ Len(y) \in Int
      OBVIOUS
    <3> QED BY <3>1, Comparable
  <2> QED BY <2>4, <2>5, <2>6, <2>7
<1>2. CASE differ # {}
  <2>1. differ \in SUBSET Nat
    BY <1>a
  <2>2. k \in differ /\ \A j \in differ : k <= j
    <3>1. \E i \in differ : \A j \in differ : i <= j
      <4> HIDE DEF differ
      <4> QED BY <1>2, <2>1, LeastNumber
    <3> QED BY <3>1
  <2>3. OrderOfLetters(x, y) = Order(Place(x[k], LetterSeq), Place(y[k], LetterSeq))
    BY <1>2 DEF OrderOfLetters
  <2>4. k \in 1..Len(x) /\ k \in 1..Len(y) /\ x[k] # y[k]
    BY <1>a, <2>2
  <2>5. \A j \in 1..(k - 1) : x[j] = y[j]
    <3> SUFFICES ASSUME NEW j \in 1..(k - 1), x[j] # y[j] PROVE FALSE
      OBVIOUS
    <3>1. j \in differ
      <4> HIDE DEF k
      <4> QED BY <1>a, <2>4
    <3>2. k <= j
      BY <2>2, <3>1
    <3> HIDE DEF k
    <3> QED BY <2>4, <3>2
  <2> HIDE DEF k, differ
  <2>6. x[k] \in Letters /\ y[k] \in Letters
    BY <2>4
  <2>7. /\ Place(x[k], LetterSeq) \in Int /\ Place(y[k], LetterSeq) \in Int
        /\ Place(x[k], LetterSeq) # Place(y[k], LetterSeq)
    BY <2>4, <2>6, PlaceOfLetter
  <2>8. /\ \A j \in 1..(k - 1) : Rank(x, j) = Rank(y, j)
        /\ Rank(x, k) = Place(x[k], LetterSeq) /\ Rank(y, k) = Place(y[k], LetterSeq)
    BY <1>a, <2>4, <2>5 DEF Rank
  <2>9. k \in Nat \ {0}
    BY <2>4
  <2>10. CASE Place(x[k], LetterSeq) < Place(y[k], LetterSeq)
    BY <2>3, <2>7, <2>8, <2>9, <2>10 DEF Order, LessAt, Outcomes
  <2>11. CASE Place(x[k], LetterSeq) > Place(y[k], LetterSeq)
    BY <2>3, <2>7, <2>8, <2>9, <2>11 DEF Order, LessAt, Outcomes
  <2> QED BY <2>7, <2>10, <2>11
<1> QED BY <1>1, <1>2

LEMMA LessAtIsTransitive ==
    ASSUME NEW x \in Seq(Letters), NEW y \in Seq(Letters), NEW z \in Seq(Letters),
           NEW i \in Nat \ {0}, NEW j \in Nat \ {0}, LessAt(x, y, i), LessAt(y, z, j)
    PROVE  \E k \in Nat \ {0} : LessAt(x, z, k)
<1>1. \A k \in Nat \ {0} : Rank(x, k) \in Int /\ Rank(y, k) \in Int /\ Rank(z, k) \in Int
  BY RankType
<1>2. CASE i <= j
  <2>1. ASSUME NEW k \in 1..(i - 1) PROVE Rank(x, k) = Rank(z, k)
    <3>1. k \in 1..(j - 1)
      BY <1>2
    <3> QED BY <3>1 DEF LessAt
  <2>2. Rank(x, i) < Rank(z, i)
    <3>1. CASE i = j
      BY <1>1, <3>1 DEF LessAt
    <3>2. CASE i # j
      <4>1. i \in 1..(j - 1)
        BY <1>2, <3>2
      <4> QED BY <4>1 DEF LessAt
    <3> QED BY <3>1, <3>2
  <2> QED BY <2>1, <2>2 DEF LessAt
<1>3. CASE j < i
  <2>1. LessAt(x, z, j)
    BY <1>1, <1>3 DEF LessAt
  <2> QED BY <2>1
<1> QED BY <1>2, <1>3

LEMMA LessAtIsOneWay ==
    ASSUME NEW x \in Seq(Letters), NEW y \in Seq(Letters),
           NEW i \in Nat \ {0}, NEW j \in Nat \ {0}, LessAt(x, y, i), LessAt(y, x, j)
    PROVE  FALSE
<1>1. \A k \in Nat \ {0} : Rank(x, k) \in Int /\ Rank(y, k) \in Int
  BY RankType
<1>2. CASE i <= j
  BY <1>1, <1>2 DEF LessAt
<1>3. CASE j < i
  BY <1>1, <1>3 DEF LessAt
<1> QED BY <1>2, <1>3

LEMMA LessAtDiffers ==
    ASSUME NEW x \in Seq(Letters), NEW i \in Nat \ {0}, LessAt(x, x, i)
    PROVE  FALSE
BY LessAtIsOneWay

LEMMA LettersAreOrdered ==
    ASSUME NEW x \in Seq(Letters), NEW y \in Seq(Letters), NEW z \in Seq(Letters)
    PROVE  /\ OrderOfLetters(x, y) \in Outcomes
           /\ OrderOfLetters(y, x) = Opposite(OrderOfLetters(x, y))
           /\ Coherent(OrderOfLetters(x, y), OrderOfLetters(y, z), OrderOfLetters(x, z))
<1> DEFINE Below(u, w) == \E i \in Nat \ {0} : LessAt(u, w, i)
           S == Seq(Letters)
<1>1. \A u, w \in S : /\ OrderOfLetters(u, w) \in Outcomes
                      /\ OrderOfLetters(u, w) = "Less" => Below(u, w)
                      /\ OrderOfLetters(u, w) = "Greater" => Below(w, u)
                      /\ OrderOfLetters(u, w) = "Equal" => u = w
  BY LettersByRank
<1>2. \A u, w, t \in S : Below(u, w) /\ Below(w, t) => Below(u, t)
  BY LessAtIsTransitive
<1>3. \A u, w \in S : ~(Below(u, w) /\ Below(w, u))
  BY LessAtIsOneWay
<1> HIDE DEF Below, S
<1>4. x \in S /\ y \in S /\ z \in S
  BY DEF S
<1>5. \A u, w \in S : /\ OrderOfLetters(u, w) = "Less" <=> Below(u, w)
                      /\ OrderOfLetters(u, w) = "Greater" <=> Below(w, u)
                      /\ OrderOfLetters(u, w) = "Equal" <=> u = w
  BY <1>1, <1>3 DEF Outcomes
<1>6. OrderOfLetters(y, x) = Opposite(OrderOfLetters(x, y))
  BY <1>1, <1>4, <1>5 DEF Opposite, Outcomes
<1>7. ASSUME OrderOfLetters(x, y) = "Equal"
      PROVE  OrderOfLetters(x, z) = OrderOfLetters(y, z)
  BY <1>4, <1>5, <1>7
<1>8. ASSUME OrderOfLetters(y, z) = "Equal"
      PROVE  OrderOfLetters(x, z) = OrderOfLetters(x, y)
  BY <1>4, <1>5, <1>8
<1>9. ASSUME OrderOfLetters(x, y) = OrderOfLetters(y, z)
      PROVE  OrderOfLetters(x, z) = OrderOfLetters(x, y)
  <2>1. CASE OrderOfLetters(x, y) = "Less"
    BY <1>2, <1>4, <1>5, <1>9, <2>1
  <2>2. CASE OrderOfLetters(x, y) = "Greater"
    BY <1>2, <1>4, <1>5, <1>9, <2>2
  <2>3. CASE OrderOfLetters(x, y) = "Equal"
    BY <1>7, <1>9, <2>3
  <2> QED BY <1>1, <1>4, <2>1, <2>2, <2>3 DEF Outcomes
<1> QED BY <1>1, <1>4, <1>6, <1>7, <1>8, <1>9 DEF Coherent

-----------------------------------------------------------------------------
(* The comparison of two version strings                                   *)

Positions(s) == 1..(Len(s) + 1)

\* The step that compare_version_strings takes at i and j, where cmp tells what
\* the rest compares as.
CompareStep(x, y, cmp, i, j) ==
    LET m == RunEnd(x, i, Separators)
        n == RunEnd(y, j, Separators)
    IN  IF m > Len(x) \/ n > Len(y) THEN AtEnd(x, m, y, n)
        ELSE IF x[m] \in Digits /\ y[n] \in Digits
             THEN Then(Order(Number(Run(x, m, Digits), U64Max),
                             Number(Run(y, n, Digits), U64Max)),
                       cmp[<<Behind(x, m, Digits), Behind(y, n, Digits)>>])
        ELSE IF x[m] \in Letters /\ y[n] \in Letters
             THEN Then(OrderOfLetters(Run(x, m, Letters), Run(y, n, Letters)),
                       cmp[<<Behind(x, m, Letters), Behind(y, n, Letters)>>])
        ELSE IF x[m] \in Digits THEN "Greater" ELSE "Less"

Comparison(x, y) ==
    CHOOSE cmp : cmp = [at \in Positions(x) \X Positions(y) |->
                           CompareStep(x, y, cmp, at[1], at[2])]

LEMMA CompareIsComparison ==
    ASSUME NEW x, NEW y
    PROVE  CompareVersionStrings(x, y) = Comparison(x, y)[<<1, 1>>]
BY DEF CompareVersionStrings, Comparison, CompareStep, Positions

\* What is at a place: nothing more, letters, or digits.
Class(s, m) == IF m > Len(s) THEN 0 ELSE IF s[m] \in Digits THEN 2 ELSE 1
KindAt(s, m) == Kind(s[m])
Ahead(s, i) == RunEnd(s, i, Separators)
ClassAt(s, i) == Class(s, Ahead(s, i))
Segment(s, i) == Run(s, Ahead(s, i), KindAt(s, Ahead(s, i)))
Beyond(s, i) == Behind(s, Ahead(s, i), KindAt(s, Ahead(s, i)))

\* The order of two segments of one kind.
SegmentOrder(x, y, i, j) ==
    IF ClassAt(x, i) = 2
    THEN Order(Number(Segment(x, i), U64Max), Number(Segment(y, j), U64Max))
    ELSE OrderOfLetters(Segment(x, i), Segment(y, j))

\* A step decides by the classes, then by the segments, then by the rest.
LEMMA StepByClass ==
    ASSUME NEW x \in Seq(Chars), NEW y \in Seq(Chars), NEW f,
           NEW i \in Positions(x), NEW j \in Positions(y)
    PROVE  CompareStep(x, y, f, i, j) =
               Then(Order(ClassAt(x, i), ClassAt(y, j)),
                    IF ClassAt(x, i) = 0 THEN "Equal"
                    ELSE Then(SegmentOrder(x, y, i, j), f[<<Beyond(x, i), Beyond(y, j)>>]))
<1> DEFINE m == RunEnd(x, i, Separators)
           n == RunEnd(y, j, Separators)
           rest == Then(SegmentOrder(x, y, i, j), f[<<Beyond(x, i), Beyond(y, j)>>])
<1>1. /\ m \in i..(Len(x) + 1) /\ n \in j..(Len(y) + 1)
      /\ m <= Len(x) => x[m] \notin Separators
      /\ n <= Len(y) => y[n] \notin Separators
  BY RunEndIs DEF Positions
<1>2. CompareStep(x, y, f, i, j) =
          IF m > Len(x) \/ n > Len(y) THEN AtEnd(x, m, y, n)
          ELSE IF x[m] \in Digits /\ y[n] \in Digits
               THEN Then(Order(Number(Run(x, m, Digits), U64Max),
                               Number(Run(y, n, Digits), U64Max)),
                         f[<<Behind(x, m, Digits), Behind(y, n, Digits)>>])
          ELSE IF x[m] \in Letters /\ y[n] \in Letters
               THEN Then(OrderOfLetters(Run(x, m, Letters), Run(y, n, Letters)),
                         f[<<Behind(x, m, Letters), Behind(y, n, Letters)>>])
          ELSE IF x[m] \in Digits THEN "Greater" ELSE "Less"
  BY DEF CompareStep
<1>3. ClassAt(x, i) = Class(x, m) /\ ClassAt(y, j) = Class(y, n)
  BY DEF ClassAt, Ahead
<1>4. /\ Segment(x, i) = Run(x, m, KindAt(x, m)) /\ Segment(y, j) = Run(y, n, KindAt(y, n))
      /\ Beyond(x, i) = Behind(x, m, KindAt(x, m)) /\ Beyond(y, j) = Behind(y, n, KindAt(y, n))
  BY DEF Segment, Beyond, Ahead
<1> HIDE DEF m, n
<1>5. m \in Int /\ n \in Int /\ Len(x) \in Int /\ Len(y) \in Int
  BY <1>1 DEF Positions
<1>6. /\ m <= Len(x) => x[m] \in Digits \cup Letters
      /\ n <= Len(y) => y[n] \in Digits \cup Letters
  <2>1. Len(x) \in Nat /\ Len(y) \in Nat /\ i \in Nat \ {0} /\ j \in Nat \ {0}
    BY DEF Positions
  <2>2. /\ \A k \in 1..Len(x) : x[k] \in Chars
        /\ \A k \in 1..Len(y) : y[k] \in Chars
    OBVIOUS
  <2> QED BY <1>1, <2>1, <2>2, KindsApart
<1>7. /\ m > Len(x) \/ (m <= Len(x) /\ ~(m > Len(x)))
      /\ n > Len(y) \/ (n <= Len(y) /\ ~(n > Len(y)))
  BY <1>5, Comparable
<1>8. \A o : Then("Equal", o) = o /\ Then("Less", o) = "Less" /\ Then("Greater", o) = "Greater"
  BY DEF Then
<1>9. /\ \A p, q \in 0..2 : p = q => Order(p, q) = "Equal"
      /\ \A p, q \in 0..2 : p < q => Order(p, q) = "Less"
      /\ \A p, q \in 0..2 : p > q => Order(p, q) = "Greater"
  BY DEF Order
<1> SUFFICES CompareStep(x, y, f, i, j) =
                 Then(Order(Class(x, m), Class(y, n)), IF Class(x, m) = 0 THEN "Equal" ELSE rest)
  BY <1>3
<1>10. CASE m > Len(x) /\ n > Len(y)
  <2>1. Class(x, m) = 0 /\ Class(y, n) = 0
    BY <1>10 DEF Class
  <2>2. CompareStep(x, y, f, i, j) = Order(0, 0)
    BY <1>2, <1>10 DEF AtEnd
  <2> HIDE DEF rest
  <2> QED BY <1>8, <1>9, <2>1, <2>2
<1>11. CASE m > Len(x) /\ ~(n > Len(y))
  <2>1. Class(x, m) = 0 /\ Class(y, n) \in {1, 2}
    BY <1>11 DEF Class
  <2>2. CompareStep(x, y, f, i, j) = Order(0, 1)
    BY <1>2, <1>11 DEF AtEnd
  <2> HIDE DEF rest
  <2> QED BY <1>8, <1>9, <2>1, <2>2
<1>12. CASE ~(m > Len(x)) /\ n > Len(y)
  <2>1. Class(x, m) \in {1, 2} /\ Class(y, n) = 0
    BY <1>12 DEF Class
  <2>2. CompareStep(x, y, f, i, j) = Order(1, 0)
    BY <1>2, <1>12 DEF AtEnd
  <2> HIDE DEF rest
  <2> QED BY <1>8, <1>9, <2>1, <2>2
<1>13. CASE ~(m > Len(x)) /\ ~(n > Len(y)) /\ x[m] \in Digits /\ y[n] \in Digits
  <2>1. Class(x, m) = 2 /\ Class(y, n) = 2 /\ KindAt(x, m) = Digits /\ KindAt(y, n) = Digits
    BY <1>13 DEF Class, KindAt, Kind
  <2>2. CompareStep(x, y, f, i, j) =
            Then(Order(Number(Segment(x, i), U64Max), Number(Segment(y, j), U64Max)),
                 f[<<Beyond(x, i), Beyond(y, j)>>])
    BY <1>2, <1>4, <1>13, <2>1
  <2>3. CompareStep(x, y, f, i, j) = rest
    BY <1>3, <2>1, <2>2 DEF SegmentOrder
  <2> HIDE DEF rest
  <2> QED BY <1>8, <1>9, <2>1, <2>3
<1>14. CASE ~(m > Len(x)) /\ ~(n > Len(y)) /\ x[m] \in Letters /\ y[n] \in Letters
  <2>1. x[m] \notin Digits /\ y[n] \notin Digits
    BY <1>14, KindsApart
  <2>2. Class(x, m) = 1 /\ Class(y, n) = 1 /\ KindAt(x, m) = Letters /\ KindAt(y, n) = Letters
    BY <1>14, <2>1 DEF Class, KindAt, Kind
  <2>3. CompareStep(x, y, f, i, j) =
            Then(OrderOfLetters(Segment(x, i), Segment(y, j)), f[<<Beyond(x, i), Beyond(y, j)>>])
    BY <1>2, <1>4, <1>14, <2>1, <2>2
  <2>4. CompareStep(x, y, f, i, j) = rest
    BY <1>3, <2>2, <2>3 DEF SegmentOrder
  <2> HIDE DEF rest
  <2> QED BY <1>8, <1>9, <2>2, <2>4
<1>15. CASE ~(m > Len(x)) /\ ~(n > Len(y)) /\ x[m] \in Digits /\ y[n] \in Letters
  <2>1. y[n] \notin Digits /\ x[m] \notin Letters
    BY <1>15, KindsApart
  <2>2. CompareStep(x, y, f, i, j) = "Greater"
    BY <1>2, <1>15, <2>1
  <2>3. Class(x, m) = 2 /\ Class(y, n) = 1
    BY <1>15, <2>1 DEF Class
  <2> HIDE DEF rest
  <2> QED BY <1>8, <1>9, <2>2, <2>3
<1>16. CASE ~(m > Len(x)) /\ ~(n > Len(y)) /\ x[m] \in Letters /\ y[n] \in Digits
  <2>1. x[m] \notin Digits /\ y[n] \notin Letters
    BY <1>16, KindsApart
  <2>2. CompareStep(x, y, f, i, j) = "Less"
    BY <1>2, <1>16, <2>1
  <2>3. Class(x, m) = 1 /\ Class(y, n) = 2
    BY <1>16, <2>1 DEF Class
  <2> HIDE DEF rest
  <2> QED BY <1>8, <1>9, <2>2, <2>3
<1> HIDE DEF rest
<1> QED BY <1>6, <1>7, <1>10, <1>11, <1>12, <1>13, <1>14, <1>15, <1>16

\* What stands at a position, and that the next step is further on.
LEMMA SegmentIs ==
    ASSUME NEW s \in Seq(Chars), NEW i \in Positions(s)
    PROVE  /\ ClassAt(s, i) \in 0..2
           /\ ClassAt(s, i) = 2 => Number(Segment(s, i), U64Max) \in Nat
           /\ ClassAt(s, i) = 1 => Segment(s, i) \in Seq(Letters)
           /\ ClassAt(s, i) # 0 => Beyond(s, i) \in Positions(s) /\ Beyond(s, i) > i
<1> DEFINE m == Ahead(s, i)
<1>1. m \in i..(Len(s) + 1) /\ (m <= Len(s) => s[m] \notin Separators)
  BY RunEndIs DEF Positions, Ahead
<1>2. ClassAt(s, i) = Class(s, m)
  BY DEF ClassAt
<1>3. i \in Nat \ {0} /\ m \in 1..(Len(s) + 1) /\ Len(s) \in Nat /\ m >= i
  BY <1>1 DEF Positions
<1>4. CASE m > Len(s)
  BY <1>2, <1>4 DEF Class
<1>5. CASE m <= Len(s)
  <2>1. m \in 1..Len(s) /\ m \in 1..(Len(s) + 1)
    BY <1>3, <1>5
  <2>2. s[m] \in Chars
    BY <2>1
  <2>3. s[m] \in KindAt(s, m) /\ KindAt(s, m) \in SUBSET Chars
    BY <1>1, <1>5, <2>2, KindsApart DEF KindAt, Kind
  <2>4. Segment(s, i) \in Seq(KindAt(s, m))
    BY <2>1, <2>3, RunType DEF Segment
  <2>5. Beyond(s, i) \in (m + 1)..(Len(s) + 1)
    BY <2>1, <2>3, BehindIs DEF Beyond
  <2> HIDE DEF m
  <2>6. Beyond(s, i) \in Positions(s) /\ Beyond(s, i) > i
    BY <1>3, <2>1, <2>5 DEF Positions
  <2>7. Class(s, m) = IF s[m] \in Digits THEN 2 ELSE 1
    BY <1>3, <1>5 DEF Class
  <2>8. CASE s[m] \in Digits
    <3>1. Segment(s, i) \in Seq(Chars)
      BY <2>3, <2>4
    <3>2. Number(Segment(s, i), U64Max) \in Nat
      BY <3>1, NumberType, WidthAssumption
    <3> QED BY <1>2, <2>6, <2>7, <2>8, <3>2
  <2>9. CASE s[m] \notin Digits
    <3>1. Segment(s, i) \in Seq(Letters)
      BY <2>4, <2>9 DEF KindAt, Kind
    <3> QED BY <1>2, <2>6, <2>7, <2>9, <3>1
  <2> QED BY <2>8, <2>9
<1> HIDE DEF m
<1> QED BY <1>3, <1>4, <1>5

LEMMA SegmentsAreOrdered ==
    ASSUME NEW x \in Seq(Chars), NEW y \in Seq(Chars), NEW i \in Positions(x),
           NEW j \in Positions(y), ClassAt(x, i) # 0, ClassAt(y, j) = ClassAt(x, i)
    PROVE  /\ SegmentOrder(x, y, i, j) \in Outcomes
           /\ SegmentOrder(y, x, j, i) = Opposite(SegmentOrder(x, y, i, j))
           /\ \A z \in Seq(Chars) : \A k \in Positions(z) :
                 ClassAt(z, k) = ClassAt(x, i) =>
                     Coherent(SegmentOrder(x, y, i, j), SegmentOrder(y, z, j, k),
                              SegmentOrder(x, z, i, k))
<1>1. CASE ClassAt(x, i) = 2
  <2>1. Number(Segment(x, i), U64Max) \in Int /\ Number(Segment(y, j), U64Max) \in Int
    BY <1>1, SegmentIs
  <2>2. /\ SegmentOrder(x, y, i, j) =
               Order(Number(Segment(x, i), U64Max), Number(Segment(y, j), U64Max))
        /\ SegmentOrder(y, x, j, i) =
               Order(Number(Segment(y, j), U64Max), Number(Segment(x, i), U64Max))
    BY <1>1 DEF SegmentOrder
  <2>3. ASSUME NEW z \in Seq(Chars), NEW k \in Positions(z), ClassAt(z, k) = ClassAt(x, i)
        PROVE  Coherent(SegmentOrder(x, y, i, j), SegmentOrder(y, z, j, k),
                        SegmentOrder(x, z, i, k))
    <3>1. Number(Segment(z, k), U64Max) \in Int
      BY <1>1, <2>3, SegmentIs
    <3>2. /\ SegmentOrder(y, z, j, k) =
                 Order(Number(Segment(y, j), U64Max), Number(Segment(z, k), U64Max))
          /\ SegmentOrder(x, z, i, k) =
                 Order(Number(Segment(x, i), U64Max), Number(Segment(z, k), U64Max))
      BY <1>1 DEF SegmentOrder
    <3> QED BY <2>1, <2>2, <3>1, <3>2, OrderIsCoherent
  <2> QED BY <2>1, <2>2, <2>3, OrderIsCoherent
<1>2. CASE ClassAt(x, i) = 1
  <2>1. Segment(x, i) \in Seq(Letters) /\ Segment(y, j) \in Seq(Letters)
    BY <1>2, SegmentIs
  <2>2. /\ SegmentOrder(x, y, i, j) = OrderOfLetters(Segment(x, i), Segment(y, j))
        /\ SegmentOrder(y, x, j, i) = OrderOfLetters(Segment(y, j), Segment(x, i))
    BY <1>2 DEF SegmentOrder
  <2>3. ASSUME NEW z \in Seq(Chars), NEW k \in Positions(z), ClassAt(z, k) = ClassAt(x, i)
        PROVE  Coherent(SegmentOrder(x, y, i, j), SegmentOrder(y, z, j, k),
                        SegmentOrder(x, z, i, k))
    <3>1. Segment(z, k) \in Seq(Letters)
      BY <1>2, <2>3, SegmentIs
    <3>2. /\ SegmentOrder(y, z, j, k) = OrderOfLetters(Segment(y, j), Segment(z, k))
          /\ SegmentOrder(x, z, i, k) = OrderOfLetters(Segment(x, i), Segment(z, k))
      BY <1>2 DEF SegmentOrder
    <3> QED BY <2>1, <2>2, <3>1, <3>2, LettersAreOrdered
  <2> QED BY <2>1, <2>2, <2>3, LettersAreOrdered
<1>3. ClassAt(x, i) \in 0..2
  BY SegmentIs
<1> QED BY <1>1, <1>2, <1>3

\* How the steps of a comparison f fit together, as far as ahead characters of x.
StepsTo(x, y, f, ahead) ==
    \A i \in Positions(x), j \in Positions(y) :
        i + ahead > Len(x) + 1 => f[<<i, j>>] = CompareStep(x, y, f, i, j)

\* A step asks only for what lies further on.
LEMMA StepLooksAhead ==
    ASSUME NEW x \in Seq(Chars), NEW y \in Seq(Chars), NEW f, NEW g,
           NEW i \in Positions(x), NEW j \in Positions(y),
           \A a \in Positions(x), b \in Positions(y) : a > i => f[<<a, b>>] = g[<<a, b>>]
    PROVE  CompareStep(x, y, f, i, j) = CompareStep(x, y, g, i, j)
<1> DEFINE o == Order(ClassAt(x, i), ClassAt(y, j))
           Later(h) == IF ClassAt(x, i) = 0 THEN "Equal"
                      ELSE Then(SegmentOrder(x, y, i, j), h[<<Beyond(x, i), Beyond(y, j)>>])
<1>1. /\ CompareStep(x, y, f, i, j) = Then(o, Later(f))
      /\ CompareStep(x, y, g, i, j) = Then(o, Later(g))
  BY StepByClass
<1>2. ClassAt(x, i) \in 0..2 /\ ClassAt(y, j) \in 0..2
  BY SegmentIs
<1>3. CASE ClassAt(x, i) = ClassAt(y, j) /\ ClassAt(x, i) # 0
  <2>1. Beyond(x, i) \in Positions(x) /\ Beyond(x, i) > i /\ Beyond(y, j) \in Positions(y)
    BY <1>3, SegmentIs
  <2>2. f[<<Beyond(x, i), Beyond(y, j)>>] = g[<<Beyond(x, i), Beyond(y, j)>>]
    BY <2>1
  <2> QED BY <1>1, <2>2
<1>4. CASE ClassAt(x, i) # ClassAt(y, j)
  <2>1. o # "Equal"
    BY <1>2, <1>4, OrderIsCoherent
  <2> HIDE DEF o, Later
  <2> QED BY <1>1, <2>1 DEF Then
<1>5. CASE ClassAt(x, i) = 0
  <2>1. Later(f) = Later(g)
    BY <1>5
  <2> HIDE DEF o, Later
  <2> QED BY <1>1, <2>1
<1> QED BY <1>3, <1>4, <1>5

LEMMA StepType ==
    ASSUME NEW x \in Seq(Chars), NEW y \in Seq(Chars),
           NEW f \in [Positions(x) \X Positions(y) -> Outcomes],
           NEW i \in Positions(x), NEW j \in Positions(y)
    PROVE  CompareStep(x, y, f, i, j) \in Outcomes
<1> DEFINE o == Order(ClassAt(x, i), ClassAt(y, j))
           tail == IF ClassAt(x, i) = 0 THEN "Equal"
                   ELSE Then(SegmentOrder(x, y, i, j), f[<<Beyond(x, i), Beyond(y, j)>>])
<1>1. CompareStep(x, y, f, i, j) = Then(o, tail)
  BY StepByClass
<1>2. ClassAt(x, i) \in 0..2 /\ ClassAt(y, j) \in 0..2
  BY SegmentIs
<1>3. o \in Outcomes /\ (o = "Equal" => ClassAt(x, i) = ClassAt(y, j))
  BY <1>2, OrderIsCoherent
<1>4. CASE ClassAt(x, i) = ClassAt(y, j) /\ ClassAt(x, i) # 0
  <2>1. Beyond(x, i) \in Positions(x) /\ Beyond(y, j) \in Positions(y)
    BY <1>4, SegmentIs
  <2>2. f[<<Beyond(x, i), Beyond(y, j)>>] \in Outcomes
    BY <2>1
  <2>3. SegmentOrder(x, y, i, j) \in Outcomes
    BY <1>4, SegmentsAreOrdered
  <2>4. tail \in Outcomes
    BY <1>4, <2>2, <2>3, ThenType
  <2> HIDE DEF o, tail
  <2> QED BY <1>1, <1>3, <2>4, ThenType
<1>5. CASE ClassAt(x, i) # ClassAt(y, j)
  <2> HIDE DEF o, tail
  <2> QED BY <1>1, <1>3, <1>5 DEF Then
<1>6. CASE ClassAt(x, i) = 0
  <2>1. tail \in Outcomes
    BY <1>6 DEF Outcomes
  <2> HIDE DEF o, tail
  <2> QED BY <1>1, <1>3, <2>1, ThenType
<1> QED BY <1>4, <1>5, <1>6

\* The recursion is well defined: it has a value at every two positions.
LEMMA ComparisonExists ==
    ASSUME NEW x \in Seq(Chars), NEW y \in Seq(Chars)
    PROVE  \E f \in [Positions(x) \X Positions(y) -> Outcomes] :
               StepsTo(x, y, f, Len(x) + 1)
<1> DEFINE Fn == [Positions(x) \X Positions(y) -> Outcomes]
           T == {n \in Nat : \E f \in Fn : StepsTo(x, y, f, n)}
<1>0. Len(x) \in Nat
  OBVIOUS
<1>1. 0 \in T
  <2>1. [at \in Positions(x) \X Positions(y) |-> "Equal"] \in Fn
    BY DEF Outcomes
  <2>2. \A f : StepsTo(x, y, f, 0)
    BY <1>0 DEF StepsTo, Positions
  <2> HIDE DEF Fn
  <2> QED BY <2>1, <2>2
<1>2. ASSUME NEW n \in T PROVE n + 1 \in T
  <2>0. n \in Nat
    OBVIOUS
  <2>1. PICK f \in Fn : StepsTo(x, y, f, n)
    OBVIOUS
  <2> HIDE DEF T
  <2> DEFINE g == [at \in Positions(x) \X Positions(y) |->
                      IF at[1] + n > Len(x) + 1 THEN f[at]
                      ELSE CompareStep(x, y, f, at[1], at[2])]
  <2>2. \A i \in Positions(x), j \in Positions(y) :
           g[<<i, j>>] = IF i + n > Len(x) + 1 THEN f[<<i, j>>] ELSE CompareStep(x, y, f, i, j)
    OBVIOUS
  <2>3. \A i \in Positions(x), j \in Positions(y) :
           f[<<i, j>>] \in Outcomes /\ CompareStep(x, y, f, i, j) \in Outcomes
    BY StepType
  <2>4. g \in Fn
    BY <2>3
  <2> HIDE DEF g
  <2>5. ASSUME NEW i \in Positions(x), NEW j \in Positions(y), i + (n + 1) > Len(x) + 1
        PROVE  g[<<i, j>>] = CompareStep(x, y, g, i, j)
    <3>1. \A a \in Positions(x), b \in Positions(y) : a > i => g[<<a, b>>] = f[<<a, b>>]
      <4>1. \A a \in Positions(x) : a > i => a + n > Len(x) + 1
        BY <1>0, <2>0, <2>5 DEF Positions
      <4> QED BY <2>2, <4>1
    <3>2. CompareStep(x, y, g, i, j) = CompareStep(x, y, f, i, j)
      BY <3>1, StepLooksAhead
    <3>3. g[<<i, j>>] = CompareStep(x, y, f, i, j)
      BY <2>1, <2>2 DEF StepsTo
    <3> QED BY <3>2, <3>3
  <2>6. StepsTo(x, y, g, n + 1)
    BY <2>5 DEF StepsTo
  <2> QED BY <2>0, <2>4, <2>6 DEF T
<1>3. T = Nat
  <2> HIDE DEF T
  <2>1. T \in SUBSET Nat
    BY DEF T
  <2> QED BY <1>1, <1>2, <2>1, Induction
<1>4. Len(x) + 1 \in T
  <2> HIDE DEF T
  <2> QED BY <1>0, <1>3
<1> QED BY <1>4

LEMMA ComparisonIs ==
    ASSUME NEW x \in Seq(Chars), NEW y \in Seq(Chars)
    PROVE  \A i \in Positions(x), j \in Positions(y) :
               /\ Comparison(x, y)[<<i, j>>] = CompareStep(x, y, Comparison(x, y), i, j)
               /\ Comparison(x, y)[<<i, j>>] \in Outcomes
<1>1. PICK f \in [Positions(x) \X Positions(y) -> Outcomes] : StepsTo(x, y, f, Len(x) + 1)
  BY ComparisonExists
<1>2. \A i \in Positions(x), j \in Positions(y) : f[<<i, j>>] = CompareStep(x, y, f, i, j)
  <2>1. \A i \in Positions(x) : i + (Len(x) + 1) > Len(x) + 1
    BY DEF Positions
  <2> QED BY <1>1, <2>1 DEF StepsTo
<1>3. f = [at \in Positions(x) \X Positions(y) |-> CompareStep(x, y, f, at[1], at[2])]
  BY <1>2
<1> DEFINE c == Comparison(x, y)
<1>4. c = [at \in Positions(x) \X Positions(y) |-> CompareStep(x, y, c, at[1], at[2])]
  BY <1>3 DEF Comparison
<1> HIDE DEF c
<1>5. \A i \in Positions(x), j \in Positions(y) : c[<<i, j>>] = CompareStep(x, y, c, i, j)
  BY <1>4
<1> DEFINE T == {n \in Nat : \A i \in Positions(x), j \in Positions(y) :
                                i + n > Len(x) + 1 => c[<<i, j>>] = f[<<i, j>>]}
<1>6. 0 \in T
  BY DEF Positions
<1>7. ASSUME NEW n \in T PROVE n + 1 \in T
  <2>0. n \in Nat /\ Len(x) \in Nat
    OBVIOUS
  <2>1. \A i \in Positions(x), j \in Positions(y) : i + n > Len(x) + 1 => c[<<i, j>>] = f[<<i, j>>]
    OBVIOUS
  <2> HIDE DEF T
  <2>2. ASSUME NEW i \in Positions(x), NEW j \in Positions(y), i + (n + 1) > Len(x) + 1
        PROVE  c[<<i, j>>] = f[<<i, j>>]
    <3>1. \A a \in Positions(x) : a > i => a + n > Len(x) + 1
      BY <2>0, <2>2 DEF Positions
    <3>2. \A a \in Positions(x), b \in Positions(y) : a > i => c[<<a, b>>] = f[<<a, b>>]
      BY <2>1, <3>1
    <3>3. CompareStep(x, y, c, i, j) = CompareStep(x, y, f, i, j)
      BY <3>2, StepLooksAhead
    <3> QED BY <1>2, <1>5, <3>3
  <2> QED BY <2>0, <2>2 DEF T
<1>8. T = Nat
  <2> HIDE DEF T
  <2>1. T \in SUBSET Nat
    BY DEF T
  <2> QED BY <1>6, <1>7, <2>1, Induction
<1>9. \A i \in Positions(x), j \in Positions(y) : c[<<i, j>>] = f[<<i, j>>]
  <2>1. Len(x) + 1 \in T
    <3>1. Len(x) \in Nat
      OBVIOUS
    <3> HIDE DEF T
    <3> QED BY <1>8, <3>1
  <2>2. \A i \in Positions(x) : i + (Len(x) + 1) > Len(x) + 1
    BY DEF Positions
  <2> QED BY <2>1, <2>2
<1>10. \A i \in Positions(x), j \in Positions(y) : c[<<i, j>>] \in Outcomes
  BY <1>9
<1> QED BY <1>5, <1>10 DEF c

LEMMA ComparisonIsOrdered ==
    ASSUME NEW x \in Seq(Chars), NEW y \in Seq(Chars), NEW z \in Seq(Chars)
    PROVE  \A i \in Positions(x), j \in Positions(y), k \in Positions(z) :
               /\ Comparison(y, x)[<<j, i>>] = Opposite(Comparison(x, y)[<<i, j>>])
               /\ Coherent(Comparison(x, y)[<<i, j>>], Comparison(y, z)[<<j, k>>],
                           Comparison(x, z)[<<i, k>>])
<1> DEFINE Ordered(i, j, k) ==
               /\ Comparison(y, x)[<<j, i>>] = Opposite(Comparison(x, y)[<<i, j>>])
               /\ Coherent(Comparison(x, y)[<<i, j>>], Comparison(y, z)[<<j, k>>],
                           Comparison(x, z)[<<i, k>>])
           T == {n \in Nat : \A i \in Positions(x), j \in Positions(y), k \in Positions(z) :
                                i + n > Len(x) + 1 => Ordered(i, j, k)}
<1>0. Len(x) \in Nat
  OBVIOUS
<1>1. 0 \in T
  BY DEF Positions
<1>2. ASSUME NEW n \in T PROVE n + 1 \in T
  <2>0. n \in Nat
    OBVIOUS
  <2>1. \A i \in Positions(x), j \in Positions(y), k \in Positions(z) :
           i + n > Len(x) + 1 => Ordered(i, j, k)
    OBVIOUS
  <2> HIDE DEF T
  <2>2. ASSUME NEW i \in Positions(x), NEW j \in Positions(y), NEW k \in Positions(z),
               i + (n + 1) > Len(x) + 1
        PROVE  Ordered(i, j, k)
    <3> DEFINE p == ClassAt(x, i)
               q == ClassAt(y, j)
               r == ClassAt(z, k)
               i1 == Beyond(x, i)
               j1 == Beyond(y, j)
               k1 == Beyond(z, k)
               Later(u, w, a, b) ==
                   IF ClassAt(u, a) = 0 THEN "Equal"
                   ELSE Then(SegmentOrder(u, w, a, b),
                             Comparison(u, w)[<<Beyond(u, a), Beyond(w, b)>>])
    <3>1. /\ Comparison(x, y)[<<i, j>>] = Then(Order(p, q), Later(x, y, i, j))
          /\ Comparison(y, x)[<<j, i>>] = Then(Order(q, p), Later(y, x, j, i))
          /\ Comparison(y, z)[<<j, k>>] = Then(Order(q, r), Later(y, z, j, k))
          /\ Comparison(x, z)[<<i, k>>] = Then(Order(p, r), Later(x, z, i, k))
      BY ComparisonIs, StepByClass
    <3>2. p \in 0..2 /\ q \in 0..2 /\ r \in 0..2
      BY SegmentIs
    <3>3. /\ Order(p, q) \in Outcomes /\ Order(q, r) \in Outcomes /\ Order(p, r) \in Outcomes
          /\ Order(q, p) = Opposite(Order(p, q))
          /\ Order(p, q) = "Equal" <=> p = q
          /\ Order(q, r) = "Equal" <=> q = r
          /\ Order(p, r) = "Equal" <=> p = r
          /\ Coherent(Order(p, q), Order(q, r), Order(p, r))
      BY <3>2, OrderIsCoherent
    <3>4. /\ p # 0 => i1 \in Positions(x) /\ i1 > i
          /\ q # 0 => j1 \in Positions(y)
          /\ r # 0 => k1 \in Positions(z)
      BY SegmentIs
    <3>5. ASSUME NEW u \in Seq(Chars), NEW w \in Seq(Chars), NEW a \in Positions(u),
                 NEW b \in Positions(w), ClassAt(u, a) = ClassAt(w, b)
          PROVE  Later(u, w, a, b) \in Outcomes
      <4>1. CASE ClassAt(u, a) = 0
        BY <4>1 DEF Outcomes
      <4>2. CASE ClassAt(u, a) # 0
        <5>1. Beyond(u, a) \in Positions(u) /\ Beyond(w, b) \in Positions(w)
          BY <3>5, <4>2, SegmentIs
        <5>2. Comparison(u, w)[<<Beyond(u, a), Beyond(w, b)>>] \in Outcomes
          BY <5>1, ComparisonIs
        <5>3. SegmentOrder(u, w, a, b) \in Outcomes
          BY <3>5, <4>2, SegmentsAreOrdered
        <5> QED BY <4>2, <5>2, <5>3, ThenType
      <4> QED BY <4>1, <4>2
    <3>6. ASSUME p = q
          PROVE  Later(y, x, j, i) = Opposite(Later(x, y, i, j))
      <4>1. CASE p = 0
        BY <3>6, <4>1 DEF Opposite
      <4>2. CASE p # 0
        <5>1. i1 \in Positions(x) /\ j1 \in Positions(y) /\ i1 + n > Len(x) + 1
          <6>1. i1 \in Positions(x) /\ i1 > i /\ j1 \in Positions(y)
            BY <3>4, <3>6, <4>2
          <6> HIDE DEF i1
          <6> QED BY <1>0, <2>0, <2>2, <6>1 DEF Positions
        <5>2. Comparison(y, x)[<<j1, i1>>] = Opposite(Comparison(x, y)[<<i1, j1>>])
          <6>1. 1 \in Positions(z)
            BY DEF Positions
          <6>2. Ordered(i1, j1, 1)
            BY <2>1, <5>1, <6>1
          <6> QED BY <6>2
        <5>3. /\ SegmentOrder(y, x, j, i) = Opposite(SegmentOrder(x, y, i, j))
              /\ SegmentOrder(x, y, i, j) \in Outcomes
          BY <3>6, <4>2, SegmentsAreOrdered
        <5>4. Comparison(x, y)[<<i1, j1>>] \in Outcomes
          BY <5>1, ComparisonIs
        <5> QED BY <3>6, <4>2, <5>2, <5>3, <5>4, ThenOpposite
      <4> QED BY <4>1, <4>2
    <3>7. ASSUME p = q, q = r
          PROVE  Coherent(Later(x, y, i, j), Later(y, z, j, k), Later(x, z, i, k))
      <4>1. CASE p = 0
        BY <3>7, <4>1 DEF Coherent
      <4>2. CASE p # 0
        <5>1. /\ i1 \in Positions(x) /\ j1 \in Positions(y) /\ k1 \in Positions(z)
              /\ i1 + n > Len(x) + 1
          <6>1. i1 \in Positions(x) /\ i1 > i /\ j1 \in Positions(y) /\ k1 \in Positions(z)
            BY <3>4, <3>7, <4>2
          <6> HIDE DEF i1
          <6> QED BY <1>0, <2>0, <2>2, <6>1 DEF Positions
        <5>2. Coherent(Comparison(x, y)[<<i1, j1>>], Comparison(y, z)[<<j1, k1>>],
                       Comparison(x, z)[<<i1, k1>>])
          <6>1. Ordered(i1, j1, k1)
            BY <2>1, <5>1
          <6> QED BY <6>1
        <5>3. /\ SegmentOrder(x, y, i, j) \in Outcomes /\ SegmentOrder(y, z, j, k) \in Outcomes
              /\ SegmentOrder(x, z, i, k) \in Outcomes
              /\ Coherent(SegmentOrder(x, y, i, j), SegmentOrder(y, z, j, k),
                          SegmentOrder(x, z, i, k))
          BY <3>7, <4>2, SegmentsAreOrdered
        <5>4. /\ Comparison(x, y)[<<i1, j1>>] \in Outcomes
              /\ Comparison(y, z)[<<j1, k1>>] \in Outcomes
              /\ Comparison(x, z)[<<i1, k1>>] \in Outcomes
          BY <5>1, ComparisonIs
        <5> QED BY <3>7, <4>2, <5>2, <5>3, <5>4, ThenCoherent
      <4> QED BY <4>1, <4>2
    <3>8. Comparison(y, x)[<<j, i>>] = Opposite(Comparison(x, y)[<<i, j>>])
      <4>1. CASE p = q
        <5>1. Later(x, y, i, j) \in Outcomes
          BY <3>5, <4>1
        <5> HIDE DEF p, q, Later
        <5> QED BY <3>1, <3>3, <3>6, <4>1, <5>1, ThenOpposite
      <4>2. CASE p # q
        <5> HIDE DEF p, q, Later
        <5> QED BY <3>1, <3>3, <4>2 DEF Then, Opposite, Outcomes
      <4> QED BY <4>1, <4>2
    <3>9. Coherent(Comparison(x, y)[<<i, j>>], Comparison(y, z)[<<j, k>>],
                   Comparison(x, z)[<<i, k>>])
      <4>1. /\ p = q => Later(x, y, i, j) \in Outcomes
            /\ q = r => Later(y, z, j, k) \in Outcomes
            /\ p = r => Later(x, z, i, k) \in Outcomes
        BY <3>5
      <4> HIDE DEF p, q, r, Later
      <4>2. CASE p = q /\ q = r
        BY <3>1, <3>3, <3>7, <4>1, <4>2, ThenCoherent
      <4>3. CASE p = q /\ q # r
        BY <3>1, <3>3, <4>3 DEF Then, Coherent
      <4>4. CASE p # q /\ q = r
        BY <3>1, <3>3, <4>4 DEF Then, Coherent
      <4>5. CASE p # q /\ q # r
        BY <3>1, <3>3, <4>5 DEF Then, Coherent
      <4> QED BY <4>2, <4>3, <4>4, <4>5
    <3> QED BY <3>8, <3>9
  <2> QED BY <2>0, <2>2 DEF T
<1>3. T = Nat
  <2> HIDE DEF T
  <2>1. T \in SUBSET Nat
    BY DEF T
  <2> QED BY <1>1, <1>2, <2>1, Induction
<1>4. Len(x) + 1 \in T
  <2> HIDE DEF T
  <2> QED BY <1>0, <1>3
<1>5. \A i \in Positions(x) : i + (Len(x) + 1) > Len(x) + 1
  BY DEF Positions
<1> QED BY <1>4, <1>5

-----------------------------------------------------------------------------
(* Versions                                                                *)

LEMMA ParseType ==
    ASSUME NEW s \in Seq(Chars)
    PROVE  /\ Parse(s).epoch \in Nat /\ Parse(s).release \in Nat
           /\ Parse(s).version \in Seq(Chars)
<1> DEFINE colons == {i \in DOMAIN s : s[i] = ":"}
           colon == CHOOSE i \in colons : \A j \in colons : i <= j
           tail == IF colons = {} THEN s ELSE SubSeq(s, colon + 1, Len(s))
           hyphens == {i \in DOMAIN tail : tail[i] = "-"}
           hyphen == CHOOSE i \in hyphens : \A j \in hyphens : i >= j
<1>1. Parse(s) =
         [epoch |-> IF colons = {} THEN 0 ELSE Number(SubSeq(s, 1, colon - 1), U32Max),
          version |-> IF hyphens = {} THEN tail ELSE SubSeq(tail, 1, hyphen - 1),
          release |-> IF hyphens = {} THEN 0
                      ELSE Number(SubSeq(tail, hyphen + 1, Len(tail)), U32Max)]
  BY DEF Parse
<1>2. \A t \in Seq(Chars) : \A m, n \in Int :
         1 <= m /\ n <= Len(t) => SubSeq(t, m, n) \in Seq(Chars)
  OBVIOUS
<1>3. colons # {} => colon \in 1..Len(s)
  <2>1. SUFFICES ASSUME colons # {} PROVE colon \in colons
    OBVIOUS
  <2>2. colons \in SUBSET Nat
    OBVIOUS
  <2>3. \E i \in colons : \A j \in colons : i <= j
    <3> HIDE DEF colons
    <3> QED BY <2>1, <2>2, LeastNumber
  <2> QED BY <2>3
<1> HIDE DEF colons, colon
<1>4. Len(s) \in Nat
  OBVIOUS
<1>5. tail \in Seq(Chars)
  BY <1>2, <1>3, <1>4
<1> HIDE DEF tail
<1>6. Len(tail) \in Nat
  BY <1>5
<1>7. hyphens # {} => hyphen \in 1..Len(tail)
  <2>1. SUFFICES ASSUME hyphens # {} PROVE hyphen \in hyphens
    BY <1>5
  <2> DEFINE behind == {n \in Nat : \E i \in hyphens : n = Len(tail) - i}
  <2>2. hyphens \subseteq 1..Len(tail)
    BY <1>5
  <2>3. \E i \in hyphens : \A j \in hyphens : i >= j
    <3> HIDE DEF hyphens
    <3>1. behind \in SUBSET Nat /\ behind # {}
      <4>1. PICK i \in hyphens : TRUE
        BY <2>1
      <4>2. i \in 1..Len(tail)
        BY <2>2
      <4>3. Len(tail) - i \in Nat
        BY <1>6, <4>2
      <4> QED BY <4>3
    <3>2. PICK m \in behind : \A n \in behind : m <= n
      <4> HIDE DEF behind
      <4> QED BY <3>1, LeastNumber
    <3>3. PICK i \in hyphens : m = Len(tail) - i
      BY <3>2
    <3>4. ASSUME NEW j \in hyphens PROVE i >= j
      <4>1. Len(tail) - j \in behind
        BY <1>6, <2>2
      <4>2. Len(tail) - i <= Len(tail) - j
        BY <3>2, <3>3, <4>1
      <4>3. i \in Int /\ j \in Int
        BY <2>2
      <4> HIDE DEF behind
      <4> QED BY <1>6, <4>2, <4>3
    <3> QED BY <3>4
  <2> QED BY <2>3
<1> HIDE DEF hyphens, hyphen
<1>8. Parse(s).epoch \in Nat
  <2>1. colons # {} => SubSeq(s, 1, colon - 1) \in Seq(Chars)
    BY <1>2, <1>3, <1>4
  <2>2. Parse(s).epoch = IF colons = {} THEN 0 ELSE Number(SubSeq(s, 1, colon - 1), U32Max)
    BY <1>1
  <2>3. colons # {} => Number(SubSeq(s, 1, colon - 1), U32Max) \in Nat
    BY <2>1, NumberType, WidthAssumption
  <2> QED BY <2>2, <2>3
<1>9. Parse(s).version \in Seq(Chars)
  BY <1>1, <1>2, <1>5, <1>6, <1>7
<1>10. Parse(s).release \in Nat
  <2>1. hyphens # {} => SubSeq(tail, hyphen + 1, Len(tail)) \in Seq(Chars)
    BY <1>2, <1>5, <1>6, <1>7
  <2>2. Parse(s).release = IF hyphens = {} THEN 0
                           ELSE Number(SubSeq(tail, hyphen + 1, Len(tail)), U32Max)
    BY <1>1
  <2>3. hyphens # {} => Number(SubSeq(tail, hyphen + 1, Len(tail)), U32Max) \in Nat
    BY <2>1, NumberType, WidthAssumption
  <2> QED BY <2>2, <2>3
<1> QED BY <1>8, <1>9, <1>10

LEMMA CompareIsOrdered ==
    ASSUME NEW s \in Seq(Chars), NEW t \in Seq(Chars), NEW u \in Seq(Chars)
    PROVE  /\ Compare(s, t) \in Outcomes
           /\ Compare(t, s) = Opposite(Compare(s, t))
           /\ Coherent(Compare(s, t), Compare(t, u), Compare(s, u))
<1> DEFINE V(a) == Parse(a).version
           E(a, b) == Order(Parse(a).epoch, Parse(b).epoch)
           C(a, b) == CompareVersionStrings(V(a), V(b))
           R(a, b) == Order(Parse(a).release, Parse(b).release)
<1>1. \A a, b : Compare(a, b) = Then(E(a, b), Then(C(a, b), R(a, b)))
  BY DEF Compare
<1>2. /\ E(s, t) \in Outcomes /\ E(t, u) \in Outcomes /\ E(s, u) \in Outcomes
      /\ E(t, s) = Opposite(E(s, t))
      /\ Coherent(E(s, t), E(t, u), E(s, u))
  BY ParseType, OrderIsCoherent
<1>3. /\ R(s, t) \in Outcomes /\ R(t, u) \in Outcomes /\ R(s, u) \in Outcomes
      /\ R(t, s) = Opposite(R(s, t))
      /\ Coherent(R(s, t), R(t, u), R(s, u))
  BY ParseType, OrderIsCoherent
<1>4. /\ C(s, t) \in Outcomes /\ C(t, u) \in Outcomes /\ C(s, u) \in Outcomes
      /\ C(t, s) = Opposite(C(s, t))
      /\ Coherent(C(s, t), C(t, u), C(s, u))
  <2>1. V(s) \in Seq(Chars) /\ V(t) \in Seq(Chars) /\ V(u) \in Seq(Chars)
    BY ParseType
  <2> HIDE DEF V
  <2>2. 1 \in Positions(V(s)) /\ 1 \in Positions(V(t)) /\ 1 \in Positions(V(u))
    BY <2>1 DEF Positions
  <2>3. \A a, b : C(a, b) = Comparison(V(a), V(b))[<<1, 1>>]
    BY CompareIsComparison
  <2> HIDE DEF C
  <2>4. \A a, b \in {s, t, u} : Comparison(V(a), V(b))[<<1, 1>>] \in Outcomes
    BY <2>1, <2>2, ComparisonIs
  <2>5. /\ Comparison(V(t), V(s))[<<1, 1>>] = Opposite(Comparison(V(s), V(t))[<<1, 1>>])
        /\ Coherent(Comparison(V(s), V(t))[<<1, 1>>], Comparison(V(t), V(u))[<<1, 1>>],
                    Comparison(V(s), V(u))[<<1, 1>>])
    BY <2>1, <2>2, ComparisonIsOrdered
  <2> QED BY <2>3, <2>4, <2>5
<1> HIDE DEF E, C, R
<1>5. /\ Then(C(s, t), R(s, t)) \in Outcomes /\ Then(C(t, u), R(t, u)) \in Outcomes
      /\ Then(C(s, u), R(s, u)) \in Outcomes
      /\ Then(C(t, s), R(t, s)) = Opposite(Then(C(s, t), R(s, t)))
      /\ Coherent(Then(C(s, t), R(s, t)), Then(C(t, u), R(t, u)), Then(C(s, u), R(s, u)))
  BY <1>3, <1>4, ThenType, ThenOpposite, ThenCoherent
<1> QED BY <1>1, <1>2, <1>5, ThenType, ThenOpposite, ThenCoherent

-----------------------------------------------------------------------------
(* Ordinary versions compare segment by segment                            *)

Words == Seq(Seq(Chars))

\* What ReferenceOrder does with the segments of two versions.
ListOrder(x, y) ==
    LET differ == {i \in DOMAIN x \cap DOMAIN y : OrderOfSegments(x[i], y[i]) # "Equal"}
        k == CHOOSE i \in differ : \A j \in differ : i <= j
    IN  IF differ = {} THEN Order(Len(x), Len(y)) ELSE OrderOfSegments(x[k], y[k])

LEMMA ReferenceIsListOrder ==
    ASSUME NEW s, NEW t
    PROVE  ReferenceOrder(s, t) = ListOrder(Segments(s), Segments(t))
BY DEF ReferenceOrder, ListOrder

LEMMA ListOrderOfEmpty ==
    ASSUME NEW x \in Words, NEW y \in Words, x = <<>> \/ y = <<>>
    PROVE  ListOrder(x, y) = Order(IF x = <<>> THEN 0 ELSE 1, IF y = <<>> THEN 0 ELSE 1)
<1>1. DOMAIN x \cap DOMAIN y = {}
  <2>1. DOMAIN <<>> = {}
    OBVIOUS
  <2> QED BY <2>1
<1>2. ListOrder(x, y) = Order(Len(x), Len(y))
  BY <1>1 DEF ListOrder
<1>3. \A u \in Words : Len(u) \in Nat /\ (u = <<>> <=> Len(u) = 0)
  BY DEF Words
<1>4. \A m, n \in Nat : m = 0 \/ n = 0 =>
         Order(m, n) = Order(IF m = 0 THEN 0 ELSE 1, IF n = 0 THEN 0 ELSE 1)
  BY DEF Order
<1> QED BY <1>2, <1>3, <1>4

\* One more segment in front.
LEMMA PrependWord ==
    ASSUME NEW a \in Seq(Chars), NEW x \in Words
    PROVE  /\ <<a>> \o x \in Words
           /\ Len(<<a>> \o x) = Len(x) + 1
           /\ (<<a>> \o x)[1] = a
           /\ \A i \in 1..Len(x) : (<<a>> \o x)[i + 1] = x[i]
           /\ <<a>> \o x # <<>>
           /\ Len(x) \in Nat
<1>1. <<a>> \in Words /\ Len(<<a>>) = 1 /\ <<a>>[1] = a /\ Len(x) \in Nat
  BY DEF Words
<1>2. \A S : \A u, w \in Seq(S) :
         /\ u \o w \in Seq(S) /\ Len(u \o w) = Len(u) + Len(w)
         /\ \A i \in 1..(Len(u) + Len(w)) :
               (u \o w)[i] = IF i <= Len(u) THEN u[i] ELSE w[i - Len(u)]
  BY ConcatProperties
<1>3. /\ <<a>> \o x \in Words /\ Len(<<a>> \o x) = 1 + Len(x)
      /\ \A i \in 1..(1 + Len(x)) : (<<a>> \o x)[i] = IF i <= 1 THEN <<a>>[i] ELSE x[i - 1]
  BY <1>1, <1>2 DEF Words
<1>4. (<<a>> \o x)[1] = a /\ \A i \in 1..Len(x) : (<<a>> \o x)[i + 1] = x[i]
  <2> HIDE DEF Words
  <2> DEFINE l == Len(x)
             c == <<a>> \o x
  <2>1. l \in Nat /\ \A i \in 1..(1 + l) : c[i] = IF i <= 1 THEN <<a>>[i] ELSE x[i - 1]
    BY <1>1, <1>3
  <2>2. <<a>>[1] = a
    OBVIOUS
  <2> HIDE DEF l, c
  <2>3. c[1] = a
    BY <2>1, <2>2
  <2>4. \A i \in 1..l : c[i + 1] = x[i]
    BY <2>1
  <2> QED BY <2>3, <2>4 DEF l, c
<1>5. <<a>> \o x # <<>>
  <2>1. Len(<<a>> \o x) > 0
    BY <1>1, <1>3
  <2> QED BY <2>1
<1> QED BY <1>1, <1>3, <1>4, <1>5

LEMMA ListOrderOfFirst ==
    ASSUME NEW a \in Seq(Chars), NEW b \in Seq(Chars), NEW x \in Words, NEW y \in Words
    PROVE  ListOrder(<<a>> \o x, <<b>> \o y) = Then(OrderOfSegments(a, b), ListOrder(x, y))
<1> DEFINE u == <<a>> \o x
           w == <<b>> \o y
<1>1. /\ u \in Words /\ Len(u) = Len(x) + 1 /\ u[1] = a /\ Len(x) \in Nat
      /\ \A i \in 1..Len(x) : u[i + 1] = x[i]
  BY PrependWord
<1>2. /\ w \in Words /\ Len(w) = Len(y) + 1 /\ w[1] = b /\ Len(y) \in Nat
      /\ \A i \in 1..Len(y) : w[i + 1] = y[i]
  BY PrependWord
<1> HIDE DEF u, w
<1>3. /\ DOMAIN u = 1..(Len(x) + 1) /\ DOMAIN w = 1..(Len(y) + 1)
      /\ DOMAIN x = 1..Len(x) /\ DOMAIN y = 1..Len(y)
  BY <1>1, <1>2 DEF Words
<1> DEFINE D(f, g) == {i \in DOMAIN f \cap DOMAIN g : OrderOfSegments(f[i], g[i]) # "Equal"}
           K(f, g) == CHOOSE i \in D(f, g) : \A j \in D(f, g) : i <= j
<1>4. \A f, g : ListOrder(f, g) = IF D(f, g) = {} THEN Order(Len(f), Len(g))
                                  ELSE OrderOfSegments(f[K(f, g)], g[K(f, g)])
  BY DEF ListOrder
<1>5. \A i \in Int : i \in D(u, w) <=>
         \/ i = 1 /\ OrderOfSegments(a, b) # "Equal"
         \/ i - 1 \in D(x, y)
  <2>1. SUFFICES ASSUME NEW i \in Int
                 PROVE  i \in D(u, w) <=> \/ i = 1 /\ OrderOfSegments(a, b) # "Equal"
                                          \/ i - 1 \in D(x, y)
    OBVIOUS
  <2>2. CASE i = 1
    BY <1>1, <1>2, <1>3, <2>2
  <2>3. CASE i # 1
    <3>1. i \in DOMAIN u \cap DOMAIN w <=> i - 1 \in DOMAIN x \cap DOMAIN y
      BY <1>1, <1>2, <1>3, <2>3
    <3>2. i - 1 \in DOMAIN x \cap DOMAIN y => u[i] = x[i - 1] /\ w[i] = y[i - 1]
      <4> SUFFICES ASSUME i - 1 \in DOMAIN x \cap DOMAIN y
                   PROVE  u[i] = x[i - 1] /\ w[i] = y[i - 1]
        OBVIOUS
      <4>1. u[(i - 1) + 1] = x[i - 1] /\ w[(i - 1) + 1] = y[i - 1]
        BY <1>1, <1>2, <1>3
      <4>2. (i - 1) + 1 = i
        OBVIOUS
      <4> QED BY <4>1, <4>2
    <3> QED BY <2>3, <3>1, <3>2
  <2> QED BY <2>2, <2>3
<1>6. D(u, w) \in SUBSET Int /\ D(x, y) \in SUBSET (Nat \ {0})
  BY <1>1, <1>2, <1>3
<1> HIDE DEF D
<1>7. CASE OrderOfSegments(a, b) # "Equal"
  <2>1. 1 \in D(u, w) /\ \A j \in D(u, w) : 1 <= j
    BY <1>5, <1>6, <1>7
  <2>2. K(u, w) = 1
    BY <1>6, <2>1
  <2> HIDE DEF K
  <2> QED BY <1>1, <1>2, <1>4, <1>7, <2>1, <2>2 DEF Then, u, w
<1>8. CASE OrderOfSegments(a, b) = "Equal" /\ D(x, y) = {}
  <2>1. D(u, w) = {}
    BY <1>5, <1>6, <1>8
  <2>2. Order(Len(x) + 1, Len(y) + 1) = Order(Len(x), Len(y))
    BY <1>1, <1>2 DEF Order
  <2> HIDE DEF K
  <2> QED BY <1>1, <1>2, <1>4, <1>8, <2>1, <2>2 DEF Then, u, w
<1>9. CASE OrderOfSegments(a, b) = "Equal" /\ D(x, y) # {}
  <2>1. PICK m \in D(x, y) : \A n \in D(x, y) : m <= n
    <3>1. D(x, y) \in SUBSET Nat
      BY <1>6
    <3> QED BY <1>9, <3>1, LeastNumber
  <2>2. K(x, y) = m
    BY <1>6, <2>1
  <2>3. m \in Nat \ {0} /\ m + 1 \in Int /\ (m + 1) - 1 = m
    BY <1>6
  <2>4. m + 1 \in D(u, w)
    BY <1>5, <2>3
  <2>5. \A j \in D(u, w) : m + 1 <= j
    <3>1. TAKE j \in D(u, w)
    <3>2. j \in Int /\ j - 1 \in D(x, y)
      BY <1>5, <1>6, <1>9
    <3> QED BY <2>1, <2>3, <3>2
  <2>6. K(u, w) = m + 1
    BY <1>6, <2>3, <2>4, <2>5
  <2>7. u[m + 1] = x[m] /\ w[m + 1] = y[m]
    BY <1>1, <1>2, <1>3, <2>1 DEF D
  <2>8. ListOrder(u, w) = OrderOfSegments(u[m + 1], w[m + 1])
    BY <1>4, <2>4, <2>6
  <2>9. ListOrder(x, y) = OrderOfSegments(x[m], y[m])
    BY <1>4, <2>1, <2>2
  <2> HIDE DEF K
  <2> QED BY <1>9, <2>7, <2>8, <2>9 DEF Then, u, w
<1> QED BY <1>7, <1>8, <1>9

\* The segments from a position on.
SegmentStep(s, from, i) ==
    IF i > Len(s) THEN <<>>
    ELSE IF i \in Starts(s) THEN <<Run(s, i, Kind(s[i]))>> \o from[i + 1]
    ELSE from[i + 1]

SegmentsFrom(s) == CHOOSE from : from = [i \in Positions(s) |-> SegmentStep(s, from, i)]

LEMMA SegmentsAreFromStart ==
    ASSUME NEW s
    PROVE  Segments(s) = SegmentsFrom(s)[1]
BY DEF Segments, SegmentsFrom, SegmentStep, Positions

LEMMA StartIs ==
    ASSUME NEW s \in Seq(Chars), NEW i \in Starts(s)
    PROVE  Run(s, i, Kind(s[i])) \in Seq(Chars)
<1>1. i \in 1..Len(s) /\ i \in 1..(Len(s) + 1)
  BY DEF Starts
<1>2. Kind(s[i]) \in SUBSET Chars
  BY KindsApart DEF Kind
<1>3. Run(s, i, Kind(s[i])) \in Seq(Kind(s[i]))
  BY <1>1, <1>2, RunType
<1> QED BY <1>2, <1>3

LEMMA SegmentStepType ==
    ASSUME NEW s \in Seq(Chars), NEW from, NEW i \in Positions(s),
           i <= Len(s) => from[i + 1] \in Words
    PROVE  SegmentStep(s, from, i) \in Words
<1>0. Len(s) \in Nat /\ i \in Nat
  BY DEF Positions
<1>1. CASE i > Len(s)
  <2>1. <<>> \in Words
    BY DEF Words
  <2> QED BY <1>1, <2>1 DEF SegmentStep
<1>2. CASE ~(i > Len(s)) /\ i \in Starts(s)
  <2>1. Run(s, i, Kind(s[i])) \in Seq(Chars) /\ from[i + 1] \in Words
    BY <1>0, <1>2, StartIs
  <2>2. SegmentStep(s, from, i) = <<Run(s, i, Kind(s[i]))>> \o from[i + 1]
    BY <1>2 DEF SegmentStep
  <2> QED BY <2>1, <2>2, PrependWord
<1>3. CASE ~(i > Len(s)) /\ i \notin Starts(s)
  BY <1>0, <1>3 DEF SegmentStep
<1> QED BY <1>1, <1>2, <1>3

LEMMA SegmentsFromIs ==
    ASSUME NEW s \in Seq(Chars)
    PROVE  \A i \in Positions(s) :
               /\ SegmentsFrom(s)[i] = SegmentStep(s, SegmentsFrom(s), i)
               /\ SegmentsFrom(s)[i] \in Words
<1> DEFINE Fn == [Positions(s) -> Words]
           To(f, n) == \A i \in Positions(s) : i + n > Len(s) + 1 => f[i] = SegmentStep(s, f, i)
           T == {n \in Nat : \E f \in Fn : To(f, n)}
<1>0. Len(s) \in Nat
  OBVIOUS
<1>a. \A f, g : \A i \in Positions(s) :
         (i <= Len(s) => f[i + 1] = g[i + 1]) => SegmentStep(s, f, i) = SegmentStep(s, g, i)
  <2>1. \A i \in Positions(s) : i > Len(s) \/ i <= Len(s)
    BY <1>0 DEF Positions
  <2> QED BY <2>1 DEF SegmentStep
<1>1. 0 \in T
  <2>1. [i \in Positions(s) |-> <<>>] \in Fn
    BY DEF Words
  <2>2. \A f : To(f, 0)
    BY <1>0 DEF Positions
  <2> HIDE DEF Fn, To
  <2> QED BY <2>1, <2>2
<1>2. ASSUME NEW n \in T PROVE n + 1 \in T
  <2>0. n \in Nat
    OBVIOUS
  <2>1. PICK f \in Fn : To(f, n)
    OBVIOUS
  <2> HIDE DEF T
  <2> DEFINE g == [i \in Positions(s) |-> IF i + n > Len(s) + 1 THEN f[i] ELSE SegmentStep(s, f, i)]
  <2>2. \A i \in Positions(s) : i <= Len(s) => i + 1 \in Positions(s)
    BY <1>0 DEF Positions
  <2>3. \A i \in Positions(s) : f[i] \in Words /\ SegmentStep(s, f, i) \in Words
    BY <2>2, SegmentStepType
  <2>4. g \in Fn
    BY <2>3
  <2>5. \A i \in Positions(s) : g[i] = IF i + n > Len(s) + 1 THEN f[i] ELSE SegmentStep(s, f, i)
    OBVIOUS
  <2> HIDE DEF g
  <2>6. ASSUME NEW i \in Positions(s), i + (n + 1) > Len(s) + 1
        PROVE  g[i] = SegmentStep(s, g, i)
    <3>1. i <= Len(s) => g[i + 1] = f[i + 1]
      <4> SUFFICES ASSUME i <= Len(s) PROVE g[i + 1] = f[i + 1]
        OBVIOUS
      <4>1. i + 1 \in Positions(s) /\ (i + 1) + n > Len(s) + 1
        BY <1>0, <2>0, <2>2, <2>6 DEF Positions
      <4> QED BY <2>5, <4>1
    <3>2. SegmentStep(s, g, i) = SegmentStep(s, f, i)
      BY <1>a, <3>1
    <3>3. g[i] = SegmentStep(s, f, i)
      BY <2>1, <2>5
    <3> QED BY <3>2, <3>3
  <2> QED BY <2>0, <2>4, <2>6 DEF T
<1>3. T = Nat
  <2> HIDE DEF T
  <2>1. T \in SUBSET Nat
    BY DEF T
  <2> QED BY <1>1, <1>2, <2>1, Induction
<1>4. Len(s) + 1 \in T
  <2> HIDE DEF T
  <2> QED BY <1>0, <1>3
<1>5. PICK f \in Fn : To(f, Len(s) + 1)
  BY <1>4
<1>6. f = [i \in Positions(s) |-> SegmentStep(s, f, i)]
  <2>1. \A i \in Positions(s) : i + (Len(s) + 1) > Len(s) + 1
    BY <1>0 DEF Positions
  <2> QED BY <1>5, <2>1
<1> DEFINE c == SegmentsFrom(s)
<1>7. c = [i \in Positions(s) |-> SegmentStep(s, c, i)]
  BY <1>6 DEF SegmentsFrom
<1> HIDE DEF c
<1>8. \A i \in Positions(s) : c[i] = SegmentStep(s, c, i)
  BY <1>7
<1> HIDE DEF T
<1> DEFINE U == {n \in Nat : \A i \in Positions(s) : i + n > Len(s) + 1 => c[i] \in Words}
<1>9. 0 \in U
  BY <1>0 DEF Positions
<1>10. ASSUME NEW n \in U PROVE n + 1 \in U
  <2>0. n \in Nat /\ \A i \in Positions(s) : i + n > Len(s) + 1 => c[i] \in Words
    OBVIOUS
  <2> HIDE DEF U
  <2>1. ASSUME NEW i \in Positions(s), i + (n + 1) > Len(s) + 1 PROVE c[i] \in Words
    <3>1. i <= Len(s) => i + 1 \in Positions(s) /\ (i + 1) + n > Len(s) + 1
      BY <1>0, <2>0, <2>1 DEF Positions
    <3>2. i <= Len(s) => c[i + 1] \in Words
      BY <2>0, <3>1
    <3> QED BY <1>8, <3>2, SegmentStepType
  <2> QED BY <2>0, <2>1 DEF U
<1>11. U = Nat
  <2> HIDE DEF U
  <2>1. U \in SUBSET Nat
    BY DEF U
  <2> QED BY <1>9, <1>10, <2>1, Induction
<1>12. Len(s) + 1 \in U
  <2> HIDE DEF U
  <2> QED BY <1>0, <1>11
<1>13. \A i \in Positions(s) : i + (Len(s) + 1) > Len(s) + 1
  BY <1>0 DEF Positions
<1> QED BY <1>8, <1>12, <1>13 DEF c

\* Where no segment starts, none is added.
LEMMA NoStart ==
    ASSUME NEW s \in Seq(Chars), NEW i \in Positions(s), NEW m \in Positions(s), i <= m,
           \A k \in i..(m - 1) : k \notin Starts(s)
    PROVE  SegmentsFrom(s)[i] = SegmentsFrom(s)[m]
<1> DEFINE c == SegmentsFrom(s)
           T == {n \in Nat : i + n <= m => c[i] = c[i + n]}
<1>0. Len(s) \in Nat /\ i \in Nat \ {0} /\ m \in 1..(Len(s) + 1)
  BY DEF Positions
<1>1. 0 \in T
  BY <1>0
<1>2. ASSUME NEW n \in T PROVE n + 1 \in T
  <2>0. n \in Nat /\ (i + n <= m => c[i] = c[i + n])
    OBVIOUS
  <2> HIDE DEF T
  <2>1. ASSUME i + (n + 1) <= m PROVE c[i] = c[i + (n + 1)]
    <3>1. /\ i + n <= m /\ i + n \in i..(m - 1) /\ i + n \in Positions(s) /\ ~(i + n > Len(s))
          /\ (i + n) + 1 = i + (n + 1)
      BY <1>0, <2>0, <2>1 DEF Positions
    <3>2. c[i + n] = SegmentStep(s, c, i + n)
      BY <3>1, SegmentsFromIs
    <3>3. c[i + n] = c[(i + n) + 1]
      BY <3>1, <3>2 DEF SegmentStep
    <3> QED BY <2>0, <3>1, <3>3
  <2>2. i + (n + 1) <= m => c[i] = c[i + (n + 1)]
    BY <2>1
  <2>3. n + 1 \in Nat
    BY <2>0
  <2> QED BY <2>2, <2>3 DEF T
<1>3. T = Nat
  <2> HIDE DEF T
  <2>1. T \in SUBSET Nat
    BY DEF T
  <2> QED BY <1>1, <1>2, <2>1, Induction
<1>4. m - i \in T /\ i + (m - i) = m
  <2>1. m - i \in Nat
    BY <1>0
  <2> HIDE DEF T
  <2> QED BY <1>0, <1>3, <2>1
<1> HIDE DEF c
<1> QED BY <1>0, <1>4 DEF c

\* A position that a comparison gets to in an ordinary version: nothing of a segment
\* lies directly before it.
Clean(s, i) == i = 1 \/ i > Len(s) \/ s[i - 1] \in Separators

LEMMA SameKindIs ==
    ASSUME NEW c \in Chars, NEW d \in Chars
    PROVE  /\ c \in Separators => ~SameKind(c, d) /\ ~SameKind(d, c)
           /\ c \in Alphanumeric => c \in Kind(c) /\ Kind(c) \subseteq Alphanumeric
           /\ c \in Alphanumeric /\ SameKind(c, d) => d \in Kind(c)
           /\ c \in Alphanumeric /\ d \in Kind(c) => SameKind(c, d)
           /\ c \notin Separators <=> c \in Alphanumeric
BY KindsApart DEF SameKind, Kind, Alphanumeric

LEMMA OrdinarySegments ==
    ASSUME NEW s \in Seq(Chars), Ordinary(s), NEW i \in Positions(s), Clean(s, i)
    PROVE  /\ ClassAt(s, i) = 0 => SegmentsFrom(s)[i] = <<>>
           /\ ClassAt(s, i) # 0 =>
                 /\ SegmentsFrom(s)[i] = <<Segment(s, i)>> \o SegmentsFrom(s)[Beyond(s, i)]
                 /\ Clean(s, Beyond(s, i))
                 /\ Segment(s, i) # <<>>
                 /\ Segment(s, i)[1] \in (IF ClassAt(s, i) = 2 THEN Digits ELSE Letters)
                 /\ \A k \in DOMAIN Segment(s, i) :
                       Segment(s, i)[k] \in (IF ClassAt(s, i) = 2 THEN Digits ELSE Letters)
                 /\ Segment(s, i) \in Seq(Chars)
<1> DEFINE m == Ahead(s, i)
           c == SegmentsFrom(s)
<1>0. Len(s) \in Nat /\ i \in Nat \ {0} /\ i <= Len(s) + 1
  BY DEF Positions
<1>1. /\ m \in i..(Len(s) + 1) /\ (m <= Len(s) => s[m] \notin Separators)
      /\ \A k \in i..(m - 1) : s[k] \in Separators
  BY RunEndIs DEF Positions, Ahead
<1>2. ClassAt(s, i) = Class(s, m)
  BY DEF ClassAt
<1>3. Segment(s, i) = Run(s, m, KindAt(s, m)) /\ Beyond(s, i) = Behind(s, m, KindAt(s, m))
  BY DEF Segment, Beyond
<1> HIDE DEF m
<1>4. m \in Positions(s) /\ m \in Nat \ {0} /\ i <= m
  BY <1>0, <1>1 DEF Positions
<1>5. \A k \in 1..Len(s) : s[k] \in Chars
  OBVIOUS
<1>6. \A k \in Starts(s) : s[k] \in Alphanumeric
  BY DEF Starts
<1>7. Alphanumeric \cap Separators = {}
  BY KindsApart DEF Alphanumeric
<1>8. c[i] = c[m]
  <2>1. \A k \in i..(m - 1) : k \notin Starts(s)
    BY <1>1, <1>6, <1>7
  <2> QED BY <1>4, <2>1, NoStart
<1>9. CASE m > Len(s)
  <2>1. c[m] = <<>>
    BY <1>4, <1>9, SegmentsFromIs DEF SegmentStep
  <2>2. ClassAt(s, i) = 0
    BY <1>2, <1>9 DEF Class
  <2> QED BY <1>8, <2>1, <2>2
<1>10. CASE m <= Len(s)
  <2> DEFINE C == KindAt(s, m)
             e == RunEnd(s, m, C)
  <2>1. m \in 1..Len(s) /\ m \in 1..(Len(s) + 1) /\ ~(m > Len(s))
    BY <1>0, <1>4, <1>10
  <2>2. s[m] \in Chars /\ s[m] \in Alphanumeric /\ s[m] \in C /\ C \subseteq Alphanumeric
    BY <1>1, <1>5, <1>10, <2>1, SameKindIs DEF KindAt
  <2>3. m = 1 \/ (m - 1 \in 1..Len(s) /\ s[m - 1] \in Separators)
    <3>1. CASE m = i
      BY <1>0, <2>1, <3>1 DEF Clean
    <3>2. CASE m # i
      <4>1. m - 1 \in i..(m - 1) /\ m - 1 \in 1..Len(s)
        BY <1>0, <1>4, <2>1, <3>2
      <4> QED BY <1>1, <4>1
    <3> QED BY <3>1, <3>2
  <2>4. m \in Starts(s)
    <3>1. m = 1 \/ ~SameKind(s[m - 1], s[m])
      BY <1>5, <2>2, <2>3, SameKindIs
    <3>2. m \in DOMAIN s
      BY <2>1
    <3> QED BY <2>2, <3>1, <3>2 DEF Starts
  <2>5. c[m] = <<Segment(s, i)>> \o c[m + 1]
    <3>1. c[m] = SegmentStep(s, c, m)
      BY <1>4, SegmentsFromIs
    <3>2. SegmentStep(s, c, m) = <<Run(s, m, Kind(s[m]))>> \o c[m + 1]
      BY <2>1, <2>4 DEF SegmentStep
    <3> QED BY <1>3, <3>1, <3>2 DEF KindAt
  <2>6. /\ e \in m..(Len(s) + 1) /\ (e <= Len(s) => s[e] \notin C)
        /\ \A k \in m..(e - 1) : s[k] \in C
    BY <2>1, RunEndIs
  <2>7. Segment(s, i) = SubSeq(s, m, e - 1)
    BY <1>3 DEF Run
  <2>8. Beyond(s, i) = IF e > Len(s) THEN e ELSE e + 1
    BY <1>3 DEF Behind
  <2> HIDE DEF C, e
  <2>9. e # m /\ e \in Nat /\ e > m /\ e - 1 \in m..Len(s)
    BY <1>0, <2>1, <2>2, <2>6
  <2>10. e <= Len(s) => s[e] \in Separators
    <3> SUFFICES ASSUME e <= Len(s), s[e] \notin Separators PROVE FALSE
      OBVIOUS
    <3>1. e - 1 \in 1..(Len(s) - 1) /\ (e - 1) + 1 = e /\ e \in 1..Len(s) /\ e - 1 \in 1..Len(s)
          /\ e - 1 \in m..(e - 1)
      BY <1>0, <2>1, <2>9
    <3>2. s[e] \in Chars /\ s[e - 1] \in Chars /\ s[e - 1] \in C /\ s[e] \notin C
      BY <1>5, <2>6, <3>1
    <3>3. s[e] \in Alphanumeric /\ s[e - 1] \in Alphanumeric
      BY <2>2, <3>2, SameKindIs
    <3>4. SameKind(s[e - 1], s[e])
      <4>1. {s[e - 1], s[(e - 1) + 1]} \subseteq Alphanumeric => SameKind(s[e - 1], s[(e - 1) + 1])
        BY <3>1 DEF Ordinary
      <4> QED BY <3>1, <3>3, <4>1
    <3>5. s[e] \in Kind(s[e - 1])
      BY <3>2, <3>3, <3>4, SameKindIs
    <3>6. Kind(s[e - 1]) = C
      <4>1. C = Digits \/ C = Letters
        BY DEF C, KindAt, Kind
      <4> QED BY <3>2, <4>1, KindsApart DEF Kind
    <3> QED BY <3>2, <3>5, <3>6
  <2>11. Beyond(s, i) \in Positions(s) /\ m + 1 \in Positions(s) /\ m + 1 <= Beyond(s, i)
    BY <1>0, <2>1, <2>6, <2>8, <2>9 DEF Positions
  <2>12. c[m + 1] = c[Beyond(s, i)]
    <3>1. ASSUME NEW k \in (m + 1)..(Beyond(s, i) - 1) PROVE k \notin Starts(s)
      <4>0. k \in Nat /\ k \in 1..Len(s) /\ m <= k /\ k <= e /\ k - 1 \in m..(e - 1) /\ k # 1
            /\ k - 1 \in 1..Len(s) /\ (k = e => e <= Len(s))
        BY <1>0, <2>1, <2>6, <2>8, <2>9
      <4>1. CASE k = e
        BY <1>6, <1>7, <2>10, <4>0, <4>1
      <4>2. CASE k # e
        <5>1. k \in m..(e - 1)
          BY <1>4, <2>9, <4>0, <4>2
        <5>2. s[k] \in C /\ s[k - 1] \in C
          BY <2>6, <4>0, <5>1
        <5>3. C = Digits \/ C = Letters
          BY DEF C, KindAt, Kind
        <5>4. SameKind(s[k - 1], s[k])
          BY <5>2, <5>3 DEF SameKind
        <5> QED BY <4>0, <5>4 DEF Starts
      <4> QED BY <4>1, <4>2
    <3> QED BY <2>11, <3>1, NoStart
  <2>13. Clean(s, Beyond(s, i))
    <3>1. CASE e > Len(s)
      BY <2>8, <3>1 DEF Clean
    <3>2. CASE ~(e > Len(s))
      <4>1. e <= Len(s) /\ (e + 1) - 1 = e
        BY <1>0, <2>9, <3>2
      <4> QED BY <2>8, <2>10, <3>2, <4>1 DEF Clean
    <3> QED BY <3>1, <3>2
  <2>14. Class(s, m) # 0 /\ C = IF Class(s, m) = 2 THEN Digits ELSE Letters
    BY <2>1 DEF Class, C, KindAt, Kind
  <2>15. Segment(s, i) = [k \in 1..(e - m) |-> s[m + k - 1]]
    <3>1. 1 <= m /\ e - 1 <= Len(s) /\ m \in Int /\ e - 1 \in Int /\ (e - 1) - m + 1 = e - m
      BY <1>0, <2>1, <2>9
    <3>2. SubSeq(s, m, e - 1) = [k \in 1..(e - m) |-> s[m + k - 1]]
      BY <2>9, <3>1
    <3> QED BY <2>7, <3>2
  <2>16. /\ DOMAIN Segment(s, i) = 1..(e - m) /\ 1 \in 1..(e - m)
         /\ \A k \in 1..(e - m) : Segment(s, i)[k] \in C
    <3>1. \A k \in 1..(e - m) : m + k - 1 \in m..(e - 1)
      BY <2>1, <2>9
    <3>2. 1 \in 1..(e - m)
      BY <2>1, <2>9
    <3> QED BY <2>6, <2>15, <3>1, <3>2
  <2>17. Segment(s, i) # <<>>
    <3>1. DOMAIN <<>> = {}
      OBVIOUS
    <3> QED BY <2>16, <3>1
  <2>18. Segment(s, i) \in Seq(Chars)
    <3>1. C \in SUBSET Chars
      BY <2>2 DEF Chars
    <3>2. Segment(s, i) \in Seq(C)
      BY <1>3, <2>1, <3>1, RunType DEF C
    <3> QED BY <3>1, <3>2
  <2> HIDE DEF c
  <2>19. c[i] = <<Segment(s, i)>> \o c[Beyond(s, i)]
    BY <1>8, <2>5, <2>12
  <2>20. /\ Segment(s, i)[1] \in C /\ (\A k \in DOMAIN Segment(s, i) : Segment(s, i)[k] \in C)
         /\ ClassAt(s, i) # 0 /\ C = IF ClassAt(s, i) = 2 THEN Digits ELSE Letters
    BY <1>2, <2>14, <2>16
  <2> QED BY <2>13, <2>17, <2>18, <2>19, <2>20 DEF c
<1>11. m > Len(s) \/ m <= Len(s)
  BY <1>0, <1>4
<1> QED BY <1>9, <1>10, <1>11

\* Every segment from a position on is one of the version's.
LEMMA SegmentsAreSegments ==
    ASSUME NEW s \in Seq(Chars), NEW i \in Positions(s), NEW n \in DOMAIN SegmentsFrom(s)[i]
    PROVE  \E l \in DOMAIN Segments(s) : Segments(s)[l] = SegmentsFrom(s)[i][n]
<1> DEFINE c == SegmentsFrom(s)
           Among(m) == \A l \in DOMAIN c[m] : \E k \in DOMAIN c[1] : c[1][k] = c[m][l]
           T == {m \in Nat : m + 1 \in Positions(s) => Among(m + 1)}
<1>0. Len(s) \in Nat
  OBVIOUS
<1>1. 0 \in T
  OBVIOUS
<1>2. ASSUME NEW m \in T PROVE m + 1 \in T
  <2>0. m \in Nat /\ (m + 1 \in Positions(s) => Among(m + 1))
    OBVIOUS
  <2> HIDE DEF T
  <2>1. ASSUME (m + 1) + 1 \in Positions(s) PROVE Among((m + 1) + 1)
    <3>1. m + 1 \in Positions(s) /\ ~(m + 1 > Len(s))
      BY <1>0, <2>0, <2>1 DEF Positions
    <3>2. Among(m + 1)
      BY <2>0, <3>1
    <3>3. c[m + 1] = SegmentStep(s, c, m + 1) /\ c[(m + 1) + 1] \in Words
      BY <2>1, <3>1, SegmentsFromIs
    <3>4. CASE m + 1 \in Starts(s)
      <4> DEFINE w == Run(s, m + 1, Kind(s[m + 1]))
                 rest == c[(m + 1) + 1]
      <4>1. c[m + 1] = <<w>> \o rest
        BY <3>1, <3>3, <3>4 DEF SegmentStep
      <4>2. w \in Seq(Chars)
        BY <3>4, StartIs
      <4> HIDE DEF w
      <4>3. rest \in Words
        BY <3>3
      <4> HIDE DEF rest
      <4>4. /\ <<w>> \o rest \in Words /\ Len(<<w>> \o rest) = Len(rest) + 1 /\ Len(rest) \in Nat
            /\ \A l \in 1..Len(rest) : (<<w>> \o rest)[l + 1] = rest[l]
        BY <4>2, <4>3, PrependWord
      <4>5. DOMAIN rest = 1..Len(rest) /\ DOMAIN (<<w>> \o rest) = 1..(Len(rest) + 1)
        BY <4>3, <4>4 DEF Words
      <4>6. \A l \in DOMAIN rest : \E k \in DOMAIN c[m + 1] : c[m + 1][k] = rest[l]
        <5>1. TAKE l \in DOMAIN rest
        <5>2. l + 1 \in DOMAIN (<<w>> \o rest) /\ (<<w>> \o rest)[l + 1] = rest[l]
          BY <4>4, <4>5
        <5> QED BY <4>1, <5>2
      <4> HIDE DEF c
      <4>7. \A l \in DOMAIN rest : \E k \in DOMAIN c[1] : c[1][k] = rest[l]
        <5>1. TAKE l \in DOMAIN rest
        <5>2. PICK k \in DOMAIN c[m + 1] : c[m + 1][k] = rest[l]
          BY <4>6
        <5>3. PICK j \in DOMAIN c[1] : c[1][j] = c[m + 1][k]
          BY <3>2
        <5> QED BY <5>2, <5>3
      <4> QED BY <4>7 DEF rest
    <3>5. CASE m + 1 \notin Starts(s)
      <4>1. c[m + 1] = c[(m + 1) + 1]
        BY <3>1, <3>3, <3>5 DEF SegmentStep
      <4> HIDE DEF c
      <4> QED BY <3>2, <4>1
    <3> QED BY <3>4, <3>5
  <2>2. m + 1 \in Nat
    BY <2>0
  <2> HIDE DEF Among
  <2> QED BY <2>1, <2>2 DEF T
<1>3. T = Nat
  <2> HIDE DEF T
  <2>1. T \in SUBSET Nat
    BY DEF T
  <2> QED BY <1>1, <1>2, <2>1, Induction
<1>4. Among(i)
  <2>1. i - 1 \in Nat /\ (i - 1) + 1 = i
    BY DEF Positions
  <2>2. i - 1 \in T
    <3> HIDE DEF T
    <3> QED BY <1>3, <2>1
  <2> HIDE DEF Among
  <2> QED BY <2>1, <2>2
<1>5. Segments(s) = c[1]
  BY SegmentsAreFromStart
<1> HIDE DEF c
<1>6. n \in DOMAIN c[i]
  BY DEF c
<1>7. PICK k \in DOMAIN c[1] : c[1][k] = c[i][n]
  BY <1>4, <1>6
<1> QED BY <1>5, <1>7 DEF c

LEMMA NumberIsValue ==
    ASSUME NEW s \in Seq(Digits), NEW max \in Nat, Value(s) <= max
    PROVE  Number(s, max) = Value(s)
<1>1. \A i \in DOMAIN s : s[i] \in Digits
  OBVIOUS
<1>2. Number(s, max) = IF Value(s) <= max THEN Value(s) ELSE 0
  BY <1>1 DEF Number, Value
<1> QED BY <1>2

LEMMA OrdinaryValues ==
    ASSUME NEW s \in Seq(Chars), Ordinary(s), NEW i \in Positions(s), Clean(s, i),
           ClassAt(s, i) = 2
    PROVE  Number(Segment(s, i), U64Max) = Value(Segment(s, i))
<1>1. /\ SegmentsFrom(s)[i] = <<Segment(s, i)>> \o SegmentsFrom(s)[Beyond(s, i)]
      /\ Segment(s, i)[1] \in Digits
      /\ \A k \in DOMAIN Segment(s, i) : Segment(s, i)[k] \in Digits
      /\ Segment(s, i) \in Seq(Chars)
  BY OrdinarySegments
<1>2. Beyond(s, i) \in Positions(s)
  BY SegmentIs
<1>3. SegmentsFrom(s)[Beyond(s, i)] \in Words
  BY <1>2, SegmentsFromIs
<1>4. 1 \in DOMAIN SegmentsFrom(s)[i] /\ SegmentsFrom(s)[i][1] = Segment(s, i)
  <2> DEFINE a == Segment(s, i)
             x == SegmentsFrom(s)[Beyond(s, i)]
  <2>1. a \in Seq(Chars) /\ x \in Words /\ SegmentsFrom(s)[i] = <<a>> \o x
    BY <1>1, <1>3
  <2> HIDE DEF a, x
  <2>2. /\ (<<a>> \o x)[1] = a /\ <<a>> \o x \in Words /\ Len(<<a>> \o x) = Len(x) + 1
        /\ Len(x) \in Nat
    BY <2>1, PrependWord
  <2>3. DOMAIN (<<a>> \o x) = 1..(Len(x) + 1)
    BY <2>2 DEF Words
  <2>4. 1 \in DOMAIN (<<a>> \o x)
    BY <2>2, <2>3
  <2> QED BY <2>1, <2>2, <2>4 DEF a
<1>5. PICK l \in DOMAIN Segments(s) : Segments(s)[l] = Segment(s, i)
  BY <1>4, SegmentsAreSegments
<1>6. Value(Segment(s, i)) <= U64Max
  <2>1. Segments(s)[l][1] \in Digits => Value(Segments(s)[l]) <= U64Max
    BY DEF Ordinary
  <2> QED BY <1>1, <1>5, <2>1
<1>7. Segment(s, i) \in Seq(Digits)
  BY <1>1
<1> QED BY <1>6, <1>7, NumberIsValue, WidthAssumption

LEMMA OrdinaryComparison ==
    ASSUME NEW x \in Seq(Chars), NEW y \in Seq(Chars), Ordinary(x), Ordinary(y)
    PROVE  Comparison(x, y)[<<1, 1>>] = ReferenceOrder(x, y)
<1> DEFINE Right(i, j) == Comparison(x, y)[<<i, j>>] =
                              ListOrder(SegmentsFrom(x)[i], SegmentsFrom(y)[j])
           T == {n \in Nat : \A i \in Positions(x), j \in Positions(y) :
                    i + n > Len(x) + 1 /\ Clean(x, i) /\ Clean(y, j) => Right(i, j)}
<1>0. Len(x) \in Nat
  OBVIOUS
<1>1. 0 \in T
  BY DEF Positions
<1>2. ASSUME NEW n \in T PROVE n + 1 \in T
  <2>0. n \in Nat
    OBVIOUS
  <2>1. \A i \in Positions(x), j \in Positions(y) :
           i + n > Len(x) + 1 /\ Clean(x, i) /\ Clean(y, j) => Right(i, j)
    OBVIOUS
  <2> HIDE DEF T
  <2>2. ASSUME NEW i \in Positions(x), NEW j \in Positions(y), i + (n + 1) > Len(x) + 1,
               Clean(x, i), Clean(y, j)
        PROVE  Right(i, j)
    <3> DEFINE p == ClassAt(x, i)
               q == ClassAt(y, j)
               a == Segment(x, i)
               b == Segment(y, j)
               i1 == Beyond(x, i)
               j1 == Beyond(y, j)
               u == SegmentsFrom(x)[i1]
               w == SegmentsFrom(y)[j1]
               rest == Then(SegmentOrder(x, y, i, j), Comparison(x, y)[<<i1, j1>>])
    <3>1. Comparison(x, y)[<<i, j>>] =
              Then(Order(p, q), IF p = 0 THEN "Equal" ELSE rest)
      BY ComparisonIs, StepByClass
    <3>2. p \in 0..2 /\ q \in 0..2
      BY SegmentIs
    <3>3. /\ p # 0 => i1 \in Positions(x) /\ i1 > i
          /\ q # 0 => j1 \in Positions(y)
      BY SegmentIs
    <3>4. /\ p = 0 => SegmentsFrom(x)[i] = <<>>
          /\ p # 0 => /\ SegmentsFrom(x)[i] = <<a>> \o u /\ Clean(x, i1)
                      /\ a \in Seq(Chars) /\ a[1] \in (IF p = 2 THEN Digits ELSE Letters)
      BY <2>2, OrdinarySegments
    <3>5. /\ q = 0 => SegmentsFrom(y)[j] = <<>>
          /\ q # 0 => /\ SegmentsFrom(y)[j] = <<b>> \o w /\ Clean(y, j1)
                      /\ b \in Seq(Chars) /\ b[1] \in (IF q = 2 THEN Digits ELSE Letters)
      BY <2>2, OrdinarySegments
    <3>6. SegmentsFrom(x)[i] \in Words /\ SegmentsFrom(y)[j] \in Words
      BY SegmentsFromIs
    <3>7. (p # 0 => u \in Words) /\ (q # 0 => w \in Words)
      BY <3>3, SegmentsFromIs
    <3>8. p # 0 => SegmentsFrom(x)[i] # <<>>
      <4> SUFFICES ASSUME p # 0 PROVE <<a>> \o u # <<>>
        BY <3>4
      <4> HIDE DEF a, u
      <4> QED BY <3>4, <3>7, PrependWord
    <3>9. q # 0 => SegmentsFrom(y)[j] # <<>>
      <4> SUFFICES ASSUME q # 0 PROVE <<b>> \o w # <<>>
        BY <3>5
      <4> HIDE DEF b, w
      <4> QED BY <3>5, <3>7, PrependWord
    <3>10. \A o : Then("Equal", o) = o /\ Then("Less", o) = "Less" /\ Then("Greater", o) = "Greater"
      BY DEF Then
    <3>11. /\ \A m, l \in 0..2 : m = l => Order(m, l) = "Equal"
           /\ \A m, l \in 0..2 : m < l => Order(m, l) = "Less"
           /\ \A m, l \in 0..2 : m > l => Order(m, l) = "Greater"
      BY DEF Order
    <3>12. CASE p = 0 \/ q = 0
      <4>1. ListOrder(SegmentsFrom(x)[i], SegmentsFrom(y)[j]) =
                Order(IF p = 0 THEN 0 ELSE 1, IF q = 0 THEN 0 ELSE 1)
        <5>1. /\ SegmentsFrom(x)[i] = <<>> <=> p = 0
              /\ SegmentsFrom(y)[j] = <<>> <=> q = 0
          BY <3>4, <3>5, <3>8, <3>9
        <5> HIDE DEF p, q
        <5> QED BY <3>6, <3>12, <5>1, ListOrderOfEmpty
      <4>2. Comparison(x, y)[<<i, j>>] = Order(IF p = 0 THEN 0 ELSE 1, IF q = 0 THEN 0 ELSE 1)
        <5> HIDE DEF p, q, rest
        <5>1. CASE p = 0 /\ q = 0
          BY <3>1, <3>10, <3>11, <5>1
        <5>2. CASE p = 0 /\ q # 0
          <6>1. Order(p, q) = "Less" /\ Order(0, 1) = "Less"
            BY <3>2, <3>11, <5>2
          <6> QED BY <3>1, <3>10, <5>2, <6>1
        <5>3. CASE p # 0 /\ q = 0
          <6>1. Order(p, q) = "Greater" /\ Order(1, 0) = "Greater"
            BY <3>2, <3>11, <5>3
          <6> QED BY <3>1, <3>10, <5>3, <6>1
        <5> QED BY <3>12, <5>1, <5>2, <5>3
      <4> QED BY <4>1, <4>2
    <3>13. CASE p # 0 /\ q # 0
      <4>1. ListOrder(SegmentsFrom(x)[i], SegmentsFrom(y)[j]) =
                Then(OrderOfSegments(a, b), ListOrder(u, w))
        <5>1. a \in Seq(Chars) /\ b \in Seq(Chars) /\ u \in Words /\ w \in Words
          BY <3>4, <3>5, <3>7, <3>13
        <5>2. ListOrder(SegmentsFrom(x)[i], SegmentsFrom(y)[j]) = ListOrder(<<a>> \o u, <<b>> \o w)
          BY <3>4, <3>5, <3>13
        <5> HIDE DEF a, b, u, w
        <5> QED BY <5>1, <5>2, ListOrderOfFirst
      <4>2. Comparison(x, y)[<<i1, j1>>] = ListOrder(u, w)
        <5>1. i1 \in Positions(x) /\ i1 > i /\ j1 \in Positions(y) /\ Clean(x, i1) /\ Clean(y, j1)
          BY <3>3, <3>4, <3>5, <3>13
        <5> HIDE DEF i1, j1
        <5>2. i1 + n > Len(x) + 1
          BY <1>0, <2>0, <2>2, <5>1 DEF Positions
        <5>3. Right(i1, j1)
          BY <2>1, <5>1, <5>2
        <5> QED BY <5>3
      <4>3. CASE p = q
        <5>1. SegmentOrder(x, y, i, j) = OrderOfSegments(a, b)
          <6>1. CASE p = 2
            <7>1. Number(a, U64Max) = Value(a) /\ Number(b, U64Max) = Value(b)
              BY <2>2, <4>3, <6>1, OrdinaryValues
            <7>2. a[1] \in Digits /\ b[1] \in Digits
              BY <3>4, <3>5, <3>13, <4>3, <6>1
            <7>3. SegmentOrder(x, y, i, j) = Order(Number(a, U64Max), Number(b, U64Max))
              BY <6>1 DEF SegmentOrder
            <7> HIDE DEF a, b
            <7>4. OrderOfSegments(a, b) = Order(Value(a), Value(b))
              BY <7>2, KindsApart DEF OrderOfSegments
            <7> QED BY <7>1, <7>3, <7>4
          <6>2. CASE p # 2
            <7>1. a[1] \in Letters /\ b[1] \in Letters
              BY <3>4, <3>5, <3>13, <4>3, <6>2
            <7>2. SegmentOrder(x, y, i, j) = OrderOfLetters(a, b)
              BY <6>2 DEF SegmentOrder
            <7> HIDE DEF a, b
            <7>3. a[1] \notin Digits /\ b[1] \notin Digits
              BY <7>1, KindsApart
            <7>4. OrderOfSegments(a, b) = OrderOfLetters(a, b)
              BY <7>3 DEF OrderOfSegments
            <7> QED BY <7>2, <7>4
          <6> QED BY <6>1, <6>2
        <5>2. Order(p, q) = "Equal"
          BY <3>2, <3>11, <4>3
        <5>3. Comparison(x, y)[<<i, j>>] = rest
          <6> HIDE DEF p, q, rest
          <6> QED BY <3>1, <3>10, <3>13, <5>2
        <5> QED BY <4>1, <4>2, <5>1, <5>3
      <4>4. CASE p = 2 /\ q = 1
        <5>1. Order(p, q) = "Greater"
          BY <3>11, <4>4
        <5>2. a[1] \in Digits /\ b[1] \in Letters
          BY <3>4, <3>5, <4>4
        <5> HIDE DEF p, q, a, b, u, w, rest
        <5>3. a[1] \notin Letters /\ b[1] \notin Digits
          BY <5>2, KindsApart
        <5>4. OrderOfSegments(a, b) = "Greater"
          BY <5>2, <5>3 DEF OrderOfSegments
        <5> QED BY <3>1, <3>10, <4>1, <5>1, <5>4
      <4>5. CASE p = 1 /\ q = 2
        <5>1. Order(p, q) = "Less"
          BY <3>11, <4>5
        <5>2. a[1] \in Letters /\ b[1] \in Digits
          BY <3>4, <3>5, <4>5
        <5> HIDE DEF p, q, a, b, u, w, rest
        <5>3. a[1] \notin Digits /\ b[1] \notin Letters
          BY <5>2, KindsApart
        <5>4. OrderOfSegments(a, b) = "Less"
          BY <5>2, <5>3 DEF OrderOfSegments
        <5> QED BY <3>1, <3>10, <4>1, <5>1, <5>4
      <4> HIDE DEF p, q, Right
      <4> QED BY <3>2, <3>13, <4>3, <4>4, <4>5
    <3> QED BY <3>12, <3>13
  <2>3. n + 1 \in Nat
    BY <2>0
  <2> HIDE DEF Right
  <2> QED BY <2>2, <2>3 DEF T
<1>3. T = Nat
  <2> HIDE DEF T
  <2>1. T \in SUBSET Nat
    BY DEF T
  <2> QED BY <1>1, <1>2, <2>1, Induction
<1>4. Right(1, 1)
  <2>1. Len(x) + 1 \in T
    <3> HIDE DEF T
    <3> QED BY <1>0, <1>3
  <2>2. /\ 1 \in Positions(x) /\ 1 \in Positions(y) /\ 1 + (Len(x) + 1) > Len(x) + 1
        /\ Clean(x, 1) /\ Clean(y, 1)
    BY <1>0 DEF Positions, Clean
  <2> HIDE DEF Right
  <2> QED BY <2>1, <2>2
<1> QED BY <1>4, ReferenceIsListOrder, SegmentsAreFromStart

LEMMA OrdinaryVersions ==
    ASSUME NEW s \in Seq(Chars), NEW t \in Seq(Chars), Ordinary(s), Ordinary(t)
    PROVE  Compare(s, t) = ReferenceOrder(s, t)
<1>1. ASSUME NEW v \in Seq(Chars), Ordinary(v)
      PROVE  Parse(v) = [epoch |-> 0, version |-> v, release |-> 0]
  <2>1. {i \in DOMAIN v : v[i] = ":"} = {} /\ {i \in DOMAIN v : v[i] = "-"} = {}
    BY <1>1 DEF Ordinary
  <2> QED BY <2>1 DEF Parse
<1>2. Order(0, 0) = "Equal"
  BY DEF Order
<1>3. Compare(s, t) = Then(Order(0, 0), Then(CompareVersionStrings(s, t), Order(0, 0)))
  BY <1>1 DEF Compare
<1>4. CompareVersionStrings(s, t) = ReferenceOrder(s, t)
  BY CompareIsComparison, OrdinaryComparison
<1> QED BY <1>2, <1>3, <1>4 DEF Then

\* Versions are compared consistently, whatever strings they are: the preorder does
\* not depend on what the lost characters and the overflowing numbers are, and
\* ordinary versions are ordered by their segments (Version::compare).
THEOREM VersionOrderIsRight ==
    LET Strings == Seq(Alphanumeric \cup Separators)
    IN  versions \in Strings \X Strings \X Strings => VersionsAreOrdered
<1> SUFFICES ASSUME versions \in Seq(Chars) \X Seq(Chars) \X Seq(Chars)
             PROVE  VersionsAreOrdered
  BY DEF Chars
<1> DEFINE s == versions[1]
           t == versions[2]
           u == versions[3]
<1>1. s \in Seq(Chars) /\ t \in Seq(Chars) /\ u \in Seq(Chars)
  BY DEF Chars
<1> HIDE DEF s, t, u
<1>2. OrdinaryVersionsCompare
  <2>1. Ordinary(s) /\ Ordinary(t) => Compare(s, t) = ReferenceOrder(s, t)
    BY <1>1, OrdinaryVersions
  <2> QED BY <2>1 DEF OrdinaryVersionsCompare, s, t
<1>3. VersionsArePreordered
  <2>1. /\ Compare(s, t) \in Outcomes /\ Compare(t, u) \in Outcomes /\ Compare(s, u) \in Outcomes
        /\ Compare(t, s) = Opposite(Compare(s, t))
        /\ Coherent(Compare(s, t), Compare(t, u), Compare(s, u))
    BY <1>1, CompareIsOrdered
  <2>2. Compare(s, t) = "Less" <=> Compare(t, s) = "Greater"
    BY <2>1 DEF Opposite, Outcomes
  <2>3. Compare(s, t) # "Greater" /\ Compare(t, u) # "Greater" => Compare(s, u) # "Greater"
    BY <2>1 DEF Coherent, Outcomes
  <2> QED BY <2>2, <2>3 DEF VersionsArePreordered, s, t, u
<1> QED BY <1>2, <1>3 DEF VersionsAreOrdered

\* A constraint ">= version" that a version satisfies (Dependency::satisfied_by)
\* is satisfied by every later one: no upgrade breaks it.
THEOREM UpgradesSatisfy ==
    \A s, t, u \in Seq(Alphanumeric \cup Separators) :
        SatisfiedByVersion([op |-> ">=", version |-> u], s) /\ Compare(t, s) # "Less" =>
            SatisfiedByVersion([op |-> ">=", version |-> u], t)
<1> SUFFICES ASSUME NEW s \in Seq(Chars), NEW t \in Seq(Chars), NEW u \in Seq(Chars),
                    SatisfiedByVersion([op |-> ">=", version |-> u], s), Compare(t, s) # "Less"
             PROVE  SatisfiedByVersion([op |-> ">=", version |-> u], t)
  BY DEF Chars
<1>1. \A a : SatisfiedByVersion([op |-> ">=", version |-> u], a) <=> Compare(a, u) # "Less"
  BY DEF SatisfiedByVersion
<1>2. Compare(s, u) \in Outcomes /\ Compare(t, s) \in Outcomes /\ Compare(t, u) \in Outcomes
      /\ Coherent(Compare(t, s), Compare(s, u), Compare(t, u))
  BY CompareIsOrdered
<1>3. Compare(t, u) # "Less"
  BY <1>1, <1>2 DEF Coherent, Outcomes
<1> QED BY <1>1, <1>3

-----------------------------------------------------------------------------
(* The order of byte strings                                               *)

Text == Seq(Nat)

\* The byte at a place, plus one; there is none behind the end.
Byte(s, i) == IF i <= Len(s) THEN s[i] + 1 ELSE 0

\* The first place where s and t differ is i, and s is the smaller one there.
ByteLess(s, t, i) ==
    /\ \A j \in 1..(i - 1) : Byte(s, j) = Byte(t, j)
    /\ Byte(s, i) < Byte(t, i)

LEMMA ByteType ==
    ASSUME NEW s \in Text, NEW i \in Nat \ {0}
    PROVE  Byte(s, i) \in Nat
<1>1. i <= Len(s) => s[i] \in Nat
  BY DEF Text
<1> QED BY <1>1 DEF Byte

LEMMA LessIsByteLess ==
    ASSUME NEW s \in Text, NEW t \in Text
    PROVE  Less(s, t) <=> \E i \in Nat \ {0} : ByteLess(s, t, i)
<1>1. Len(s) \in Nat /\ Len(t) \in Nat
  BY DEF Text
<1>2. \A i \in Nat \ {0} : (i <= Len(s) => s[i] \in Nat) /\ (i <= Len(t) => t[i] \in Nat)
  BY DEF Text
<1>3. ASSUME NEW i \in 1..Len(t), i > Len(s) \/ s[i] < t[i],
             \A j \in 1..i-1 : j <= Len(s) /\ s[j] = t[j]
      PROVE  ByteLess(s, t, i)
  <2>1. ASSUME NEW j \in 1..(i - 1) PROVE Byte(s, j) = Byte(t, j)
    BY <1>1, <1>2, <1>3 DEF Byte
  <2>2. Byte(s, i) < Byte(t, i)
    BY <1>1, <1>2, <1>3 DEF Byte
  <2> QED BY <2>1, <2>2 DEF ByteLess
<1>4. ASSUME NEW i \in Nat \ {0}, ByteLess(s, t, i)
      PROVE  /\ i \in 1..Len(t)
             /\ i > Len(s) \/ s[i] < t[i]
             /\ \A j \in 1..i-1 : j <= Len(s) /\ s[j] = t[j]
  <2>1. i \in 1..Len(t)
    BY <1>1, <1>2, <1>4 DEF ByteLess, Byte
  <2>2. i > Len(s) \/ s[i] < t[i]
    BY <1>1, <1>2, <1>4, <2>1 DEF ByteLess, Byte
  <2>3. ASSUME NEW j \in 1..i-1 PROVE j <= Len(s) /\ s[j] = t[j]
    <3>1. Byte(s, j) = Byte(t, j)
      BY <1>4 DEF ByteLess
    <3>2. j \in Nat \ {0} /\ j <= Len(t)
      BY <1>1, <2>1
    <3> QED BY <1>1, <1>2, <3>1, <3>2 DEF Byte
  <2> QED BY <2>1, <2>2, <2>3
<1>5. ASSUME Less(s, t) PROVE \E i \in Nat \ {0} : ByteLess(s, t, i)
  <2>1. PICK i \in 1..Len(t) : /\ i > Len(s) \/ s[i] < t[i]
                               /\ \A j \in 1..i-1 : j <= Len(s) /\ s[j] = t[j]
    BY <1>5 DEF Less
  <2>2. i \in Nat \ {0}
    BY <1>1
  <2> QED BY <1>3, <2>1, <2>2
<1> QED BY <1>4, <1>5 DEF Less

LEMMA ByteLessIsTransitive ==
    ASSUME NEW s \in Text, NEW t \in Text, NEW u \in Text,
           NEW i \in Nat \ {0}, NEW j \in Nat \ {0}, ByteLess(s, t, i), ByteLess(t, u, j)
    PROVE  \E k \in Nat \ {0} : ByteLess(s, u, k)
<1>1. \A k \in Nat \ {0} : Byte(s, k) \in Int /\ Byte(t, k) \in Int /\ Byte(u, k) \in Int
  BY ByteType
<1>2. CASE i <= j
  <2>1. ASSUME NEW k \in 1..(i - 1) PROVE Byte(s, k) = Byte(u, k)
    <3>1. k \in 1..(j - 1)
      BY <1>2
    <3> QED BY <3>1 DEF ByteLess
  <2>2. Byte(s, i) < Byte(u, i)
    <3>1. CASE i = j
      BY <1>1, <3>1 DEF ByteLess
    <3>2. CASE i # j
      <4>1. i \in 1..(j - 1)
        BY <1>2, <3>2
      <4> QED BY <4>1 DEF ByteLess
    <3> QED BY <3>1, <3>2
  <2> QED BY <2>1, <2>2 DEF ByteLess
<1>3. CASE j < i
  <2>1. ByteLess(s, u, j)
    BY <1>1, <1>3 DEF ByteLess
  <2> QED BY <2>1
<1> QED BY <1>2, <1>3

LEMMA ByteLessIsOneWay ==
    ASSUME NEW s \in Text, NEW t \in Text,
           NEW i \in Nat \ {0}, NEW j \in Nat \ {0}, ByteLess(s, t, i), ByteLess(t, s, j)
    PROVE  FALSE
<1>1. \A k \in Nat \ {0} : Byte(s, k) \in Int /\ Byte(t, k) \in Int
  BY ByteType
<1>2. CASE i <= j
  BY <1>1, <1>2 DEF ByteLess
<1>3. CASE j < i
  BY <1>1, <1>3 DEF ByteLess
<1> QED BY <1>2, <1>3

\* Two texts that agree in every place are the same, and of two others one is less.
LEMMA SameBytes ==
    ASSUME NEW s \in Text, NEW t \in Text, \A i \in Nat \ {0} : Byte(s, i) = Byte(t, i)
    PROVE  s = t
<1>1. Len(s) \in Nat /\ Len(t) \in Nat
  BY DEF Text
<1>2. \A i \in Nat \ {0} : (i <= Len(s) => s[i] \in Nat) /\ (i <= Len(t) => t[i] \in Nat)
  BY DEF Text
<1>3. \A i \in Nat \ {0} : (i <= Len(s) <=> i <= Len(t)) /\ (i <= Len(s) => s[i] = t[i])
  BY <1>1, <1>2 DEF Byte
<1>4. Len(s) = Len(t)
  <2>1. Len(s) # 0 => Len(s) <= Len(t)
    BY <1>1, <1>3
  <2>2. Len(t) # 0 => Len(t) <= Len(s)
    BY <1>1, <1>3
  <2> QED BY <1>1, <2>1, <2>2
<1>5. \A i \in 1..Len(s) : s[i] = t[i]
  BY <1>1, <1>3
<1>6. s \in Seq(Nat) /\ t \in Seq(Nat)
  BY DEF Text
<1> QED BY <1>4, <1>5, <1>6, SeqEqual

LEMMA LessIsOrder ==
    ASSUME NEW s \in Text, NEW t \in Text, NEW u \in Text
    PROVE  /\ ~ Less(s, s)
           /\ Less(s, t) => ~ Less(t, s)
           /\ Less(s, t) /\ Less(t, u) => Less(s, u)
           /\ s # t => Less(s, t) \/ Less(t, s)
<1>1. ~ Less(s, s)
  BY LessIsByteLess, ByteLessIsOneWay
<1>2. Less(s, t) => ~ Less(t, s)
  BY LessIsByteLess, ByteLessIsOneWay
<1>3. Less(s, t) /\ Less(t, u) => Less(s, u)
  BY LessIsByteLess, ByteLessIsTransitive
<1>4. ASSUME s # t PROVE Less(s, t) \/ Less(t, s)
  <2> DEFINE D == {i \in Nat \ {0} : Byte(s, i) # Byte(t, i)}
  <2>1. D # {}
    BY <1>4, SameBytes
  <2>2. PICK m \in D : \A n \in D : m <= n
    <3> HIDE DEF D
    <3>1. D \in SUBSET Nat
      BY DEF D
    <3> QED BY <2>1, <3>1, LeastNumber
  <2>3. m \in Nat \ {0} /\ Byte(s, m) # Byte(t, m)
    OBVIOUS
  <2>4. \A j \in 1..(m - 1) : Byte(s, j) = Byte(t, j)
    <3>1. TAKE j \in 1..(m - 1)
    <3>2. j \in Nat \ {0} /\ ~ (m <= j)
      BY <2>3
    <3> QED BY <2>2, <3>2
  <2> HIDE DEF D
  <2>5. Byte(s, m) \in Int /\ Byte(t, m) \in Int
    BY <2>3, ByteType
  <2>6. Byte(s, m) < Byte(t, m) \/ Byte(t, m) < Byte(s, m)
    BY <2>3, <2>5
  <2>7. ByteLess(s, t, m) \/ ByteLess(t, s, m)
    BY <2>4, <2>6 DEF ByteLess
  <2> QED BY <2>3, <2>7, LessIsByteLess
<1> QED BY <1>1, <1>2, <1>3, <1>4

-----------------------------------------------------------------------------
(* Sorting                                                                 *)

\* R orders the numbers up to n.
Orders(R, n) ==
    \A i, j, k \in 1..n :
        /\ i # j => <<i, j>> \in R \/ <<j, i>> \in R
        /\ <<i, j>> \in R /\ <<j, k>> \in R => <<i, k>> \in R

\* p lists the numbers up to k in the order R, each once.
Lists(p, k, R) ==
    /\ p \in [1..k -> 1..k]
    /\ \A x \in 1..k : \E i \in 1..k : p[i] = x
    /\ \A i, j \in 1..k : i < j => <<p[i], p[j]>> \in R

\* k + 1 is put before the first number that it is to precede.
LEMMA Insertion ==
    ASSUME NEW n \in Nat, NEW R, Orders(R, n), NEW k \in Nat, k + 1 <= n,
           NEW p, Lists(p, k, R)
    PROVE  \E w : Lists(w, k + 1, R)
<1> DEFINE P == {i \in 1..(k + 1) : i = k + 1 \/ <<k + 1, p[i]>> \in R}
<1>1. PICK m \in P : \A i \in P : m <= i
  <2>1. k + 1 \in P /\ P \in SUBSET Nat
    OBVIOUS
  <2> HIDE DEF P
  <2> QED BY <2>1, LeastNumber
<1>2. m \in 1..(k + 1) /\ (m = k + 1 \/ <<k + 1, p[m]>> \in R)
  OBVIOUS
<1>3. \A i \in 1..(m - 1) : i \in 1..k /\ ~ (<<k + 1, p[i]>> \in R)
  <2>1. TAKE i \in 1..(m - 1)
  <2>2. i \in 1..k /\ ~ (m <= i)
    BY <1>2
  <2>3. i \notin P
    BY <1>1, <2>2
  <2> QED BY <2>2, <2>3
<1> HIDE DEF P
<1> DEFINE w == [i \in 1..(k + 1) |->
                   IF i < m THEN p[i] ELSE IF i = m THEN k + 1 ELSE p[i - 1]]
<1>4. \A i \in 1..k : p[i] \in 1..k /\ p[i] \in 1..n /\ p[i] # k + 1
  BY DEF Lists
<1>5. k + 1 \in 1..n
  OBVIOUS
<1>6. ASSUME NEW i \in 1..(k + 1)
      PROVE  /\ i < m => i \in 1..k /\ i \in 1..(m - 1) /\ w[i] = p[i]
             /\ i = m => w[i] = k + 1
             /\ i > m => i - 1 \in 1..k /\ w[i] = p[i - 1]
  BY <1>2
<1>7. w \in [1..(k + 1) -> 1..(k + 1)]
  <2>1. \A i \in 1..(k + 1) : w[i] \in 1..(k + 1)
    <3>1. TAKE i \in 1..(k + 1)
    <3> HIDE DEF w
    <3> QED BY <1>2, <1>4, <1>6
  <2> QED BY <2>1
<1>8. \A x \in 1..(k + 1) : \E i \in 1..(k + 1) : w[i] = x
  <2>1. TAKE x \in 1..(k + 1)
  <2>2. CASE x = k + 1
    BY <1>2, <1>6, <2>2
  <2>3. CASE x # k + 1
    <3>1. x \in 1..k
      BY <2>3
    <3>2. PICK i \in 1..k : p[i] = x
      BY <3>1 DEF Lists
    <3>3. CASE i < m
      BY <3>2, <3>3
    <3>4. CASE ~ (i < m)
      <4>1. i + 1 \in 1..(k + 1) /\ i + 1 > m /\ i + 1 - 1 = i
        BY <1>2, <3>4
      <4>2. w[i + 1] = p[i + 1 - 1]
        <5> HIDE DEF w
        <5> QED BY <1>6, <4>1
      <4>3. w[i + 1] = p[i]
        <5> HIDE DEF w
        <5> QED BY <4>1, <4>2
      <4> QED BY <3>2, <4>1, <4>3
    <3> QED BY <3>3, <3>4
  <2> QED BY <2>2, <2>3
<1>9. ASSUME NEW i \in 1..(k + 1), NEW j \in 1..(k + 1), i < j
      PROVE  <<w[i], w[j]>> \in R
  <2> HIDE DEF w
  <2>1. CASE j < m
    <3>1. i < m
      BY <1>2, <1>9, <2>1
    <3>2. w[i] = p[i] /\ w[j] = p[j] /\ i \in 1..k /\ j \in 1..k
      BY <1>6, <2>1, <3>1
    <3> QED BY <1>9, <3>2 DEF Lists
  <2>2. CASE i < m /\ j = m
    <3>1. w[i] = p[i] /\ w[j] = k + 1 /\ i \in 1..k /\ i \in 1..(m - 1)
      BY <1>6, <2>2
    <3>2. ~ (<<k + 1, p[i]>> \in R)
      BY <1>3, <3>1
    <3>3. p[i] \in 1..n /\ p[i] # k + 1
      BY <1>4, <3>1
    <3> QED BY <1>5, <3>1, <3>2, <3>3 DEF Orders
  <2>3. CASE i < m /\ j > m
    <3>1. w[i] = p[i] /\ w[j] = p[j - 1] /\ i \in 1..k /\ j - 1 \in 1..k
      BY <1>6, <2>3
    <3>2. i < j - 1
      BY <1>2, <2>3
    <3> QED BY <3>1, <3>2 DEF Lists
  <2>4. CASE i = m
    <3>1. w[i] = k + 1 /\ w[j] = p[j - 1] /\ j - 1 \in 1..k
      BY <1>6, <1>9, <2>4
    <3>2. m \in 1..k /\ <<k + 1, p[m]>> \in R
      BY <1>2, <1>9, <2>4
    <3>3. m = j - 1 \/ m < j - 1
      BY <1>9, <2>4, <1>2
    <3>4. CASE m = j - 1
      BY <3>1, <3>2, <3>4
    <3>5. CASE m < j - 1
      <4>1. <<p[m], p[j - 1]>> \in R
        BY <3>1, <3>2, <3>5 DEF Lists
      <4>2. p[m] \in 1..n /\ p[j - 1] \in 1..n
        BY <1>4, <3>1, <3>2
      <4>3. <<k + 1, p[j - 1]>> \in R
        BY <1>5, <3>2, <4>1, <4>2 DEF Orders
      <4> QED BY <3>1, <4>3
    <3> QED BY <3>3, <3>4, <3>5
  <2>5. CASE i > m
    <3>1. w[i] = p[i - 1] /\ w[j] = p[j - 1] /\ i - 1 \in 1..k /\ j - 1 \in 1..k
      BY <1>2, <1>6, <1>9, <2>5
    <3>2. i - 1 < j - 1
      BY <1>9
    <3> QED BY <3>1, <3>2 DEF Lists
  <2> QED BY <1>2, <1>9, <2>1, <2>2, <2>3, <2>4, <2>5
<1>10. Lists(w, k + 1, R)
  <2> HIDE DEF w
  <2> QED BY <1>7, <1>8, <1>9 DEF Lists
<1> QED BY <1>10

LEMMA SortingExists ==
    ASSUME NEW n \in Nat, NEW R, Orders(R, n)
    PROVE  \E p : Lists(p, n, R)
<1> DEFINE T == {k \in Nat : k <= n => \E p : Lists(p, k, R)}
<1>1. 0 \in T
  <2>1. Lists([i \in 1..0 |-> 0], 0, R)
    BY DEF Lists
  <2> QED BY <2>1
<1>2. ASSUME NEW k \in T PROVE k + 1 \in T
  <2>1. SUFFICES ASSUME k + 1 <= n PROVE \E p : Lists(p, k + 1, R)
    OBVIOUS
  <2>2. k \in Nat /\ k <= n
    BY <2>1
  <2>3. PICK p : Lists(p, k, R)
    BY <2>2
  <2> QED BY <2>1, <2>2, <2>3, Insertion
<1>3. T = Nat
  <2> HIDE DEF T
  <2>1. T \in SUBSET Nat
    BY DEF T
  <2> QED BY <1>1, <1>2, <2>1, Induction
<1> QED BY <1>3

\* What the packages of a list are; the name is a package's first field.
PackageList(ps) == ps \in Seq(Seq(Text)) /\ \A i \in DOMAIN ps : ps[i] # <<>>

LEMMA FieldType ==
    ASSUME NEW ps, PackageList(ps)
    PROVE  /\ Len(ps) \in Nat
           /\ \A i \in 1..Len(ps) : /\ ps[i] \in Seq(Text)
                                    /\ \A f \in 1..Len(ps[i]) : ps[i][f] \in Text
                                    /\ 1 \in 1..Len(ps[i]) /\ ps[i][1] \in Text
<1>1. ps \in Seq(Seq(Text)) /\ Len(ps) \in Nat
  BY DEF PackageList
<1>2. ASSUME NEW i \in 1..Len(ps)
      PROVE  /\ ps[i] \in Seq(Text)
             /\ \A f \in 1..Len(ps[i]) : ps[i][f] \in Text
             /\ 1 \in 1..Len(ps[i]) /\ ps[i][1] \in Text
  <2>1. ps[i] \in Seq(Text) /\ ps[i] # <<>>
    BY <1>1 DEF PackageList
  <2>2. Len(ps[i]) \in Nat /\ Len(ps[i]) # 0
    BY <2>1, EmptySeq
  <2> QED BY <2>1, <2>2
<1> QED BY <1>1, <1>2

\* The builder's order of the packages is a total one, so that there is one way to
\* sort them.
LEMMA SortedPositionsSort ==
    ASSUME NEW ps, PackageList(ps)
    PROVE  /\ SortedPositions(ps) \in [1..Len(ps) -> 1..Len(ps)]
           /\ \A k \in 1..Len(ps) : \E i \in 1..Len(ps) : SortedPositions(ps)[i] = k
           /\ \A i, j \in 1..Len(ps) :
                 i < j => ~ Less(ps[SortedPositions(ps)[j]][1], ps[SortedPositions(ps)[i]][1])
<1> DEFINE n == Len(ps)
           R == {d \in (1..n) \X (1..n) : Before(ps, d[1], d[2])}
<1>1. n \in Nat /\ \A i \in 1..n : ps[i][1] \in Text
  BY FieldType
<1>2. DOMAIN ps = 1..n
  BY DEF PackageList
<1>3. \A i, j \in 1..n : <<i, j>> \in R <=> Before(ps, i, j)
  OBVIOUS
<1>4. Orders(R, n)
  <2>1. SUFFICES ASSUME NEW i \in 1..n, NEW j \in 1..n, NEW k \in 1..n
                 PROVE  /\ i # j => <<i, j>> \in R \/ <<j, i>> \in R
                        /\ <<i, j>> \in R /\ <<j, k>> \in R => <<i, k>> \in R
    BY DEF Orders
  <2> HIDE DEF R, n
  <2>2. i \in Int /\ j \in Int /\ k \in Int
    BY <1>1
  <2>3. i # j => i < j \/ j < i
    BY <2>2
  <2>4. i < j /\ j < k => i < k
    BY <2>2
  <2>5. ps[i][1] \in Text /\ ps[j][1] \in Text /\ ps[k][1] \in Text
    BY <1>1
  <2>6. ps[i][1] # ps[j][1] => Less(ps[i][1], ps[j][1]) \/ Less(ps[j][1], ps[i][1])
    BY <2>5, LessIsOrder
  <2>7. Less(ps[i][1], ps[j][1]) /\ Less(ps[j][1], ps[k][1]) => Less(ps[i][1], ps[k][1])
    BY <2>5, LessIsOrder
  <2>8. i # j => Before(ps, i, j) \/ Before(ps, j, i)
    BY <2>3, <2>6 DEF Before
  <2>9. Before(ps, i, j) /\ Before(ps, j, k) => Before(ps, i, k)
    BY <2>4, <2>7 DEF Before
  <2> QED BY <1>3, <2>8, <2>9
<1>5. PICK q : Lists(q, n, R)
  <2> HIDE DEF R, n
  <2> QED BY <1>1, <1>4, SortingExists
<1>6. q \in [1..n -> 1..n] /\ Sorts(q, ps)
  <2> HIDE DEF R, n
  <2>1. q \in [1..n -> 1..n]
    BY <1>5 DEF Lists
  <2>2. \A k \in 1..n : \E i \in 1..n : q[i] = k
    BY <1>5 DEF Lists
  <2>3. \A i, j \in 1..n : i < j => Before(ps, q[i], q[j])
    BY <1>3, <1>5, <2>1 DEF Lists
  <2> QED BY <1>2, <2>1, <2>2, <2>3 DEF Sorts
<1> DEFINE p == SortedPositions(ps)
<1>7. p \in [1..n -> 1..n] /\ Sorts(p, ps)
  <2> HIDE DEF n
  <2>1. p = CHOOSE x \in [1..n -> 1..n] : Sorts(x, ps)
    BY <1>2 DEF SortedPositions
  <2> HIDE DEF p
  <2> QED BY <1>6, <2>1
<1>8. ASSUME NEW i \in 1..n, NEW j \in 1..n, i < j
      PROVE  ~ Less(ps[p[j]][1], ps[p[i]][1])
  <2> HIDE DEF p, n
  <2>1. p[i] \in 1..n /\ p[j] \in 1..n
    BY <1>7
  <2>2. Before(ps, p[i], p[j])
    BY <1>2, <1>7, <1>8 DEF Sorts
  <2>3. ps[p[i]][1] \in Text /\ ps[p[j]][1] \in Text
    BY <1>1, <2>1
  <2> QED BY <2>2, <2>3, LessIsOrder DEF Before
<1> HIDE DEF p
<1>9. \A k \in 1..n : \E i \in 1..n : p[i] = k
  BY <1>2, <1>7 DEF Sorts
<1> QED BY <1>7, <1>8, <1>9 DEF p

-----------------------------------------------------------------------------
(* The string table                                                        *)

\* The reference is to a place where s is in the bytes.
RefersTo(bytes, ref, s) ==
    /\ ref.len = Len(s)
    /\ ref.off \in Nat
    /\ ref.off + Len(s) <= Len(bytes)
    /\ \A i \in 1..Len(s) : bytes[ref.off + i] = s[i]

\* Every string that was interned can be found again, while the widths suffice.
IsTable(table) ==
    /\ table.bytes \in Text
    /\ DOMAIN table.refs \subseteq Text \ {<<>>}
    /\ \A s \in DOMAIN table.refs :
          Len(s) < U16 /\ Len(table.bytes) < U32 => RefersTo(table.bytes, table.refs[s], s)

LEMMA Widths == U16 \in Nat \ {0} /\ U32 \in Nat \ {0}
BY IndexAssumption

LEMMA ModuloIsIdentity ==
    ASSUME NEW x \in Nat, NEW y \in Nat \ {0}, x < y
    PROVE  x % y = x
OBVIOUS

LEMMA AppendedBytes ==
    ASSUME NEW bytes \in Text, NEW s \in Text
    PROVE  /\ bytes \o s \in Text
           /\ Len(bytes \o s) = Len(bytes) + Len(s)
           /\ \A i \in 1..Len(bytes) : (bytes \o s)[i] = bytes[i]
           /\ \A i \in 1..Len(s) : (bytes \o s)[Len(bytes) + i] = s[i]
           /\ Len(bytes) \in Nat /\ Len(s) \in Nat
BY DEF Text

LEMMA InternIs ==
    ASSUME NEW table, IsTable(table), NEW s \in Text
    PROVE  /\ IsTable(Intern(table, s))
           /\ DOMAIN table.refs \subseteq DOMAIN Intern(table, s).refs
           /\ s = <<>> \/ s \in DOMAIN Intern(table, s).refs
<1>1. CASE s = <<>> \/ s \in DOMAIN table.refs
  BY <1>1 DEF Intern
<1>2. CASE ~ (s = <<>> \/ s \in DOMAIN table.refs)
  <2> DEFINE new == Intern(table, s)
             ref == [off |-> Len(table.bytes) % U32, len |-> Len(s) % U16]
  <2>1. /\ new.bytes = table.bytes \o s
        /\ DOMAIN new.refs = DOMAIN table.refs \cup {s}
        /\ new.refs[s] = ref
        /\ \A t \in DOMAIN table.refs : new.refs[t] = table.refs[t]
    BY <1>2 DEF Intern
  <2> HIDE DEF new
  <2> DEFINE bytes == table.bytes
  <2>2. bytes \in Text /\ new.bytes = bytes \o s
    BY <2>1 DEF IsTable
  <2>3. /\ new.bytes \in Text
        /\ Len(new.bytes) = Len(bytes) + Len(s)
        /\ \A i \in 1..Len(bytes) : new.bytes[i] = bytes[i]
        /\ \A i \in 1..Len(s) : new.bytes[Len(bytes) + i] = s[i]
        /\ Len(bytes) \in Nat /\ Len(s) \in Nat
    <3> HIDE DEF bytes
    <3>1. /\ bytes \o s \in Text
          /\ Len(bytes \o s) = Len(bytes) + Len(s)
          /\ \A i \in 1..Len(bytes) : (bytes \o s)[i] = bytes[i]
          /\ \A i \in 1..Len(s) : (bytes \o s)[Len(bytes) + i] = s[i]
          /\ Len(bytes) \in Nat /\ Len(s) \in Nat
      BY <2>2, AppendedBytes
    <3> QED BY <2>2, <3>1
  <2>4. DOMAIN new.refs \subseteq Text \ {<<>>}
    BY <1>2, <2>1 DEF IsTable
  <2>5. ASSUME NEW t \in DOMAIN new.refs, Len(t) < U16, Len(new.bytes) < U32
        PROVE  RefersTo(new.bytes, new.refs[t], t)
    <3>1. Len(bytes) < U32
      BY <2>3, <2>5, Widths
    <3>2. CASE t = s
      <4>1. ref.off = Len(bytes) /\ ref.len = Len(s)
        <5>1. Len(bytes) % U32 = Len(bytes)
          BY <2>3, <3>1, Widths, ModuloIsIdentity
        <5>2. Len(s) % U16 = Len(s)
          BY <2>3, <2>5, <3>2, Widths, ModuloIsIdentity
        <5> QED BY <5>1, <5>2
      <4>2. new.refs[t] = ref
        BY <2>1, <3>2
      <4>3. new.refs[t].off = Len(bytes) /\ new.refs[t].len = Len(t)
        BY <3>2, <4>1, <4>2
      <4> HIDE DEF ref, bytes
      <4>4. \A i \in 1..Len(t) : new.bytes[Len(bytes) + i] = t[i]
        BY <2>3, <3>2
      <4>5. Len(bytes) \in Nat /\ Len(bytes) + Len(t) <= Len(new.bytes)
        BY <2>3, <3>2
      <4> QED BY <4>3, <4>4, <4>5 DEF RefersTo
    <3>3. CASE t # s
      <4>1. t \in DOMAIN table.refs /\ new.refs[t] = table.refs[t]
        BY <2>1, <3>3
      <4>2. RefersTo(bytes, table.refs[t], t)
        BY <2>5, <3>1, <4>1 DEF IsTable
      <4>3. Len(t) \in Nat
        BY <2>4, <2>5 DEF Text
      <4> DEFINE o == table.refs[t].off
      <4>4. o \in Nat /\ o + Len(t) <= Len(bytes) /\ \A i \in 1..Len(t) : bytes[o + i] = t[i]
        BY <4>2 DEF RefersTo
      <4>5. new.refs[t].len = Len(t) /\ new.refs[t].off = o
        BY <4>1, <4>2 DEF RefersTo
      <4> HIDE DEF o, bytes
      <4>6. \A i \in 1..Len(t) : o + i \in 1..Len(bytes)
        BY <2>3, <4>3, <4>4
      <4>7. \A i \in 1..Len(t) : new.bytes[o + i] = t[i]
        BY <2>3, <4>4, <4>6
      <4>8. o + Len(t) <= Len(new.bytes)
        BY <2>3, <4>3, <4>4
      <4> QED BY <4>4, <4>5, <4>7, <4>8 DEF RefersTo
    <3> QED BY <3>2, <3>3
  <2>6. IsTable(new)
    BY <2>3, <2>4, <2>5 DEF IsTable
  <2> QED BY <2>1, <2>6 DEF new
<1> QED BY <1>1, <1>2

\* The tables after each of the strings.
Tables(table, strings, upTo) ==
    upTo = [k \in 0..Len(strings) |->
              IF k = 0 THEN table ELSE Intern(upTo[k - 1], strings[k])]

LEMMA TablesExist ==
    ASSUME NEW table, NEW strings \in Seq(Text)
    PROVE  \E upTo : Tables(table, strings, upTo)
<1> DEFINE n == Len(strings)
           Up(u, k) == /\ u = [i \in 0..n |-> u[i]]
                       /\ \A i \in 0..k : u[i] = IF i = 0 THEN table ELSE Intern(u[i - 1], strings[i])
           T == {k \in Nat : k <= n => \E u : Up(u, k)}
<1>0. n \in Nat
  OBVIOUS
<1> HIDE DEF n
<1>1. 0 \in T
  <2> DEFINE u == [i \in 0..n |-> table]
  <2>1. u = [i \in 0..n |-> u[i]]
    OBVIOUS
  <2>2. \A i \in 0..0 : u[i] = IF i = 0 THEN table ELSE Intern(u[i - 1], strings[i])
    BY <1>0
  <2>3. Up(u, 0)
    BY <2>1, <2>2
  <2> QED BY <2>3
<1>2. ASSUME NEW k \in T PROVE k + 1 \in T
  <2>1. SUFFICES ASSUME k + 1 <= n PROVE \E u : Up(u, k + 1)
    OBVIOUS
  <2>2. k \in Nat /\ k <= n
    BY <1>0, <2>1
  <2>3. PICK u : Up(u, k)
    BY <2>2
  <2> DEFINE w == [i \in 0..n |-> IF i = k + 1 THEN Intern(u[k], strings[k + 1]) ELSE u[i]]
  <2>4. w = [i \in 0..n |-> w[i]]
    OBVIOUS
  <2>5. ASSUME NEW i \in 0..(k + 1)
        PROVE  w[i] = IF i = 0 THEN table ELSE Intern(w[i - 1], strings[i])
    <3>1. CASE i = k + 1
      <4>1. w[i] = Intern(u[k], strings[i]) /\ i # 0
        BY <1>0, <2>1, <2>2, <3>1
      <4>2. i - 1 = k /\ k \in 0..n /\ k # k + 1
        BY <1>0, <2>2, <3>1
      <4>3. w[i - 1] = u[k]
        BY <4>2
      <4> HIDE DEF w
      <4> QED BY <4>1, <4>3
    <3>2. CASE i # k + 1
      <4>1. i \in 0..k /\ i \in 0..n
        BY <1>0, <2>2, <3>2
      <4>2. w[i] = u[i]
        BY <3>2, <4>1
      <4>3. i # 0 => i - 1 \in 0..n /\ i - 1 # k + 1
        BY <1>0, <4>1, <2>2
      <4>4. i # 0 => w[i - 1] = u[i - 1]
        BY <4>3
      <4>5. u[i] = IF i = 0 THEN table ELSE Intern(u[i - 1], strings[i])
        BY <2>3, <4>1
      <4> HIDE DEF w
      <4> QED BY <4>2, <4>4, <4>5
    <3> QED BY <3>1, <3>2
  <2>6. Up(w, k + 1)
    BY <2>4, <2>5
  <2> QED BY <2>6
<1>3. T = Nat
  <2> HIDE DEF T
  <2>1. T \in SUBSET Nat
    BY DEF T
  <2> QED BY <1>1, <1>2, <2>1, Induction
<1>4. PICK u : Up(u, n)
  <2>1. n \in T /\ n <= n
    BY <1>0, <1>3
  <2> QED BY <2>1
<1>5. u = [i \in 0..n |-> u[i]] /\ \A i \in 0..n : u[i] = IF i = 0 THEN table ELSE Intern(u[i - 1], strings[i])
  BY <1>4 DEF Up
<1>6. u = [i \in 0..n |-> IF i = 0 THEN table ELSE Intern(u[i - 1], strings[i])]
  BY <1>5
<1> QED BY <1>6 DEF Tables, n

LEMMA InternAllIs ==
    ASSUME NEW table, IsTable(table), NEW strings \in Seq(Text)
    PROVE  /\ IsTable(InternAll(table, strings))
           /\ DOMAIN table.refs \subseteq DOMAIN InternAll(table, strings).refs
           /\ \A k \in 1..Len(strings) :
                 strings[k] = <<>> \/ strings[k] \in DOMAIN InternAll(table, strings).refs
<1> DEFINE upTo == CHOOSE u : u = [k \in 0..Len(strings) |->
                      IF k = 0 THEN table ELSE Intern(u[k - 1], strings[k])]
           n == Len(strings)
<1>1. InternAll(table, strings) = upTo[n]
  BY DEF InternAll
<1>2. Tables(table, strings, upTo)
  <2>1. PICK u : Tables(table, strings, u)
    BY TablesExist
  <2>2. u = [k \in 0..Len(strings) |-> IF k = 0 THEN table ELSE Intern(u[k - 1], strings[k])]
    BY <2>1 DEF Tables
  <2>3. upTo = [k \in 0..Len(strings) |->
                  IF k = 0 THEN table ELSE Intern(upTo[k - 1], strings[k])]
    BY <2>2
  <2> HIDE DEF upTo
  <2> QED BY <2>3 DEF Tables
<1> HIDE DEF upTo
<1>3. n \in Nat /\ \A k \in 1..n : strings[k] \in Text
  OBVIOUS
<1>4. \A k \in 0..n : upTo[k] = IF k = 0 THEN table ELSE Intern(upTo[k - 1], strings[k])
  BY <1>2 DEF Tables
<1> HIDE DEF n
<1> DEFINE Good(k) == /\ IsTable(upTo[k])
                      /\ DOMAIN table.refs \subseteq DOMAIN upTo[k].refs
                      /\ \A j \in 1..k : strings[j] = <<>> \/ strings[j] \in DOMAIN upTo[k].refs
           T == {k \in Nat : k <= n => Good(k)}
<1>5. 0 \in T
  <2>1. upTo[0] = table
    BY <1>3, <1>4
  <2>2. Good(0)
    BY <2>1
  <2> HIDE DEF Good
  <2> QED BY <2>2
<1>6. ASSUME NEW k \in T PROVE k + 1 \in T
  <2>1. SUFFICES ASSUME k + 1 <= n PROVE Good(k + 1)
    OBVIOUS
  <2>2. k \in Nat /\ k <= n /\ k + 1 \in 0..n /\ k + 1 \in 1..n /\ k + 1 # 0 /\ k + 1 - 1 = k
    BY <1>3, <2>1
  <2>3. Good(k)
    BY <2>2
  <2> HIDE DEF T
  <2>4. upTo[k + 1] = Intern(upTo[k], strings[k + 1])
    BY <1>4, <2>2
  <2>5. /\ IsTable(Intern(upTo[k], strings[k + 1]))
        /\ DOMAIN upTo[k].refs \subseteq DOMAIN Intern(upTo[k], strings[k + 1]).refs
        /\ strings[k + 1] = <<>> \/ strings[k + 1] \in DOMAIN Intern(upTo[k], strings[k + 1]).refs
    BY <1>3, <2>2, <2>3, InternIs
  <2>6. ASSUME NEW j \in 1..(k + 1)
        PROVE  strings[j] = <<>> \/ strings[j] \in DOMAIN upTo[k + 1].refs
    <3>1. j = k + 1 \/ j \in 1..k
      BY <2>2
    <3> QED BY <2>3, <2>4, <2>5, <3>1
  <2> QED BY <2>3, <2>4, <2>5, <2>6
<1>7. T = Nat
  <2> HIDE DEF T
  <2>1. T \in SUBSET Nat
    BY DEF T
  <2> QED BY <1>5, <1>6, <2>1, Induction
<1>8. Good(n)
  <2>1. n \in T /\ n <= n
    BY <1>3, <1>7
  <2> QED BY <2>1
<1> QED BY <1>1, <1>8 DEF n

\* The tables after each of the packages.
TablesOf(ps, upTo) ==
    upTo = [k \in 0..Len(ps) |->
              IF k = 0 THEN EmptyTable ELSE InternAll(upTo[k - 1], ps[k])]

LEMMA TablesOfExist ==
    ASSUME NEW ps, PackageList(ps)
    PROVE  \E upTo : TablesOf(ps, upTo)
<1> DEFINE n == Len(ps)
           Up(u, k) == /\ u = [i \in 0..n |-> u[i]]
                       /\ \A i \in 0..k : u[i] = IF i = 0 THEN EmptyTable ELSE InternAll(u[i - 1], ps[i])
           T == {k \in Nat : k <= n => \E u : Up(u, k)}
<1>0. n \in Nat
  BY FieldType
<1> HIDE DEF n
<1>1. 0 \in T
  <2> DEFINE u == [i \in 0..n |-> EmptyTable]
  <2>1. u = [i \in 0..n |-> u[i]]
    OBVIOUS
  <2>2. \A i \in 0..0 : u[i] = IF i = 0 THEN EmptyTable ELSE InternAll(u[i - 1], ps[i])
    BY <1>0
  <2>3. Up(u, 0)
    BY <2>1, <2>2
  <2> QED BY <2>3
<1>2. ASSUME NEW k \in T PROVE k + 1 \in T
  <2>1. SUFFICES ASSUME k + 1 <= n PROVE \E u : Up(u, k + 1)
    OBVIOUS
  <2>2. k \in Nat /\ k <= n
    BY <1>0, <2>1
  <2>3. PICK u : Up(u, k)
    BY <2>2
  <2> DEFINE w == [i \in 0..n |-> IF i = k + 1 THEN InternAll(u[k], ps[k + 1]) ELSE u[i]]
  <2>4. w = [i \in 0..n |-> w[i]]
    OBVIOUS
  <2>5. ASSUME NEW i \in 0..(k + 1)
        PROVE  w[i] = IF i = 0 THEN EmptyTable ELSE InternAll(w[i - 1], ps[i])
    <3>1. CASE i = k + 1
      <4>1. w[i] = InternAll(u[k], ps[i]) /\ i # 0
        BY <1>0, <2>1, <2>2, <3>1
      <4>2. i - 1 = k /\ k \in 0..n /\ k # k + 1
        BY <1>0, <2>2, <3>1
      <4>3. w[i - 1] = u[k]
        BY <4>2
      <4> HIDE DEF w
      <4> QED BY <4>1, <4>3
    <3>2. CASE i # k + 1
      <4>1. i \in 0..k /\ i \in 0..n
        BY <1>0, <2>2, <3>2
      <4>2. w[i] = u[i]
        BY <3>2, <4>1
      <4>3. i # 0 => i - 1 \in 0..n /\ i - 1 # k + 1
        BY <1>0, <4>1, <2>2
      <4>4. i # 0 => w[i - 1] = u[i - 1]
        BY <4>3
      <4>5. u[i] = IF i = 0 THEN EmptyTable ELSE InternAll(u[i - 1], ps[i])
        BY <2>3, <4>1
      <4> HIDE DEF w
      <4> QED BY <4>2, <4>4, <4>5
    <3> QED BY <3>1, <3>2
  <2>6. Up(w, k + 1)
    BY <2>4, <2>5
  <2> QED BY <2>6
<1>3. T = Nat
  <2> HIDE DEF T
  <2>1. T \in SUBSET Nat
    BY DEF T
  <2> QED BY <1>1, <1>2, <2>1, Induction
<1>4. PICK u : Up(u, n)
  <2>1. n \in T /\ n <= n
    BY <1>0, <1>3
  <2> QED BY <2>1
<1>5. u = [i \in 0..n |-> u[i]] /\ \A i \in 0..n : u[i] = IF i = 0 THEN EmptyTable ELSE InternAll(u[i - 1], ps[i])
  BY <1>4 DEF Up
<1>6. u = [i \in 0..n |-> IF i = 0 THEN EmptyTable ELSE InternAll(u[i - 1], ps[i])]
  BY <1>5
<1> QED BY <1>6 DEF TablesOf, n

LEMMA EmptyTableIs == IsTable(EmptyTable)
<1>1. EmptyTable.bytes = <<>> /\ DOMAIN EmptyTable.refs = {}
  BY DEF EmptyTable
<1>2. <<>> \in Text
  BY DEF Text
<1> QED BY <1>1, <1>2 DEF IsTable

LEMMA StringTableIs ==
    ASSUME NEW ps, PackageList(ps)
    PROVE  /\ IsTable(StringTable(ps))
           /\ \A k \in 1..Len(ps) : \A f \in 1..Len(ps[k]) :
                 ps[k][f] = <<>> \/ ps[k][f] \in DOMAIN StringTable(ps).refs
<1> DEFINE upTo == CHOOSE u : u = [k \in 0..Len(ps) |->
                      IF k = 0 THEN EmptyTable ELSE InternAll(u[k - 1], ps[k])]
           n == Len(ps)
<1>1. StringTable(ps) = upTo[n]
  BY DEF StringTable
<1>2. TablesOf(ps, upTo)
  <2>1. PICK u : TablesOf(ps, u)
    BY TablesOfExist
  <2>2. u = [k \in 0..Len(ps) |-> IF k = 0 THEN EmptyTable ELSE InternAll(u[k - 1], ps[k])]
    BY <2>1 DEF TablesOf
  <2>3. upTo = [k \in 0..Len(ps) |->
                  IF k = 0 THEN EmptyTable ELSE InternAll(upTo[k - 1], ps[k])]
    BY <2>2
  <2> HIDE DEF upTo
  <2> QED BY <2>3 DEF TablesOf
<1> HIDE DEF upTo
<1>3. n \in Nat /\ \A k \in 1..n : ps[k] \in Seq(Text)
  BY FieldType
<1>4. \A k \in 0..n : upTo[k] = IF k = 0 THEN EmptyTable ELSE InternAll(upTo[k - 1], ps[k])
  BY <1>2 DEF TablesOf
<1> HIDE DEF n
<1> DEFINE Good(k) == /\ IsTable(upTo[k])
                      /\ \A j \in 1..k : \A f \in 1..Len(ps[j]) :
                            ps[j][f] = <<>> \/ ps[j][f] \in DOMAIN upTo[k].refs
           T == {k \in Nat : k <= n => Good(k)}
<1>5. 0 \in T
  <2>1. upTo[0] = EmptyTable
    BY <1>3, <1>4
  <2>2. Good(0)
    BY <2>1, EmptyTableIs
  <2> HIDE DEF Good
  <2> QED BY <2>2
<1>6. ASSUME NEW k \in T PROVE k + 1 \in T
  <2>1. SUFFICES ASSUME k + 1 <= n PROVE Good(k + 1)
    OBVIOUS
  <2>2. k \in Nat /\ k <= n /\ k + 1 \in 0..n /\ k + 1 \in 1..n /\ k + 1 # 0 /\ k + 1 - 1 = k
    BY <1>3, <2>1
  <2>3. Good(k)
    BY <2>2
  <2> HIDE DEF T
  <2>4. upTo[k + 1] = InternAll(upTo[k], ps[k + 1])
    BY <1>4, <2>2
  <2>5. /\ IsTable(InternAll(upTo[k], ps[k + 1]))
        /\ DOMAIN upTo[k].refs \subseteq DOMAIN InternAll(upTo[k], ps[k + 1]).refs
        /\ \A f \in 1..Len(ps[k + 1]) : \/ ps[k + 1][f] = <<>>
                                       \/ ps[k + 1][f] \in DOMAIN InternAll(upTo[k], ps[k + 1]).refs
    BY <1>3, <2>2, <2>3, InternAllIs
  <2>6. ASSUME NEW j \in 1..(k + 1), NEW f \in 1..Len(ps[j])
        PROVE  ps[j][f] = <<>> \/ ps[j][f] \in DOMAIN upTo[k + 1].refs
    <3>1. j = k + 1 \/ j \in 1..k
      BY <2>2
    <3> QED BY <2>3, <2>4, <2>5, <3>1
  <2> QED BY <2>3, <2>4, <2>5, <2>6
<1>7. T = Nat
  <2> HIDE DEF T
  <2>1. T \in SUBSET Nat
    BY DEF T
  <2> QED BY <1>5, <1>6, <2>1, Induction
<1>8. Good(n)
  <2>1. n \in T /\ n <= n
    BY <1>3, <1>7
  <2> QED BY <2>1
<1> QED BY <1>1, <1>8 DEF n

-----------------------------------------------------------------------------
(* What the reader sees of an index that was built                         *)

LEMMA RefIs ==
    ASSUME NEW table, IsTable(table), NEW s \in Text, s = <<>> \/ s \in DOMAIN table.refs,
           Len(s) < U16, Len(table.bytes) < U32
    PROVE  /\ s = <<>> => Ref(table, s) = EmptyRef
           /\ s # <<>> => RefersTo(table.bytes, Ref(table, s), s)
<1>1. <<>> \notin DOMAIN table.refs
  BY DEF IsTable
<1> QED BY <1>1 DEF Ref, IsTable

LEMMA PartOfText ==
    ASSUME NEW bytes \in Text, NEW s \in Text, NEW o \in Nat, s # <<>>, o + Len(s) <= Len(bytes),
           \A i \in 1..Len(s) : bytes[o + i] = s[i]
    PROVE  SubSeq(bytes, o + 1, o + Len(s)) = s
<1> DEFINE t == SubSeq(bytes, o + 1, o + Len(s))
<1>1. Len(s) \in Nat \ {0} /\ Len(bytes) \in Nat /\ s \in Seq(Nat) /\ bytes \in Seq(Nat)
  BY EmptySeq DEF Text
<1>2. o + 1 \in 1..Len(bytes) + 1 /\ o + Len(s) \in o + 1 - 1..Len(bytes)
  BY <1>1
<1>3. t \in Seq(Nat) /\ Len(t) = Len(s) /\ \A i \in 1..Len(s) : t[i] = bytes[o + i]
  BY <1>1
<1>4. \A i \in 1..Len(t) : t[i] = s[i]
  BY <1>3
<1> HIDE DEF t
<1>5. t = s
  BY <1>1, <1>3, <1>4, SeqEqual
<1> QED BY <1>5 DEF t

LEMMA StringAtIs ==
    ASSUME NEW table, IsTable(table), index.strings = table.bytes,
           NEW s \in Text, s = <<>> \/ s \in DOMAIN table.refs,
           Len(s) < U16, Len(table.bytes) < U32
    PROVE  InBounds(Ref(table, s)) /\ StringAt(Ref(table, s)) = s
<1> DEFINE ref == Ref(table, s)
<1>1. CASE s = <<>>
  <2>1. ref = EmptyRef
    BY <1>1, RefIs
  <2>2. ref.len = 0
    BY <2>1 DEF EmptyRef
  <2> HIDE DEF ref
  <2>3. InBounds(ref) /\ StringAt(ref) = s
    BY <1>1, <2>2 DEF InBounds, StringAt
  <2> QED BY <2>3 DEF ref
<1>2. CASE s # <<>>
  <2>1. RefersTo(table.bytes, ref, s)
    BY <1>2, RefIs
  <2> HIDE DEF ref
  <2>2. /\ ref.len = Len(s) /\ ref.off \in Nat /\ ref.off + Len(s) <= Len(table.bytes)
        /\ \A i \in 1..Len(s) : table.bytes[ref.off + i] = s[i]
    BY <2>1 DEF RefersTo
  <2>3. Len(s) # 0
    BY <1>2, EmptySeq DEF Text
  <2>4. InBounds(ref)
    BY <2>2 DEF InBounds
  <2>5. table.bytes \in Text
    BY DEF IsTable
  <2>6. SubSeq(table.bytes, ref.off + 1, ref.off + Len(s)) = s
    BY <1>2, <2>2, <2>5, PartOfText
  <2>7. StringAt(ref) = SubSeq(index.strings, ref.off + 1, ref.off + ref.len)
    BY <2>2, <2>3, <2>4 DEF StringAt
  <2>8. InBounds(ref) /\ StringAt(ref) = s
    BY <2>2, <2>4, <2>6, <2>7
  <2> QED BY <2>8 DEF ref
<1> QED BY <1>1, <1>2

\* The entries of the sorted index are those of the packages, by their names.
Sorted ==
    /\ Count = Len(packages) /\ Count \in Nat
    /\ \A i \in 1..Count :
          /\ index.index[i].entry < Count
          /\ index.index[i].entry + 1 \in 1..Count
          /\ InBounds(index.index[i].ref)
          /\ NameAt(i) \in Text
          /\ NameAt(i) = packages[index.index[i].entry + 1][1]
    /\ \A i, j \in 1..Count : i < j => ~ Less(NameAt(j), NameAt(i))
    /\ \A k \in 1..Count : \E i \in 1..Count : index.index[i].entry + 1 = k
    /\ \A k \in 1..Count : packages[k] = [f \in DOMAIN index.entries[k] |-> StringAt(index.entries[k][f])]

LEMMA IndexIsSorted ==
    ASSUME PackageList(packages), index = Build(packages), Representable
    PROVE  Sorted
<1> DEFINE ps == packages
           table == StringTable(ps)
           p == SortedPositions(ps)
           n == Len(ps)
<1>1. /\ n \in Nat
      /\ \A i \in 1..n : /\ ps[i] \in Seq(Text)
                         /\ \A f \in 1..Len(ps[i]) : ps[i][f] \in Text
                         /\ 1 \in 1..Len(ps[i]) /\ ps[i][1] \in Text
  BY FieldType
<1>2. DOMAIN ps = 1..n
  BY DEF PackageList
<1>3. /\ p \in [1..n -> 1..n]
      /\ \A k \in 1..n : \E i \in 1..n : p[i] = k
      /\ \A i, j \in 1..n : i < j => ~ Less(ps[p[j]][1], ps[p[i]][1])
  BY SortedPositionsSort
<1>4. /\ IsTable(table)
      /\ \A k \in 1..n : \A f \in 1..Len(ps[k]) : ps[k][f] = <<>> \/ ps[k][f] \in DOMAIN table.refs
  BY StringTableIs
<1>5. /\ index.index = [i \in DOMAIN p |->
                          [ref |-> Ref(table, ps[p[i]][1]), entry |-> (p[i] - 1) % U16]]
      /\ index.entries = [i \in DOMAIN ps |-> [f \in DOMAIN ps[i] |-> Ref(table, ps[i][f])]]
      /\ index.strings = table.bytes
  BY DEF Build
<1>6. /\ n <= U16
      /\ \A i \in 1..n : \A f \in DOMAIN ps[i] : Len(ps[i][f]) < U16
      /\ Len(table.bytes) < U32
  BY <1>2, <1>5 DEF Representable
<1> HIDE DEF ps, table, p
<1>7. ASSUME NEW i \in 1..n, NEW f \in 1..Len(ps[i])
      PROVE  InBounds(Ref(table, ps[i][f])) /\ StringAt(Ref(table, ps[i][f])) = ps[i][f]
  <2>1. DOMAIN ps[i] = 1..Len(ps[i])
    BY <1>1
  <2> DEFINE s == ps[i][f]
  <2>2. s \in Text /\ (s = <<>> \/ s \in DOMAIN table.refs) /\ Len(s) < U16
    BY <1>1, <1>4, <1>6, <2>1
  <2> HIDE DEF s
  <2>3. InBounds(Ref(table, s)) /\ StringAt(Ref(table, s)) = s
    BY <1>4, <1>5, <1>6, <2>2, StringAtIs
  <2> QED BY <2>3 DEF s
<1> HIDE DEF n
<1>8. Count = n
  <2>1. index.entries = [i \in 1..n |-> [f \in DOMAIN ps[i] |-> Ref(table, ps[i][f])]]
    BY <1>2, <1>5
  <2>2. DOMAIN index.entries = 1..n
    BY <2>1
  <2>3. Len(index.entries) = n
    BY <1>1, <2>2
  <2> QED BY <2>3 DEF Count
<1>9. ASSUME NEW i \in 1..n
      PROVE  /\ p[i] \in 1..n
             /\ index.index[i].ref = Ref(table, ps[p[i]][1])
             /\ index.index[i].entry = p[i] - 1
             /\ InBounds(index.index[i].ref)
             /\ NameAt(i) = ps[p[i]][1]
  <2>1. p[i] \in 1..n /\ DOMAIN p = 1..n
    BY <1>3
  <2>2. index.index[i] = [ref |-> Ref(table, ps[p[i]][1]), entry |-> (p[i] - 1) % U16]
    BY <1>5, <2>1
  <2>3. (p[i] - 1) % U16 = p[i] - 1
    <3>1. p[i] - 1 \in Nat /\ p[i] - 1 < U16
      BY <1>1, <1>6, <2>1, Widths
    <3> QED BY <3>1, Widths, ModuloIsIdentity
  <2>4. 1 \in 1..Len(ps[p[i]])
    BY <1>1, <2>1
  <2>5. InBounds(Ref(table, ps[p[i]][1])) /\ StringAt(Ref(table, ps[p[i]][1])) = ps[p[i]][1]
    BY <1>7, <2>1, <2>4
  <2>6. index.index[i].ref = Ref(table, ps[p[i]][1]) /\ index.index[i].entry = p[i] - 1
    BY <2>2, <2>3
  <2> QED BY <2>1, <2>5, <2>6 DEF NameAt
<1>10. ASSUME NEW i \in 1..n
       PROVE  /\ index.index[i].entry < n
              /\ index.index[i].entry + 1 = p[i]
              /\ NameAt(i) \in Text
  <2>1. p[i] \in 1..n /\ index.index[i].entry = p[i] - 1
    BY <1>9
  <2>2. p[i] \in Int /\ p[i] <= n
    BY <1>1, <2>1
  <2>3. ps[p[i]][1] \in Text
    BY <1>1, <2>1
  <2> QED BY <1>1, <1>9, <2>1, <2>2, <2>3
<1>11. ASSUME NEW i \in 1..n, NEW j \in 1..n, i < j PROVE ~ Less(NameAt(j), NameAt(i))
  BY <1>3, <1>9, <1>11
<1>12. ASSUME NEW k \in 1..n PROVE \E i \in 1..n : index.index[i].entry + 1 = k
  BY <1>3, <1>10
<1>13. ASSUME NEW k \in 1..n
       PROVE  ps[k] = [f \in DOMAIN index.entries[k] |-> StringAt(index.entries[k][f])]
  <2>1. index.entries[k] = [f \in DOMAIN ps[k] |-> Ref(table, ps[k][f])]
    BY <1>2, <1>5
  <2>2. DOMAIN ps[k] = 1..Len(ps[k]) /\ ps[k] = [f \in 1..Len(ps[k]) |-> ps[k][f]]
    <3>1. ps[k] \in Seq(Text)
      BY <1>1
    <3> QED BY <3>1
  <2>3. DOMAIN index.entries[k] = 1..Len(ps[k])
    BY <2>1, <2>2
  <2>4. \A f \in 1..Len(ps[k]) : StringAt(index.entries[k][f]) = ps[k][f]
    BY <1>7, <2>1, <2>2
  <2>5. [f \in DOMAIN index.entries[k] |-> StringAt(index.entries[k][f])]
          = [f \in 1..Len(ps[k]) |-> ps[k][f]]
    BY <2>3, <2>4
  <2> QED BY <2>2, <2>5
<1>14. ps = packages
  BY DEF ps
<1> QED BY <1>1, <1>8, <1>9, <1>10, <1>11, <1>12, <1>13, <1>14 DEF Sorted, n

-----------------------------------------------------------------------------
(* The reader                                                              *)

\* The bounds of the search are around every entry of the name.
Searching ==
    /\ low \in 0..Count /\ high \in 0..Count
    /\ \A i \in 1..low : Less(NameAt(i), sought)
    /\ \A i \in (high + 1)..Count : Less(sought, NameAt(i))

Found == \E i \in DOMAIN packages :
             packages[i][1] = sought /\ packages[i] = [f \in DOMAIN hit |-> StringAt(hit[f])]

Readers == {"idle", "check", "refused", "open", "search", "found", "absent"}

IndexInv ==
    /\ reader \in Readers
    /\ reader # "idle" => packages \in PackageLists /\ index = Build(packages)
    /\ reader \in {"search", "found", "absent"} => sought \in Text
    /\ reader = "check" => entry \in Nat \ {0}
    /\ Representable =>
          /\ reader # "refused"
          /\ reader = "search" => Searching
          /\ reader = "found" => Found
          /\ reader = "absent" => \A i \in DOMAIN packages : packages[i][1] # sought

LEMMA GivenPackages ==
    ASSUME NEW ps \in PackageLists
    PROVE  PackageList(ps)
BY IndexAssumption DEF PackageList, Text

LEMMA IndexStaysSorted ==
    ASSUME IndexInv, reader # "idle", Representable
    PROVE  Sorted
<1>1. PackageList(packages) /\ index = Build(packages)
  BY GivenPackages DEF IndexInv
<1> QED BY <1>1, IndexIsSorted

LEMMA SameIndex ==
    ASSUME packages' = packages, index' = index
    PROVE  /\ Representable' <=> Representable
           /\ Count' = Count
<1>1. Representable' <=> Representable
  BY DEF Representable
<1> QED BY <1>1 DEF Count

LEMMA SameComparisons ==
    ASSUME packages' = packages, index' = index, sought' = sought, NEW i
    PROVE  /\ Less(NameAt(i), sought)' <=> Less(NameAt(i), sought)
           /\ Less(sought, NameAt(i))' <=> Less(sought, NameAt(i))
BY DEF Less, NameAt, StringAt, InBounds

LEMMA SearchStepIsRight ==
    ASSUME IndexInv, Probe
    PROVE  IndexInv'
<1>1. /\ reader = "search" /\ low < high
      /\ packages' = packages /\ index' = index /\ entry' = entry /\ sought' = sought
  BY DEF Probe
<1>2. /\ packages \in PackageLists /\ index = Build(packages) /\ sought \in Text
  BY <1>1 DEF IndexInv
<1>3. reader' \in {"search", "found"}
  BY <1>1 DEF Probe
<1>4. ASSUME Representable
      PROVE  (reader' = "search" => Searching') /\ (reader' = "found" => Found')
  <2>1. Sorted
    BY <1>1, <1>4, IndexStaysSorted
  <2>2. Searching
    BY <1>1, <1>4 DEF IndexInv
  <2> DEFINE mid == low + (high - low) \div 2
  <2>3. Count \in Nat /\ low \in 0..Count /\ high \in 0..Count
    BY <2>1, <2>2 DEF Sorted, Searching
  <2>4. mid \in Nat /\ low <= mid /\ mid < high /\ mid + 1 \in 1..Count
    BY <1>1, <2>3
  <2> DEFINE at == NameAt(mid + 1)
             k == index.index[mid + 1].entry + 1
  <2>5. at \in Text /\ k \in 1..Count /\ at = packages[k][1]
    <3> HIDE DEF mid
    <3> QED BY <2>1, <2>4 DEF Sorted
  <2>6. \/ at = sought /\ reader' = "found" /\ hit' = index.entries[k]
        \/ /\ at # sought /\ Less(at, sought)
           /\ low' = mid + 1 /\ high' = high /\ reader' = reader
        \/ /\ at # sought /\ ~ Less(at, sought)
           /\ high' = mid /\ low' = low /\ reader' = reader
    <3>1. CASE at = sought
      BY <3>1 DEF Probe
    <3>2. CASE at # sought /\ Less(at, sought)
      BY <3>2 DEF Probe
    <3>3. CASE at # sought /\ ~ Less(at, sought)
      BY <3>3 DEF Probe
    <3> QED BY <3>1, <3>2, <3>3
  <2> HIDE DEF mid
  <2>7. CASE at = sought /\ reader' = "found" /\ hit' = index.entries[k]
    <3> HIDE DEF k
    <3> DEFINE h == index.entries[k]
    <3>1. packages[k] = [f \in DOMAIN h |-> StringAt(h[f])]
      BY <2>1, <2>5 DEF Sorted
    <3>2. k \in DOMAIN packages /\ packages[k][1] = sought
      <4>1. PackageList(packages)
        BY <1>2, GivenPackages
      <4>2. DOMAIN packages = 1..Count
        BY <2>1, <4>1 DEF Sorted, PackageList
      <4> QED BY <2>5, <2>7, <4>2
    <3> HIDE DEF h, at
    <3>3. hit' = h
      BY <2>7 DEF h
    <3>4. Found'
      BY <1>1, <3>1, <3>2, <3>3 DEF Found, StringAt, InBounds
    <3> QED BY <2>7, <3>4
  <2> HIDE DEF k
  <2>8. CASE /\ at # sought /\ Less(at, sought)
             /\ low' = mid + 1 /\ high' = high /\ reader' = reader
    <3>1. ASSUME NEW i \in 1..(mid + 1) PROVE Less(NameAt(i), sought)
      <4>1. i \in 1..Count /\ (i = mid + 1 \/ i < mid + 1)
        BY <2>3, <2>4
      <4>2. NameAt(i) \in Text
        BY <2>1, <4>1 DEF Sorted
      <4>3. i < mid + 1 => ~ Less(at, NameAt(i))
        BY <2>1, <2>4, <4>1 DEF Sorted
      <4>4. CASE i = mid + 1
        BY <2>8, <4>4
      <4>5. CASE i < mid + 1
        <5>1. NameAt(i) = at \/ Less(NameAt(i), at)
          <6> HIDE DEF at
          <6> QED BY <2>5, <4>2, <4>3, <4>5, LessIsOrder
        <5> HIDE DEF at
        <5> QED BY <1>2, <2>5, <2>8, <4>2, <5>1, LessIsOrder
      <4> QED BY <4>1, <4>4, <4>5
    <3> HIDE DEF at
    <3>2. \A i \in (high + 1)..Count : Less(sought, NameAt(i))
      BY <2>2 DEF Searching
    <3>3. low' \in 0..Count /\ high' \in 0..Count
      BY <2>3, <2>4, <2>8
    <3>4. Searching'
      <4>1. Count' = Count
        BY <1>1, SameIndex
      <4>2. \A i \in 1..(mid + 1) : Less(NameAt(i), sought)'
        BY <1>1, <3>1, SameComparisons
      <4>3. \A i \in (high + 1)..Count : Less(sought, NameAt(i))'
        BY <1>1, <3>2, SameComparisons
      <4> QED BY <2>8, <3>3, <4>1, <4>2, <4>3 DEF Searching
    <3> QED BY <1>1, <2>8, <3>4
  <2>9. CASE /\ at # sought /\ ~ Less(at, sought)
             /\ high' = mid /\ low' = low /\ reader' = reader
    <3>0. Less(sought, at)
      <4> HIDE DEF at
      <4> QED BY <1>2, <2>5, <2>9, LessIsOrder
    <3>1. ASSUME NEW i \in (mid + 1)..Count PROVE Less(sought, NameAt(i))
      <4>1. i \in 1..Count /\ (i = mid + 1 \/ mid + 1 < i)
        BY <2>3, <2>4
      <4>2. NameAt(i) \in Text
        BY <2>1, <4>1 DEF Sorted
      <4>3. mid + 1 < i => ~ Less(NameAt(i), at)
        BY <2>1, <2>4, <4>1 DEF Sorted
      <4>4. CASE i = mid + 1
        BY <3>0, <4>4
      <4>5. CASE mid + 1 < i
        <5>1. NameAt(i) = at \/ Less(at, NameAt(i))
          <6> HIDE DEF at
          <6> QED BY <2>5, <4>2, <4>3, <4>5, LessIsOrder
        <5> HIDE DEF at
        <5> QED BY <1>2, <2>5, <3>0, <4>2, <5>1, LessIsOrder
      <4> QED BY <4>1, <4>4, <4>5
    <3> HIDE DEF at
    <3>2. \A i \in 1..low : Less(NameAt(i), sought)
      BY <2>2 DEF Searching
    <3>3. low' \in 0..Count /\ high' \in 0..Count
      BY <2>3, <2>4, <2>9
    <3>4. Searching'
      <4>1. Count' = Count
        BY <1>1, SameIndex
      <4>2. \A i \in (mid + 1)..Count : Less(sought, NameAt(i))'
        BY <1>1, <3>1, SameComparisons
      <4>3. \A i \in 1..low : Less(NameAt(i), sought)'
        BY <1>1, <3>2, SameComparisons
      <4> QED BY <2>9, <3>3, <4>1, <4>2, <4>3 DEF Searching
    <3> QED BY <1>1, <2>9, <3>4
  <2> QED BY <2>6, <2>7, <2>8, <2>9
<1>5. Representable' <=> Representable
  BY <1>1, SameIndex
<1>6. Representable' => (reader' = "search" => Searching') /\ (reader' = "found" => Found')
  BY <1>4, <1>5
<1> QED BY <1>1, <1>2, <1>3, <1>6 DEF IndexInv, Readers

LEMMA CheckEntryIsRight ==
    ASSUME IndexInv, CheckEntry
    PROVE  IndexInv'
<1>1. /\ reader = "check" /\ entry <= Count
      /\ packages' = packages /\ index' = index /\ sought' = sought
  BY DEF CheckEntry
<1>2. packages \in PackageLists /\ index = Build(packages) /\ entry \in Nat \ {0}
  BY <1>1 DEF IndexInv
<1>3. \/ reader' = "check" /\ entry' = entry + 1
      \/ reader' = "refused" /\ entry' = entry
  BY <1>1 DEF CheckEntry
<1>4. ASSUME Representable PROVE reader' = "check"
  <2>1. Sorted
    BY <1>1, <1>4, IndexStaysSorted
  <2>2. Count \in Nat /\ entry \in 1..Count
    BY <1>1, <1>2, <2>1 DEF Sorted
  <2>3. index.index[entry].entry < Count /\ InBounds(index.index[entry].ref)
    BY <2>1, <2>2 DEF Sorted
  <2>4. entry > 1 => ~ Less(NameAt(entry), NameAt(entry - 1))
    <3>1. entry > 1 => entry - 1 \in 1..Count /\ entry - 1 < entry
      BY <2>2
    <3> QED BY <2>1, <2>2, <3>1 DEF Sorted
  <2> QED BY <1>1, <2>3, <2>4 DEF CheckEntry
<1>5. Representable' <=> Representable
  BY <1>1, SameIndex
<1>6. Representable' => reader' = "check"
  BY <1>4, <1>5
<1>7. entry + 1 \in Nat \ {0}
  BY <1>2
<1> QED BY <1>1, <1>2, <1>3, <1>6, <1>7 DEF IndexInv, Readers

LEMMA LookUpIsRight ==
    ASSUME IndexInv, NEW s \in SoughtNames, LookUp(s)
    PROVE  IndexInv'
<1>1. /\ reader = "open" /\ reader' = "search" /\ sought' = s
      /\ low' = 0 /\ high' = Count
      /\ packages' = packages /\ index' = index
  BY DEF LookUp
<1>2. packages \in PackageLists /\ index = Build(packages)
  BY <1>1 DEF IndexInv
<1>3. s \in Text
  BY IndexAssumption DEF Text
<1>4. Representable' <=> Representable /\ Count' = Count
  BY <1>1, SameIndex
<1>5. ASSUME Representable PROVE Searching'
  <2>1. Count \in Nat
    <3>1. Sorted
      BY <1>1, <1>5, IndexStaysSorted
    <3> QED BY <3>1 DEF Sorted
  <2>2. Count' = Count
    BY <1>1, SameIndex
  <2>3. 1..low' = {} /\ (high' + 1)..Count' = {}
    BY <1>1, <2>1, <2>2
  <2>4. low' \in 0..Count' /\ high' \in 0..Count'
    BY <1>1, <2>1, <2>2
  <2> QED BY <2>3, <2>4 DEF Searching
<1>6. Representable' => Searching'
  BY <1>1, <1>5, SameIndex
<1> QED BY <1>1, <1>2, <1>3, <1>6 DEF IndexInv, Readers

LEMMA NotFoundIsRight ==
    ASSUME IndexInv, NotFound
    PROVE  IndexInv'
<1>1. /\ reader = "search" /\ reader' = "absent" /\ low >= high
      /\ packages' = packages /\ index' = index /\ sought' = sought
  BY DEF NotFound
<1>2. packages \in PackageLists /\ index = Build(packages) /\ sought \in Text
  BY <1>1 DEF IndexInv
<1>3. ASSUME Representable, NEW k \in DOMAIN packages PROVE packages[k][1] # sought
  <2>1. Sorted /\ Searching
    <3>1. Searching
      BY <1>1, <1>3 DEF IndexInv
    <3> QED BY <1>1, <1>3, <3>1, IndexStaysSorted
  <2>2. PackageList(packages)
    BY <1>2, GivenPackages
  <2>3. k \in 1..Count
    BY <1>3, <2>1, <2>2 DEF Sorted, PackageList
  <2>4. PICK i \in 1..Count : index.index[i].entry + 1 = k
    BY <2>1, <2>3 DEF Sorted
  <2>5. NameAt(i) = packages[k][1] /\ NameAt(i) \in Text
    BY <2>1, <2>4 DEF Sorted
  <2>6. Count \in Nat /\ low \in 0..Count /\ high \in 0..Count
    BY <2>1 DEF Sorted, Searching
  <2>7. i \in 1..low \/ i \in (high + 1)..Count
    BY <1>1, <2>6
  <2>8. Less(NameAt(i), sought) \/ Less(sought, NameAt(i))
    BY <2>1, <2>7 DEF Searching
  <2> QED BY <1>2, <2>5, <2>8, LessIsOrder
<1>4. Representable' => \A k \in DOMAIN packages' : packages'[k][1] # sought'
  BY <1>1, <1>3, SameIndex
<1> QED BY <1>1, <1>2, <1>4 DEF IndexInv, Readers

LEMMA IndexStaysRight == IndexSpec => []IndexInv
<1>1. IndexInit => IndexInv
  BY DEF IndexInit, IndexInv, Readers
<1>2. IndexInv /\ [IndexNext]_ivars => IndexInv'
  <2> SUFFICES ASSUME IndexInv, [IndexNext]_ivars PROVE IndexInv'
    OBVIOUS
  <2>1. ASSUME NEW ps \in PackageLists, Give(ps) PROVE IndexInv'
    <3>1. packages' = ps /\ index' = Build(ps) /\ reader' = "check" /\ entry' = 1
      BY <2>1 DEF Give
    <3>2. index' = Build(packages')
      BY <3>1
    <3> QED BY <3>1, <3>2 DEF IndexInv, Readers
  <2>2. CASE CheckEntry
    BY <2>2, CheckEntryIsRight
  <2>3. CASE Checked
    BY <2>3, SameIndex DEF Checked, IndexInv, Readers
  <2>4. ASSUME NEW s \in SoughtNames, LookUp(s) PROVE IndexInv'
    BY <2>4, LookUpIsRight
  <2>5. CASE Probe
    BY <2>5, SearchStepIsRight
  <2>6. CASE NotFound
    BY <2>6, NotFoundIsRight
  <2>7. CASE UNCHANGED ivars
    <3>1. /\ packages' = packages /\ index' = index /\ reader' = reader /\ entry' = entry
          /\ sought' = sought /\ low' = low /\ high' = high /\ hit' = hit
      BY <2>7 DEF ivars
    <3>2. Searching' <=> Searching
      BY <3>1, SameIndex, SameComparisons DEF Searching
    <3>3. Found' <=> Found
      BY <3>1 DEF Found, StringAt, InBounds
    <3> QED BY <3>1, <3>2, <3>3, SameIndex DEF IndexInv
  <2> QED BY <2>1, <2>2, <2>3, <2>4, <2>5, <2>6, <2>7 DEF IndexNext
<1> QED BY <1>1, <1>2, PTL DEF IndexSpec

\* For every list of packages that fits the widths, with any names and fields, in any
\* order and with names that occur more than once: from_bytes accepts the index that
\* build() writes, and lookup() ends at a package of the name, with all its fields, or
\* at none if there is none.
THEOREM IndexIsRight == IndexSpec => []IndexIsFaithful
<1>1. IndexInv => IndexIsFaithful
  BY DEF IndexInv, IndexIsFaithful, ReaderAcceptsBuilder, LookupIsAScan, Found
<1> QED BY <1>1, IndexStaysRight, PTL

-----------------------------------------------------------------------------
(* Loops over a sequence                                                   *)

\* What is left after each of n rounds that keep to S.
Rounds(u, n, a, g, S) ==
    /\ u = [i \in 0..n |-> u[i]]
    /\ u[0] = a
    /\ \A i \in 0..n : u[i] \in S
    /\ \A i \in 1..n : u[i] = g[i][u[i - 1]]

LEMMA RoundsExist ==
    ASSUME NEW n \in Nat, NEW S, NEW a \in S, NEW g, \A i \in 1..n : \A x \in S : g[i][x] \in S
    PROVE  \E u : Rounds(u, n, a, g, S)
<1> DEFINE T == {k \in Nat : \E u : Rounds(u, k, a, g, S)}
<1>1. ASSUME NEW k \in Nat, k < n, NEW u, Rounds(u, k, a, g, S)
      PROVE  \E w : Rounds(w, k + 1, a, g, S)
  <2>1. PICK w : w = [i \in 0..(k + 1) |-> IF i = k + 1 THEN g[k + 1][u[k]] ELSE u[i]]
    OBVIOUS
  <2>2. w = [i \in 0..(k + 1) |-> w[i]]
    BY <2>1
  <2>3. w[k + 1] = g[k + 1][u[k]] /\ \A i \in 0..k : w[i] = u[i]
    BY <2>1
  <2>4. u[k] \in S /\ k + 1 \in 1..n
    BY <1>1 DEF Rounds
  <2>5. \A i \in 0..(k + 1) : w[i] \in S
    <3>1. TAKE i \in 0..(k + 1)
    <3>2. i = k + 1 \/ i \in 0..k
      OBVIOUS
    <3> QED BY <1>1, <2>3, <2>4, <3>2 DEF Rounds
  <2>6. \A i \in 1..(k + 1) : w[i] = g[i][w[i - 1]]
    <3>1. TAKE i \in 1..(k + 1)
    <3>2. CASE i = k + 1
      <4>1. i - 1 = k /\ k \in 0..k
        BY <3>2
      <4> QED BY <2>3, <3>2, <4>1
    <3>3. CASE i # k + 1
      <4>1. i \in 1..k /\ i \in 0..k /\ i - 1 \in 0..k
        BY <3>3
      <4> QED BY <1>1, <2>3, <4>1 DEF Rounds
    <3> QED BY <3>2, <3>3
  <2>7. w[0] = a
    BY <1>1, <2>3 DEF Rounds
  <2> QED BY <2>2, <2>5, <2>6, <2>7 DEF Rounds
<1>2. \E u : Rounds(u, 0, a, g, S)
  <2>1. PICK u : u = [i \in 0..0 |-> a]
    OBVIOUS
  <2> QED BY <2>1 DEF Rounds
<1> DEFINE U == {k \in Nat : k <= n => \E u : Rounds(u, k, a, g, S)}
<1>3. U = Nat
  <2>1. 0 \in U
    BY <1>2
  <2>2. ASSUME NEW k \in U PROVE k + 1 \in U
    BY <1>1
  <2> HIDE DEF U
  <2>3. U \in SUBSET Nat
    BY DEF U
  <2> QED BY <2>1, <2>2, <2>3, Induction
<1>4. n \in U
  <2> HIDE DEF U
  <2> QED BY <1>3
<1> QED BY <1>4

LEMMA RoundsAreUnique ==
    ASSUME NEW n \in Nat, NEW S, NEW a, NEW g, NEW u, Rounds(u, n, a, g, S),
           NEW w, w[0] = a, \A i \in 1..n : w[i - 1] \in S => w[i] = g[i][w[i - 1]]
    PROVE  \A i \in 0..n : w[i] = u[i] /\ w[i] \in S
<1> DEFINE T == {i \in Nat : i <= n => w[i] = u[i]}
<1>1. 0 \in T
  BY DEF Rounds
<1>2. ASSUME NEW i \in T PROVE i + 1 \in T
  <2>1. SUFFICES ASSUME i + 1 <= n PROVE w[i + 1] = u[i + 1]
    OBVIOUS
  <2>2. i \in Nat /\ w[i] = u[i]
    BY <2>1
  <2> HIDE DEF T
  <2>3. PICK j : j = i + 1
    OBVIOUS
  <2>4. j \in 1..n /\ j - 1 = i /\ i \in 0..n
    BY <2>1, <2>2, <2>3
  <2>5. u[j] = g[j][u[i]] /\ u[i] \in S
    BY <2>4 DEF Rounds
  <2>6. w[j] = g[j][w[i]]
    BY <2>2, <2>4, <2>5
  <2> QED BY <2>2, <2>3, <2>5, <2>6
<1>3. T = Nat
  <2> HIDE DEF T
  <2>1. T \in SUBSET Nat
    BY DEF T
  <2> QED BY <1>1, <1>2, <2>1, Induction
<1> QED BY <1>3 DEF Rounds

-----------------------------------------------------------------------------
(* Paths                                                                   *)

Paths == Seq(Components)

\* What is kept of the first i components.
Kept(name) == CHOOSE u : u = [i \in 0..Len(name) |->
                  IF i = 0 THEN <<>>
                  ELSE IF name[i] \in Void THEN u[i - 1] ELSE Append(u[i - 1], name[i])]

LEMMA KeptIs ==
    ASSUME NEW name \in Seq(Components)
    PROVE  /\ PathOf(name) = Kept(name)[Len(name)]
           /\ Kept(name)[0] = <<>>
           /\ \A i \in 0..Len(name) : Kept(name)[i] \in Paths
           /\ \A i \in 1..Len(name) :
                 Kept(name)[i] = IF name[i] \in Void THEN Kept(name)[i - 1]
                                 ELSE Append(Kept(name)[i - 1], name[i])
<1>0. Len(name) \in Nat /\ \A i \in 1..Len(name) : name[i] \in Components
  OBVIOUS
<1>1. PathOf(name) = Kept(name)[Len(name)]
  BY DEF PathOf, Kept
<1> DEFINE g == [i \in 1..Len(name) |-> [x \in Paths |->
                   IF name[i] \in Void THEN x ELSE Append(x, name[i])]]
<1>2. \A i \in 1..Len(name) : \A x \in Paths :
          g[i][x] = IF name[i] \in Void THEN x ELSE Append(x, name[i])
  OBVIOUS
<1>3. \A i \in 1..Len(name) : \A x \in Paths : g[i][x] \in Paths
  BY <1>0, <1>2, AppendProperties DEF Paths
<1>4. <<>> \in Paths
  BY DEF Paths
<1> HIDE DEF g
<1>5. PICK u : Rounds(u, Len(name), <<>>, g, Paths)
  BY <1>0, <1>3, <1>4, RoundsExist
<1>6. \A i \in 1..Len(name) : i - 1 \in 0..Len(name)
  BY <1>0
<1>7. \A i \in 1..Len(name) : u[i] = IF name[i] \in Void THEN u[i - 1]
                                     ELSE Append(u[i - 1], name[i])
  BY <1>2, <1>5, <1>6 DEF Rounds
<1>8. u = [i \in 0..Len(name) |->
             IF i = 0 THEN <<>>
             ELSE IF name[i] \in Void THEN u[i - 1] ELSE Append(u[i - 1], name[i])]
  <2>1. u[0] = <<>> /\ u = [i \in 0..Len(name) |-> u[i]]
    BY <1>5 DEF Rounds
  <2>2. \A i \in 0..Len(name) : u[i] =
             IF i = 0 THEN <<>>
             ELSE IF name[i] \in Void THEN u[i - 1] ELSE Append(u[i - 1], name[i])
    <3>1. TAKE i \in 0..Len(name)
    <3>2. i = 0 \/ (i # 0 /\ i \in 1..Len(name))
      BY <1>0
    <3> QED BY <1>7, <2>1, <3>2
  <2> QED BY <2>1, <2>2
<1>9. Kept(name) = [i \in 0..Len(name) |->
             IF i = 0 THEN <<>>
             ELSE IF name[i] \in Void THEN Kept(name)[i - 1]
             ELSE Append(Kept(name)[i - 1], name[i])]
  BY <1>8 DEF Kept
<1> DEFINE k == Kept(name)
<1>10. k = [i \in 0..Len(name) |->
             IF i = 0 THEN <<>>
             ELSE IF name[i] \in Void THEN k[i - 1] ELSE Append(k[i - 1], name[i])]
  BY <1>9
<1> HIDE DEF k
<1>11. k[0] = <<>> /\ \A i \in 1..Len(name) : k[i] = IF name[i] \in Void THEN k[i - 1]
                                                    ELSE Append(k[i - 1], name[i])
  <2>1. \A i \in 0..Len(name) : k[i] =
             IF i = 0 THEN <<>>
             ELSE IF name[i] \in Void THEN k[i - 1] ELSE Append(k[i - 1], name[i])
    BY <1>10
  <2>2. 0 \in 0..Len(name)
    BY <1>0
  <2>3. \A i \in 1..Len(name) : i \in 0..Len(name) /\ i # 0
    BY <1>0
  <2> QED BY <2>1, <2>2, <2>3
<1>12. \A i \in 0..Len(name) : k[i] \in Paths
  <2> DEFINE T == {i \in Nat : i <= Len(name) => k[i] \in Paths}
  <2>1. 0 \in T
    BY <1>4, <1>11
  <2>2. ASSUME NEW i \in T PROVE i + 1 \in T
    <3>1. SUFFICES ASSUME i + 1 <= Len(name) PROVE k[i + 1] \in Paths
      OBVIOUS
    <3>2. i + 1 \in 1..Len(name) /\ i \in Nat /\ i + 1 - 1 = i /\ k[i] \in Paths
      BY <1>0, <3>1
    <3> HIDE DEF T
    <3>3. k[i + 1] = IF name[i + 1] \in Void THEN k[i] ELSE Append(k[i], name[i + 1])
      BY <1>11, <3>2
    <3>4. name[i + 1] \in Components
      BY <1>0, <3>2
    <3>5. Append(k[i], name[i + 1]) \in Paths
      BY <3>2, <3>4, AppendProperties DEF Paths
    <3> QED BY <3>2, <3>3, <3>5
  <2> HIDE DEF T
  <2>3. T \in SUBSET Nat
    BY DEF T
  <2>4. T = Nat
    BY <2>1, <2>2, <2>3, Induction
  <2> QED BY <1>0, <2>4 DEF T
<1> QED BY <1>1, <1>11, <1>12 DEF k

LEMMA NormalIs ==
    ASSUME NEW name \in FileNames
    PROVE  \E m \in 1..Len(name) : /\ Normal(name) = SubSeq(name, m, Len(name))
                                   /\ \A j \in 1..m - 1 : name[j] \in Void
<1> DEFINE kept == {i \in DOMAIN name : \A j \in 1..i - 1 : name[j] \in Void}
           first == CHOOSE i \in kept : name[i] \notin Void \/ i = Len(name)
           solid == {i \in 1..Len(name) : name[i] \notin Void}
<1>1. Len(name) \in Nat /\ DOMAIN name = 1..Len(name) /\ Len(name) > 0
  BY EmptySeq DEF FileNames
<1>2. \E i \in kept : name[i] \notin Void \/ i = Len(name)
  <2>1. CASE solid = {}
    <3>1. \A j \in 1..Len(name) : name[j] \in Void
      BY <2>1
    <3>2. Len(name) \in kept
      BY <1>1, <3>1
    <3> QED BY <3>2
  <2>2. CASE solid # {}
    <3>1. solid \in SUBSET Nat
      BY <1>1
    <3>2. PICK i \in solid : \A j \in solid : i <= j
      BY <2>2, <3>1, LeastNumber
    <3>3. i \in 1..Len(name) /\ name[i] \notin Void
      OBVIOUS
    <3>4. \A j \in 1..i - 1 : name[j] \in Void
      <4>1. TAKE j \in 1..i - 1
      <4>2. j \in 1..Len(name) /\ ~ (i <= j)
        BY <1>1, <3>3
      <4> QED BY <3>2, <4>2
    <3>5. i \in kept
      BY <1>1, <3>3, <3>4
    <3> QED BY <3>3, <3>5
  <2> QED BY <2>1, <2>2
<1>3. first \in kept
  BY <1>2
<1>4. Normal(name) = SubSeq(name, first, Len(name))
  BY DEF Normal
<1> HIDE DEF first
<1>5. first \in 1..Len(name) /\ \A j \in 1..first - 1 : name[j] \in Void
  BY <1>1, <1>3
<1> QED BY <1>4, <1>5

\* Components in front that vanish do not matter to the path.
LEMMA PathOfRest ==
    ASSUME NEW name \in FileNames, NEW m \in 1..Len(name), \A j \in 1..m - 1 : name[j] \in Void
    PROVE  PathOf(SubSeq(name, m, Len(name))) = PathOf(name)
<1> DEFINE rest == SubSeq(name, m, Len(name))
<1>1. /\ Len(name) \in Nat /\ m \in Nat /\ m >= 1 /\ m <= Len(name)
      /\ name \in Seq(Components)
  BY DEF FileNames
<1>2. rest \in Seq(Components) /\ Len(rest) = Len(name) - m + 1
      /\ \A i \in 1..Len(rest) : rest[i] = name[m + i - 1]
  <2>1. \A i \in m..Len(name) : i \in 1..Len(name)
    BY <1>1
  <2> QED BY <1>1, <2>1, SubSeqProperties
<1> HIDE DEF rest
<1> DEFINE k == Kept(name)
           l == Kept(rest)
<1>3. k[0] = <<>> /\ \A i \in 1..Len(name) :
          k[i] = IF name[i] \in Void THEN k[i - 1] ELSE Append(k[i - 1], name[i])
  BY <1>1, KeptIs
<1>4. l[0] = <<>> /\ \A i \in 1..Len(rest) :
          l[i] = IF rest[i] \in Void THEN l[i - 1] ELSE Append(l[i - 1], rest[i])
  BY <1>2, KeptIs
<1> HIDE DEF k, l
<1>5. k[m - 1] = <<>>
  <2> DEFINE T == {i \in Nat : i < m => k[i] = <<>>}
  <2>1. 0 \in T
    BY <1>3
  <2>2. ASSUME NEW i \in T PROVE i + 1 \in T
    <3>1. SUFFICES ASSUME i + 1 < m PROVE k[i + 1] = <<>>
      OBVIOUS
    <3>2. i \in Nat /\ k[i] = <<>> /\ i + 1 \in 1..Len(name) /\ i + 1 \in 1..m - 1 /\ i + 1 - 1 = i
      BY <1>1, <3>1
    <3> HIDE DEF T
    <3> QED BY <1>3, <3>2
  <2> HIDE DEF T
  <2>3. T \in SUBSET Nat
    BY DEF T
  <2>4. T = Nat
    BY <2>1, <2>2, <2>3, Induction
  <2>5. m - 1 \in Nat /\ m - 1 < m
    BY <1>1
  <2> QED BY <2>4, <2>5 DEF T
<1>6. l[Len(rest)] = k[m - 1 + Len(rest)]
  <2> DEFINE T == {i \in Nat : i <= Len(rest) => l[i] = k[m - 1 + i]}
  <2>1. 0 \in T
    <3>1. m - 1 + 0 = m - 1
      BY <1>1
    <3> QED BY <1>4, <1>5, <3>1
  <2>2. ASSUME NEW i \in T PROVE i + 1 \in T
    <3>1. SUFFICES ASSUME i + 1 <= Len(rest) PROVE l[i + 1] = k[m - 1 + (i + 1)]
      OBVIOUS
    <3>2. i \in Nat /\ l[i] = k[m - 1 + i]
      BY <1>1, <1>2, <3>1
    <3> HIDE DEF T
    <3>3. PICK x, y, z : x = m + i /\ y = m - 1 + i /\ z = i + 1
      OBVIOUS
    <3>4. /\ z \in 1..Len(rest) /\ z - 1 = i /\ m + z - 1 = x
          /\ x \in 1..Len(name) /\ x - 1 = y /\ m - 1 + z = x
      BY <1>1, <1>2, <3>1, <3>2, <3>3
    <3>5. rest[z] = name[x]
      BY <1>2, <3>4
    <3>6. k[x] = IF name[x] \in Void THEN k[y] ELSE Append(k[y], name[x])
      BY <1>3, <3>4
    <3>7. l[z] = IF rest[z] \in Void THEN l[i] ELSE Append(l[i], rest[z])
      BY <1>4, <3>4
    <3>8. l[i] = k[y]
      BY <3>2, <3>3
    <3>9. l[z] = k[m - 1 + z]
      BY <3>4, <3>5, <3>6, <3>7, <3>8
    <3> QED BY <3>3, <3>9
  <2> HIDE DEF T
  <2>3. T \in SUBSET Nat
    BY DEF T
  <2>4. T = Nat
    BY <2>1, <2>2, <2>3, Induction
  <2>5. Len(rest) \in Nat
    BY <1>1, <1>2
  <2> QED BY <2>4, <2>5 DEF T
<1>7. m - 1 + Len(rest) = Len(name)
  BY <1>1, <1>2
<1>8. PathOf(rest) = l[Len(rest)] /\ PathOf(name) = k[Len(name)]
  BY <1>1, <1>2, KeptIs DEF k, l
<1> QED BY <1>6, <1>7, <1>8 DEF rest

LEMMA SameFile ==
    ASSUME NEW m \in FileNames, NEW n \in FileNames, Normal(m) = Normal(n)
    PROVE  PathOf(m) = PathOf(n)
<1>1. PICK i \in 1..Len(m) : Normal(m) = SubSeq(m, i, Len(m)) /\ \A j \in 1..i - 1 : m[j] \in Void
  BY NormalIs
<1>2. PICK i2 \in 1..Len(n) : Normal(n) = SubSeq(n, i2, Len(n))
                            /\ \A j \in 1..i2 - 1 : n[j] \in Void
  BY NormalIs
<1>3. PathOf(m) = PathOf(Normal(m)) /\ PathOf(n) = PathOf(Normal(n))
  BY <1>1, <1>2, PathOfRest
<1> QED BY <1>3

LEMMA PathType ==
    ASSUME NEW name \in Seq(Components)
    PROVE  PathOf(name) \in Paths
<1>1. Len(name) \in 0..Len(name)
  OBVIOUS
<1> QED BY <1>1, KeptIs

-----------------------------------------------------------------------------
(* Disks, and what extraction has made so far                              *)

Contents == Seq(Block) \cup {Dir}
Disks == UNION {[D -> Contents] : D \in SUBSET Paths}
Extractions == [disk : Disks, files : Seq(Paths), dirs : Seq(Paths), ok : BOOLEAN]

\* Nothing in an archive is taken for a directory.
LEMMA DirIsNoContents == Dir \notin Seq(Block)
<1>1. Dir[1].kind = "dir" /\ 1 \in 1..Len(Dir)
  BY DEF Dir
<1>2. \A b \in Block : b.kind # "dir"
  BY DEF Block
<1> QED BY <1>1, <1>2, ElementOfSeq

LEMMA DiskIs ==
    ASSUME NEW d
    PROVE  d \in Disks <=> /\ d = [f \in DOMAIN d |-> d[f]]
                           /\ DOMAIN d \subseteq Paths
                           /\ \A f \in DOMAIN d : d[f] \in Contents
<1>1. d \in Disks <=> \E D \in SUBSET Paths : d \in [D -> Contents]
  BY DEF Disks
<1> QED BY <1>1

LEMMA WithIs ==
    ASSUME NEW d \in Disks, NEW p \in Paths, NEW c \in Contents
    PROVE  /\ With(d, p, c) \in Disks
           /\ DOMAIN With(d, p, c) = DOMAIN d \cup {p} /\ With(d, p, c)[p] = c
           /\ \A f \in DOMAIN d \ {p} : With(d, p, c)[f] = d[f]
<1>1. PICK e : e = With(d, p, c)
  OBVIOUS
<1>2. /\ DOMAIN e = DOMAIN d \cup {p} /\ e[p] = c
      /\ \A f \in DOMAIN d \ {p} : e[f] = d[f]
  BY <1>1 DEF With
<1>3. e = [f \in DOMAIN e |-> e[f]]
  BY <1>1 DEF With
<1>4. DOMAIN d \subseteq Paths /\ \A f \in DOMAIN d : d[f] \in Contents
  BY DiskIs
<1>5. DOMAIN e \subseteq Paths /\ \A f \in DOMAIN e : e[f] \in Contents
  BY <1>2, <1>4
<1>6. e \in Disks
  BY <1>3, <1>5, DiskIs
<1> QED BY <1>1, <1>2, <1>6

LEMMA WithoutIs ==
    ASSUME NEW d \in Disks, NEW p
    PROVE  /\ Without(d, p) \in Disks
           /\ DOMAIN Without(d, p) = DOMAIN d \ {p}
           /\ \A f \in DOMAIN d \ {p} : Without(d, p)[f] = d[f]
<1>1. PICK e : e = Without(d, p)
  OBVIOUS
<1>2. /\ DOMAIN e = DOMAIN d \ {p}
      /\ \A f \in DOMAIN d \ {p} : e[f] = d[f]
  BY <1>1 DEF Without
<1>3. e = [f \in DOMAIN e |-> e[f]]
  BY <1>1 DEF Without
<1>4. DOMAIN d \subseteq Paths /\ \A f \in DOMAIN d : d[f] \in Contents
  BY DiskIs
<1>5. DOMAIN e \subseteq Paths /\ \A f \in DOMAIN e : e[f] \in Contents
  BY <1>2, <1>4
<1>6. e \in Disks
  BY <1>3, <1>5, DiskIs
<1> QED BY <1>1, <1>2, <1>6

\* A disk is a tree of directories.
IsTree(first) ==
    /\ first \in Disks /\ <<>> \in DOMAIN first
    /\ \A f \in DOMAIN first \ {<<>>} : Front(f) \in DOMAIN first

\* All that was made is noted, directories after those they are in, and nothing else was
\* changed.
Noted(s, first, listed) ==
    /\ s \in Extractions
    /\ DOMAIN first \subseteq DOMAIN s.disk
    /\ \A p \in DOMAIN s.disk :
          \/ p \in DOMAIN first /\ s.disk[p] = first[p]
          \/ \E i \in DOMAIN s.files : p = s.files[i]
          \/ \E i \in DOMAIN s.dirs : p = s.dirs[i]
    /\ \A i \in DOMAIN s.files :
          s.files[i] \in DOMAIN s.disk /\ s.disk[s.files[i]] # Dir /\ s.files[i] \in listed
    /\ \A i \in DOMAIN s.dirs :
          /\ s.dirs[i] \in DOMAIN s.disk /\ s.disk[s.dirs[i]] = Dir /\ s.dirs[i] \notin DOMAIN first
          /\ Front(s.dirs[i]) \in DOMAIN first \/ \E j \in 1..i - 1 : s.dirs[j] = Front(s.dirs[i])
    /\ \A i, j \in DOMAIN s.dirs : s.dirs[i] = s.dirs[j] => i = j

\* Making a directory touches nothing that is there.
Grown(s, t) ==
    /\ DOMAIN s.disk \subseteq DOMAIN t.disk
    /\ \A p \in DOMAIN s.disk : t.disk[p] = s.disk[p]
    /\ t.ok => s.ok

LEMMA MadeIsNoted ==
    ASSUME NEW first, NEW listed, IsTree(first),
           NEW s, Noted(s, first, listed), NEW p \in Paths, p \notin DOMAIN s.disk,
           Front(p) \in DOMAIN s.disk, s.disk[Front(p)] = Dir,
           NEW t \in Extractions, t.files = s.files, t.dirs = Append(s.dirs, p),
           t.disk = With(s.disk, p, Dir)
    PROVE  Noted(t, first, listed)
<1> DEFINE n == Len(s.dirs)
<1>1. /\ s.disk \in Disks /\ s.dirs \in Seq(Paths) /\ s.files \in Seq(Paths)
      /\ Dir \in Contents
  BY DEF Noted, Extractions, Contents
<1>0. \A f \in DOMAIN s.disk : f # p
  OBVIOUS
<1>2. /\ DOMAIN t.disk = DOMAIN s.disk \cup {p} /\ t.disk[p] = Dir
      /\ \A f \in DOMAIN s.disk : t.disk[f] = s.disk[f]
  <2>1. PICK d \in Disks : d = s.disk
    BY <1>1
  <2>2. /\ DOMAIN With(d, p, Dir) = DOMAIN d \cup {p} /\ With(d, p, Dir)[p] = Dir
        /\ \A f \in DOMAIN d \ {p} : With(d, p, Dir)[f] = d[f]
    <3>1. Dir \in Contents
      BY <1>1
    <3> QED BY <3>1, WithIs
  <2>3. t.disk = With(d, p, Dir)
    BY <2>1
  <2> QED BY <1>0, <2>1, <2>2, <2>3
<1>3. n \in Nat /\ DOMAIN s.dirs = 1..n
  BY <1>1
<1>4. DOMAIN t.dirs = 1..(n + 1) /\ t.dirs[n + 1] = p /\ \A i \in 1..n : t.dirs[i] = s.dirs[i]
  BY <1>1, AppendProperties
<1> HIDE DEF n
<1>5. \A i \in 1..(n + 1) : i = n + 1 \/ i \in 1..n
  BY <1>3
<1>6. \A i \in 1..n : s.dirs[i] # p /\ i # n + 1 /\ i \in 1..(n + 1)
  BY <1>3 DEF Noted
<1>7. DOMAIN first \subseteq DOMAIN t.disk
  BY <1>2 DEF Noted
<1>8. ASSUME NEW f \in DOMAIN t.disk
      PROVE  \/ f \in DOMAIN first /\ t.disk[f] = first[f]
             \/ \E i \in DOMAIN t.files : f = t.files[i]
             \/ \E i \in DOMAIN t.dirs : f = t.dirs[i]
  <2>1. CASE f = p
    <3>1. n + 1 \in DOMAIN t.dirs
      BY <1>3, <1>4
    <3> QED BY <1>4, <2>1, <3>1
  <2>2. CASE f # p
    <3>1. f \in DOMAIN s.disk /\ t.disk[f] = s.disk[f]
      BY <1>2, <2>2
    <3>2. \/ f \in DOMAIN first /\ s.disk[f] = first[f]
          \/ \E i \in DOMAIN s.files : f = s.files[i]
          \/ \E i \in DOMAIN s.dirs : f = s.dirs[i]
      BY <3>1 DEF Noted
    <3> QED BY <1>3, <1>4, <1>6, <3>1, <3>2
  <2> QED BY <2>1, <2>2
<1>9. \A i \in DOMAIN t.files :
          t.files[i] \in DOMAIN t.disk /\ t.disk[t.files[i]] # Dir /\ t.files[i] \in listed
  BY <1>2 DEF Noted
<1>10. ASSUME NEW i \in 1..(n + 1)
       PROVE  /\ t.dirs[i] \in DOMAIN t.disk /\ t.disk[t.dirs[i]] = Dir
              /\ t.dirs[i] \notin DOMAIN first
              /\ \/ Front(t.dirs[i]) \in DOMAIN first
                 \/ \E j \in 1..i - 1 : t.dirs[j] = Front(t.dirs[i])
  <2>1. CASE i = n + 1
    <3>1. Front(p) \in DOMAIN first \/ \E j \in 1..n : s.dirs[j] = Front(p)
      BY <1>3 DEF Noted
    <3>2. i - 1 = n
      BY <1>3, <2>1
    <3>3. p \notin DOMAIN first
      BY DEF Noted
    <3> QED BY <1>2, <1>4, <2>1, <3>1, <3>2, <3>3
  <2>2. CASE i # n + 1
    <3>1. i \in 1..n /\ t.dirs[i] = s.dirs[i]
      BY <1>4, <1>5, <2>2
    <3>2. /\ s.dirs[i] \in DOMAIN s.disk /\ s.disk[s.dirs[i]] = Dir /\ s.dirs[i] \notin DOMAIN first
          /\ Front(s.dirs[i]) \in DOMAIN first \/ \E j \in 1..i - 1 : s.dirs[j] = Front(s.dirs[i])
      BY <1>3, <3>1 DEF Noted
    <3>3. \A j \in 1..i - 1 : j \in 1..n
      BY <1>3, <3>1
    <3> QED BY <1>2, <1>4, <3>1, <3>2, <3>3
  <2> QED BY <2>1, <2>2
<1>11. \A i, j \in 1..(n + 1) : t.dirs[i] = t.dirs[j] => i = j
  <2>1. \A i, j \in 1..n : s.dirs[i] = s.dirs[j] => i = j
    BY <1>3 DEF Noted
  <2> QED BY <1>4, <1>5, <1>6, <2>1
<1> QED BY <1>4, <1>7, <1>8, <1>9, <1>10, <1>11 DEF Noted

LEMMA MkDirIs ==
    ASSUME NEW first, NEW listed, IsTree(first),
           NEW s, Noted(s, first, listed), NEW p \in Paths
    PROVE  Noted(MkDir(s, p), first, listed) /\ Grown(s, MkDir(s, p))
<1>1. s \in Extractions /\ s.disk \in Disks /\ s.dirs \in Seq(Paths) /\ Dir \in Contents
  BY DEF Noted, Extractions, Contents
<1>2. CASE Exists(s.disk, p)
  BY <1>2 DEF MkDir, Grown
<1>3. CASE ~ Exists(s.disk, p) /\ ParentIsDir(s.disk, p)
  <2>1. MkDir(s, p) = [s EXCEPT !.disk = With(s.disk, p, Dir), !.dirs = Append(s.dirs, p)]
    BY <1>3 DEF MkDir
  <2>2. /\ With(s.disk, p, Dir) \in Disks /\ DOMAIN With(s.disk, p, Dir) = DOMAIN s.disk \cup {p}
        /\ \A f \in DOMAIN s.disk \ {p} : With(s.disk, p, Dir)[f] = s.disk[f]
    BY <1>1, WithIs
  <2>3. Append(s.dirs, p) \in Seq(Paths)
    BY <1>1, AppendProperties
  <2>4. PICK t : t = MkDir(s, p)
    OBVIOUS
  <2>5. /\ t \in Extractions /\ t.files = s.files /\ t.dirs = Append(s.dirs, p)
        /\ t.disk = With(s.disk, p, Dir) /\ t.ok = s.ok
    BY <1>1, <2>1, <2>2, <2>3, <2>4 DEF Extractions
  <2>6. p \notin DOMAIN s.disk /\ Front(p) \in DOMAIN s.disk /\ s.disk[Front(p)] = Dir
    BY <1>3 DEF Exists, ParentIsDir
  <2>7. Noted(t, first, listed)
    BY <2>5, <2>6, MadeIsNoted
  <2>8. Grown(s, t)
    BY <2>2, <2>5, <2>6 DEF Grown
  <2> QED BY <2>4, <2>7, <2>8
<1>4. CASE ~ Exists(s.disk, p) /\ ~ ParentIsDir(s.disk, p)
  <2>1. PICK t : t = [s EXCEPT !.ok = FALSE]
    OBVIOUS
  <2>2. t = MkDir(s, p)
    BY <1>4, <2>1 DEF MkDir
  <2>3. /\ t \in Extractions /\ t.files = s.files /\ t.dirs = s.dirs /\ t.disk = s.disk
        /\ t.ok = FALSE
    BY <1>1, <2>1 DEF Extractions
  <2>4. Noted(t, first, listed)
    BY <2>3 DEF Noted
  <2> QED BY <2>2, <2>3, <2>4 DEF Grown
<1> QED BY <1>2, <1>3, <1>4

LEMMA GrownFurther ==
    ASSUME NEW s, NEW t, NEW w, Grown(s, t), Grown(t, w)
    PROVE  Grown(s, w)
BY DEF Grown

LEMMA ParentsAre ==
    ASSUME NEW first, NEW listed, IsTree(first),
           NEW s, Noted(s, first, listed), NEW name \in FileNames
    PROVE  Noted(Parents(s, name), first, listed) /\ Grown(s, Parents(s, name))
<1> DEFINE S == {t \in Extractions : Noted(t, first, listed) /\ Grown(s, t)}
           n == Len(name) - 1
           P(i) == PathOf(SubSeq(name, 1, i))
           g == [i \in 1..n |-> [x \in S |-> MkDir(x, P(i))]]
           made == CHOOSE u : u = [i \in 0..Len(name) - 1 |->
                      IF i = 0 THEN s ELSE MkDir(u[i - 1], PathOf(SubSeq(name, 1, i)))]
<1>1. Parents(s, name) = made[n]
  BY DEF Parents
<1>2. n \in Nat
  <2>1. Len(name) \in Nat /\ Len(name) # 0
    BY EmptySeq DEF FileNames
  <2> QED BY <2>1
<1>3. s \in S
  BY DEF Noted, Grown
<1>4. \A i \in 1..n : P(i) \in Paths
  <2>1. TAKE i \in 1..n
  <2>2. \A j \in 1..i : name[j] \in Components
    BY <1>2 DEF FileNames
  <2>3. SubSeq(name, 1, i) \in Seq(Components)
    BY <1>2, <2>2, SubSeqProperties DEF FileNames
  <2> QED BY <2>3, PathType
<1>5. \A i \in 1..n : \A x \in S : MkDir(x, P(i)) \in S
  <2>1. TAKE i \in 1..n
  <2>2. TAKE x \in S
  <2> HIDE DEF P
  <2>3. Noted(MkDir(x, P(i)), first, listed) /\ Grown(x, MkDir(x, P(i)))
    BY <1>4, MkDirIs
  <2>4. MkDir(x, P(i)) \in Extractions
    BY <2>3 DEF Noted
  <2> QED BY <2>3, <2>4, GrownFurther
<1>6. \A i \in 1..n : \A x \in S : g[i][x] = MkDir(x, P(i))
  BY DEF g
<1> HIDE DEF g, S
<1>7. PICK u : Rounds(u, n, s, g, S)
  <2>1. \A i \in 1..n : \A x \in S : g[i][x] \in S
    BY <1>5, <1>6
  <2> QED BY <1>2, <1>3, <2>1, RoundsExist
<1>8. u = [i \in 0..n |-> IF i = 0 THEN s ELSE MkDir(u[i - 1], P(i))]
  <2>1. u = [i \in 0..n |-> u[i]]
    BY <1>7 DEF Rounds
  <2>2. \A i \in 0..n : u[i] = IF i = 0 THEN s ELSE MkDir(u[i - 1], P(i))
    <3>1. TAKE i \in 0..n
    <3>2. CASE i = 0
      BY <1>7, <3>2 DEF Rounds
    <3>3. CASE i # 0
      <4>1. i \in 1..n /\ i - 1 \in 0..n
        BY <1>2, <3>3
      <4>2. u[i] = g[i][u[i - 1]] /\ u[i - 1] \in S
        BY <1>7, <4>1 DEF Rounds
      <4> QED BY <1>6, <3>3, <4>1, <4>2
    <3> QED BY <3>2, <3>3
  <2> HIDE DEF P
  <2> QED BY <2>1, <2>2
<1>9. made = [i \in 0..n |-> IF i = 0 THEN s ELSE MkDir(made[i - 1], P(i))]
  BY <1>8
<1> HIDE DEF made, P
<1>10. made[0] = s /\ \A i \in 1..n : made[i] = MkDir(made[i - 1], P(i))
  <2>1. \A i \in 0..n : made[i] = IF i = 0 THEN s ELSE MkDir(made[i - 1], P(i))
    BY <1>9
  <2>2. 0 \in 0..n /\ \A i \in 1..n : i \in 0..n /\ i # 0
    BY <1>2
  <2> QED BY <2>1, <2>2
<1>11. \A i \in 0..n : made[i] \in S
  <2>1. \A i \in 1..n : made[i - 1] \in S => made[i] = g[i][made[i - 1]]
    BY <1>6, <1>10
  <2> QED BY <1>2, <1>7, <1>10, <2>1, RoundsAreUnique
<1>12. made[n] \in S
  BY <1>2, <1>11
<1> QED BY <1>1, <1>12 DEF S

\* A file is written in place, or made; and noted either way.
IsWritten(t, s, name, data) == t = WriteFile(s, name, TRUE, data)

LEMMA WriteFileIs ==
    ASSUME NEW first, NEW listed, IsTree(first),
           NEW s, Noted(s, first, listed), NEW name \in FileNames, PathOf(name) \in listed,
           NEW data \in Seq(Block), NEW t, IsWritten(t, s, name, data)
    PROVE  /\ Noted(t, first, listed)
           /\ DOMAIN s.disk \subseteq DOMAIN t.disk
           /\ \A f \in DOMAIN s.disk \ {PathOf(name)} : t.disk[f] = s.disk[f]
           /\ t.ok => /\ s.ok /\ PathOf(name) \in DOMAIN t.disk
                      /\ t.disk[PathOf(name)] = data
<1> DEFINE path == PathOf(name)
           opens == /\ path # <<>> /\ ~TrailingSlash(name)
                    /\ IF Exists(s.disk, path) THEN s.disk[path] # Dir
                       ELSE ParentIsDir(s.disk, path)
<1>1. s \in Extractions /\ s.disk \in Disks /\ s.files \in Seq(Paths) /\ s.ok \in BOOLEAN
  BY DEF Noted, Extractions
<1>2. path \in Paths
  BY PathType DEF FileNames
<1>3. data \in Contents /\ data # Dir
  BY DirIsNoContents, EmptySeq DEF Contents
<1>5. CASE ~ opens
  <2>1. t = [s EXCEPT !.ok = FALSE]
    BY <1>5 DEF WriteFile, IsWritten
  <2>2. t \in Extractions /\ t.disk = s.disk /\ t.files = s.files /\ t.dirs = s.dirs /\ ~ t.ok
    BY <1>1, <2>1 DEF Extractions
  <2>3. Noted(t, first, listed)
    BY <2>2 DEF Noted
  <2> QED BY <2>2, <2>3
<1>6. CASE opens
  <2>1. t = [s EXCEPT !.disk = With(s.disk, path, data), !.files = Append(s.files, path),
                      !.ok = (s.ok /\ TRUE)]
    BY <1>6 DEF WriteFile, IsWritten
  <2> HIDE DEF opens, path
  <2>2. PICK d \in Disks : d = s.disk
    BY <1>1
  <2>3. /\ With(d, path, data) \in Disks /\ With(d, path, data)[path] = data
        /\ DOMAIN With(d, path, data) = DOMAIN d \cup {path}
        /\ \A f \in DOMAIN d \ {path} : With(d, path, data)[f] = d[f]
    BY <1>2, <1>3, WithIs
  <2>4. Append(s.files, path) \in Seq(Paths)
    BY <1>1, <1>2, AppendProperties
  <2>5. /\ t \in Extractions /\ t.disk = With(d, path, data) /\ t.files = Append(s.files, path)
        /\ t.dirs = s.dirs /\ (t.ok => s.ok)
    BY <1>1, <2>1, <2>2, <2>3, <2>4 DEF Extractions
  <2> DEFINE n == Len(s.files)
  <2>6. /\ n \in Nat /\ DOMAIN s.files = 1..n /\ DOMAIN t.files = 1..(n + 1)
        /\ t.files[n + 1] = path /\ \A i \in 1..n : t.files[i] = s.files[i]
    BY <1>1, <1>2, <2>5, AppendProperties
  <2> HIDE DEF n
  <2>7. path \in DOMAIN s.disk => s.disk[path] # Dir
    BY <1>6 DEF opens, Exists
  <2>8. \A i \in 1..n : i \in 1..(n + 1)
    BY <2>6
  <2>9. ASSUME NEW f \in DOMAIN t.disk
        PROVE  \/ f \in DOMAIN first /\ t.disk[f] = first[f]
               \/ \E i \in DOMAIN t.files : f = t.files[i]
               \/ \E i \in DOMAIN t.dirs : f = t.dirs[i]
    <3>1. CASE f = path
      <4>1. n + 1 \in DOMAIN t.files
        BY <2>6
      <4> QED BY <2>6, <3>1, <4>1
    <3>2. CASE f # path
      <4>1. f \in DOMAIN s.disk /\ t.disk[f] = s.disk[f]
        BY <2>2, <2>3, <2>5, <3>2
      <4>2. \/ f \in DOMAIN first /\ s.disk[f] = first[f]
            \/ \E i \in DOMAIN s.files : f = s.files[i]
            \/ \E i \in DOMAIN s.dirs : f = s.dirs[i]
        BY <4>1 DEF Noted
      <4> QED BY <2>5, <2>6, <2>8, <4>1, <4>2
    <3> QED BY <3>1, <3>2
  <2>10. ASSUME NEW i \in DOMAIN t.files
         PROVE  t.files[i] \in DOMAIN t.disk /\ t.disk[t.files[i]] # Dir /\ t.files[i] \in listed
    <3>1. CASE t.files[i] = path
      BY <1>3, <2>2, <2>3, <2>5, <3>1 DEF path
    <3>2. CASE t.files[i] # path
      <4>1. i \in 1..n /\ t.files[i] = s.files[i]
        BY <2>6, <3>2
      <4>2. s.files[i] \in DOMAIN s.disk /\ s.disk[s.files[i]] # Dir /\ s.files[i] \in listed
        BY <2>6, <4>1 DEF Noted
      <4> QED BY <2>2, <2>3, <2>5, <3>2, <4>1, <4>2
    <3> QED BY <3>1, <3>2
  <2>11. ASSUME NEW i \in DOMAIN s.dirs
         PROVE  s.dirs[i] \in DOMAIN t.disk /\ t.disk[s.dirs[i]] = Dir
    <3>1. s.dirs[i] \in DOMAIN s.disk /\ s.disk[s.dirs[i]] = Dir
      BY DEF Noted
    <3> QED BY <2>2, <2>3, <2>5, <2>7, <3>1
  <2>12. DOMAIN first \subseteq DOMAIN t.disk
    BY <2>2, <2>3, <2>5 DEF Noted
  <2>13. Noted(t, first, listed)
    BY <2>5, <2>9, <2>10, <2>11, <2>12 DEF Noted
  <2> QED BY <2>2, <2>3, <2>5, <2>13 DEF path
<1> QED BY <1>5, <1>6

-----------------------------------------------------------------------------
(* Rollback                                                                *)

Elements(names) == {names[i] : i \in DOMAIN names}

LEMMA UnlinkedIs ==
    ASSUME NEW d \in Disks, NEW names \in Seq(Paths),
           \A i \in DOMAIN names : names[i] \in DOMAIN d /\ d[names[i]] # Dir
    PROVE  /\ Unlinked(d, names) \in Disks
           /\ DOMAIN Unlinked(d, names) = DOMAIN d \ Elements(names)
           /\ \A p \in DOMAIN d \ Elements(names) : Unlinked(d, names)[p] = d[p]
<1> DEFINE n == Len(names)
           x(i) == names[Len(names) + 1 - i]
           S == {e \in Disks : /\ DOMAIN d \ Elements(names) \subseteq DOMAIN e
                               /\ DOMAIN e \subseteq DOMAIN d
                               /\ \A p \in DOMAIN e : e[p] = d[p]}
           g == [i \in 1..n |-> [e \in S |-> Unlink(e, x(i))]]
           left == CHOOSE u : u = [i \in 0..Len(names) |->
                      IF i = 0 THEN d ELSE Unlink(u[i - 1], names[Len(names) + 1 - i])]
<1>1. Unlinked(d, names) = left[n]
  BY DEF Unlinked
<1>2. n \in Nat /\ DOMAIN names = 1..n
  OBVIOUS
<1>3. d \in S
  OBVIOUS
<1>4. \A i \in 1..n : x(i) \in Elements(names) /\ x(i) \in DOMAIN d /\ d[x(i)] # Dir
  <2>1. TAKE i \in 1..n
  <2>2. n + 1 - i \in DOMAIN names
    BY <1>2
  <2> HIDE DEF n
  <2> QED BY <2>2 DEF Elements, n
<1>5. ASSUME NEW i \in 1..n, NEW e \in S
      PROVE  /\ Unlink(e, x(i)) \in S
             /\ DOMAIN Unlink(e, x(i)) = DOMAIN e \ {x(i)}
  <2>1. PICK p : p = x(i)
    OBVIOUS
  <2>2. p \in Elements(names) /\ p \in DOMAIN d /\ d[p] # Dir
    BY <1>4, <2>1
  <2> HIDE DEF x
  <2>3. CASE p \in DOMAIN e
    <3>1. Unlink(e, p) = Without(e, p)
      BY <2>2, <2>3 DEF Unlink, Exists
    <3>2. /\ Without(e, p) \in Disks /\ DOMAIN Without(e, p) = DOMAIN e \ {p}
          /\ \A f \in DOMAIN e \ {p} : Without(e, p)[f] = e[f]
      BY WithoutIs
    <3>3. PICK w : w = Without(e, p)
      OBVIOUS
    <3>4. w \in S
      BY <2>2, <3>2, <3>3
    <3> QED BY <2>1, <3>1, <3>2, <3>3, <3>4
  <2>4. CASE p \notin DOMAIN e
    <3>1. Unlink(e, p) = e
      BY <2>4 DEF Unlink, Exists
    <3> QED BY <2>1, <2>4, <3>1
  <2> QED BY <2>3, <2>4
<1>6. \A i \in 1..n : \A e \in S : g[i][e] = Unlink(e, x(i))
  BY DEF g
<1> HIDE DEF g, S, n
<1>7. PICK u : Rounds(u, n, d, g, S)
  <2>1. \A i \in 1..n : \A e \in S : g[i][e] \in S
    BY <1>5, <1>6
  <2> QED BY <1>2, <1>3, <2>1, RoundsExist
<1>8. u = [i \in 0..n |-> IF i = 0 THEN d ELSE Unlink(u[i - 1], x(i))]
  <2>1. u = [i \in 0..n |-> u[i]]
    BY <1>7 DEF Rounds
  <2>2. \A i \in 0..n : u[i] = IF i = 0 THEN d ELSE Unlink(u[i - 1], x(i))
    <3>1. TAKE i \in 0..n
    <3>2. CASE i = 0
      BY <1>7, <3>2 DEF Rounds
    <3>3. CASE i # 0
      <4>1. i \in 1..n /\ i - 1 \in 0..n
        BY <1>2, <3>3
      <4>2. u[i] = g[i][u[i - 1]] /\ u[i - 1] \in S
        BY <1>7, <4>1 DEF Rounds
      <4> QED BY <1>6, <3>3, <4>1, <4>2
    <3> QED BY <3>2, <3>3
  <2> HIDE DEF x
  <2> QED BY <2>1, <2>2
<1>9. left = [i \in 0..n |-> IF i = 0 THEN d ELSE Unlink(left[i - 1], x(i))]
  BY <1>8 DEF n
<1> HIDE DEF left, x
<1>10. left[0] = d /\ \A i \in 1..n : left[i] = Unlink(left[i - 1], x(i))
  <2>1. \A i \in 0..n : left[i] = IF i = 0 THEN d ELSE Unlink(left[i - 1], x(i))
    BY <1>9
  <2>2. 0 \in 0..n /\ \A i \in 1..n : i \in 0..n /\ i # 0
    BY <1>2
  <2> QED BY <2>1, <2>2
<1>11. \A i \in 0..n : left[i] \in S
  <2>1. \A i \in 1..n : left[i - 1] \in S => left[i] = g[i][left[i - 1]]
    BY <1>6, <1>10
  <2> QED BY <1>2, <1>7, <1>10, <2>1, RoundsAreUnique
<1>12. \A i \in 1..n : left[i - 1] \in S /\ DOMAIN left[i] = DOMAIN left[i - 1] \ {x(i)}
  <2>1. TAKE i \in 1..n
  <2>2. i - 1 \in 0..n
    BY <1>2
  <2> QED BY <1>5, <1>10, <1>11, <2>2
<1>13. \A i \in 0..n : \A j \in 1..i : x(j) \notin DOMAIN left[i]
  <2> DEFINE T == {i \in Nat : i <= n => \A j \in 1..i : x(j) \notin DOMAIN left[i]}
  <2>1. 0 \in T
    OBVIOUS
  <2>2. ASSUME NEW i \in T PROVE i + 1 \in T
    <3>1. SUFFICES ASSUME i + 1 <= n PROVE \A j \in 1..i + 1 : x(j) \notin DOMAIN left[i + 1]
      OBVIOUS
    <3>2. i \in Nat /\ \A j \in 1..i : x(j) \notin DOMAIN left[i]
      BY <1>2, <3>1
    <3> HIDE DEF T
    <3>3. PICK k : k = i + 1
      OBVIOUS
    <3>4. k \in 1..n /\ k - 1 = i
      BY <1>2, <3>1, <3>2, <3>3
    <3>5. DOMAIN left[k] = DOMAIN left[i] \ {x(k)}
      BY <1>12, <3>4
    <3>6. \A j \in 1..k : j = k \/ j \in 1..i
      BY <3>2, <3>3
    <3> QED BY <3>2, <3>3, <3>5, <3>6
  <2> HIDE DEF T
  <2>3. T \in SUBSET Nat
    BY DEF T
  <2>4. T = Nat
    BY <2>1, <2>2, <2>3, Induction
  <2> QED BY <1>2, <2>4 DEF T
<1>14. \A p \in Elements(names) : p \notin DOMAIN left[n]
  <2>1. TAKE p \in Elements(names)
  <2>2. PICK i \in 1..n : p = names[i]
    BY <1>2 DEF Elements
  <2>3. PICK j : j = n + 1 - i
    OBVIOUS
  <2>4. j \in 1..n /\ n + 1 - j = i /\ n \in 0..n
    BY <1>2, <2>3
  <2>5. x(j) = p
    BY <2>2, <2>4 DEF x, n
  <2> QED BY <1>13, <2>4, <2>5
<1>15. left[n] \in S
  BY <1>2, <1>11
<1>16. PICK e : e = left[n]
  OBVIOUS
<1>17. /\ e \in Disks /\ DOMAIN d \ Elements(names) \subseteq DOMAIN e
       /\ DOMAIN e \subseteq DOMAIN d /\ \A p \in DOMAIN e : e[p] = d[p]
  BY <1>15, <1>16 DEF S
<1>18. DOMAIN e = DOMAIN d \ Elements(names)
  BY <1>14, <1>16, <1>17
<1> QED BY <1>1, <1>16, <1>17, <1>18

\* The directories that are noted are empty when their turn comes.
LEMMA RemoveDirsIs ==
    ASSUME NEW d \in Disks, NEW names \in Seq(Paths),
           \A i, j \in DOMAIN names : names[i] = names[j] => i = j,
           \A q \in DOMAIN d : \A i \in DOMAIN names :
               q # <<>> /\ Front(q) = names[i] => \E j \in DOMAIN names : i < j /\ q = names[j]
    PROVE  /\ DOMAIN RemoveDirs(d, names) = DOMAIN d \ Elements(names)
           /\ \A p \in DOMAIN d \ Elements(names) : RemoveDirs(d, names)[p] = d[p]
<1> DEFINE n == Len(names)
           x(i) == names[Len(names) + 1 - i]
           S == {e \in Disks : /\ DOMAIN e \subseteq DOMAIN d
                               /\ \A p \in DOMAIN e : e[p] = d[p]}
           g == [i \in 1..n |-> [e \in S |-> RmDir(e, x(i))]]
           left == CHOOSE u : u = [i \in 0..Len(names) |->
                      IF i = 0 THEN d ELSE RmDir(u[i - 1], names[Len(names) + 1 - i])]
<1>1. RemoveDirs(d, names) = left[n]
  BY DEF RemoveDirs
<1>2. n \in Nat /\ DOMAIN names = 1..n
  OBVIOUS
<1>3. d \in S
  OBVIOUS
<1>5. ASSUME NEW e \in S, NEW p
      PROVE  RmDir(e, p) \in S
  <2>1. CASE RmDir(e, p) = e
    BY <2>1
  <2>2. CASE RmDir(e, p) = Without(e, p)
    <3>2. /\ Without(e, p) \in Disks /\ DOMAIN Without(e, p) = DOMAIN e \ {p}
          /\ \A f \in DOMAIN e \ {p} : Without(e, p)[f] = e[f]
      BY WithoutIs
    <3>3. PICK w : w = Without(e, p)
      OBVIOUS
    <3>4. w \in S
      BY <3>2, <3>3
    <3> QED BY <2>2, <3>3, <3>4
  <2> QED BY <2>1, <2>2 DEF RmDir
<1>6. \A i \in 1..n : \A e \in S : g[i][e] = RmDir(e, x(i))
  BY DEF g
<1> HIDE DEF g, S, n
<1>7. PICK u : Rounds(u, n, d, g, S)
  <2>1. \A i \in 1..n : \A e \in S : g[i][e] \in S
    BY <1>5, <1>6
  <2> QED BY <1>2, <1>3, <2>1, RoundsExist
<1>8. u = [i \in 0..n |-> IF i = 0 THEN d ELSE RmDir(u[i - 1], x(i))]
  <2>1. u = [i \in 0..n |-> u[i]]
    BY <1>7 DEF Rounds
  <2>2. \A i \in 0..n : u[i] = IF i = 0 THEN d ELSE RmDir(u[i - 1], x(i))
    <3>1. TAKE i \in 0..n
    <3>2. CASE i = 0
      BY <1>7, <3>2 DEF Rounds
    <3>3. CASE i # 0
      <4>1. i \in 1..n /\ i - 1 \in 0..n
        BY <1>2, <3>3
      <4>2. u[i] = g[i][u[i - 1]] /\ u[i - 1] \in S
        BY <1>7, <4>1 DEF Rounds
      <4> QED BY <1>6, <3>3, <4>1, <4>2
    <3> QED BY <3>2, <3>3
  <2> HIDE DEF x
  <2> QED BY <2>1, <2>2
<1>9. left = [i \in 0..n |-> IF i = 0 THEN d ELSE RmDir(left[i - 1], x(i))]
  BY <1>8 DEF n
<1> HIDE DEF left, x
<1>10. left[0] = d /\ \A i \in 1..n : left[i] = RmDir(left[i - 1], x(i))
  <2>1. \A i \in 0..n : left[i] = IF i = 0 THEN d ELSE RmDir(left[i - 1], x(i))
    BY <1>9
  <2>2. 0 \in 0..n /\ \A i \in 1..n : i \in 0..n /\ i # 0
    BY <1>2
  <2> QED BY <2>1, <2>2
<1>11. \A i \in 0..n : left[i] \in S
  <2>1. \A i \in 1..n : left[i - 1] \in S => left[i] = g[i][left[i - 1]]
    BY <1>6, <1>10
  <2> QED BY <1>2, <1>7, <1>10, <2>1, RoundsAreUnique
<1> DEFINE Gone(i) == {names[k] : k \in (n + 1 - i)..n}
<1>12. ASSUME NEW i \in Nat, NEW k, k = i + 1, k \in 1..n, DOMAIN left[i] = DOMAIN d \ Gone(i)
       PROVE  DOMAIN left[k] = DOMAIN d \ Gone(k)
  <2>1. PICK y : y = n + 1 - k
    OBVIOUS
  <2>2. y \in 1..n /\ k - 1 = i /\ i \in 0..n /\ n + 1 - i = y + 1
    BY <1>2, <1>12, <2>1
  <2>3. x(k) = names[y]
    BY <2>1 DEF x, n
  <2>4. ~ \E q \in DOMAIN left[i] : q # <<>> /\ Front(q) = names[y]
    <3>1. SUFFICES ASSUME NEW q \in DOMAIN left[i], q # <<>>, Front(q) = names[y]
                   PROVE  FALSE
      OBVIOUS
    <3>2. q \in DOMAIN d
      BY <1>12
    <3>3. PICK j \in DOMAIN names : y < j /\ q = names[j]
      BY <1>2, <2>2, <3>1, <3>2
    <3>4. j \in (n + 1 - i)..n
      BY <1>2, <2>2, <3>3
    <3>5. q \in Gone(i)
      BY <3>3, <3>4
    <3> QED BY <1>12, <3>5
  <2>5. left[k] = Without(left[i], names[y])
    BY <1>10, <1>12, <2>2, <2>3, <2>4 DEF RmDir
  <2>6. DOMAIN left[k] = DOMAIN left[i] \ {names[y]}
    <3>1. PICK e : e = left[i]
      OBVIOUS
    <3>2. e \in Disks
      BY <1>11, <2>2, <3>1 DEF S
    <3>3. DOMAIN Without(e, names[y]) = DOMAIN e \ {names[y]}
      BY <3>2, WithoutIs
    <3> QED BY <2>5, <3>1, <3>3
  <2>7. (n + 1 - k)..n = {y} \cup ((n + 1 - i)..n)
    BY <1>2, <2>1, <2>2
  <2>8. Gone(k) = Gone(i) \cup {names[y]}
    BY <2>7
  <2> HIDE DEF Gone
  <2> QED BY <1>12, <2>6, <2>8
<1>13. DOMAIN left[n] = DOMAIN d \ Gone(n)
  <2> DEFINE T == {i \in Nat : i <= n => DOMAIN left[i] = DOMAIN d \ Gone(i)}
  <2>1. 0 \in T
    <3>1. \A k : k \notin (n + 1 - 0)..n
      BY <1>2
    <3>2. Gone(0) = {}
      BY <3>1
    <3> HIDE DEF Gone
    <3> QED BY <1>10, <3>2
  <2>2. ASSUME NEW i \in T PROVE i + 1 \in T
    <3>1. SUFFICES ASSUME i + 1 <= n PROVE DOMAIN left[i + 1] = DOMAIN d \ Gone(i + 1)
      BY DEF T
    <3> HIDE DEF Gone
    <3>2. i \in Nat /\ DOMAIN left[i] = DOMAIN d \ Gone(i)
      BY <1>2, <3>1 DEF T
    <3> HIDE DEF T
    <3>3. PICK k : k = i + 1
      OBVIOUS
    <3>4. k \in 1..n
      BY <1>2, <3>1, <3>2, <3>3
    <3>5. DOMAIN left[k] = DOMAIN d \ Gone(k)
      BY <1>12, <3>2, <3>3, <3>4
    <3> QED BY <3>3, <3>5
  <2> HIDE DEF T
  <2>3. T \in SUBSET Nat
    BY DEF T
  <2>4. T = Nat
    BY <2>1, <2>2, <2>3, Induction
  <2> HIDE DEF Gone
  <2> QED BY <1>2, <2>4 DEF T
<1>14. Gone(n) = Elements(names)
  <2>1. (n + 1 - n)..n = DOMAIN names
    BY <1>2
  <2> QED BY <2>1 DEF Elements
<1>15. left[n] \in S
  BY <1>2, <1>11
<1> HIDE DEF Gone
<1>16. PICK e : e = left[n]
  OBVIOUS
<1>17. \A p \in DOMAIN e : e[p] = d[p]
  BY <1>15, <1>16 DEF S
<1> QED BY <1>1, <1>13, <1>14, <1>16, <1>17

\* Undoing what is noted leaves what was found, but for files of the archive's names.
LEMMA UndoneIs ==
    ASSUME NEW first, NEW listed, IsTree(first), NEW s, Noted(s, first, listed), NEW d,
           d = RemoveDirs(Unlinked(s.disk, s.files), s.dirs)
    PROVE  /\ \A p \in DOMAIN d : p \in DOMAIN first /\ d[p] = first[p]
           /\ \A p \in DOMAIN first : p \in DOMAIN d \/ p \in Elements(s.files)
<1>1. s.disk \in Disks /\ s.files \in Seq(Paths) /\ s.dirs \in Seq(Paths)
  BY DEF Noted, Extractions
<1>2. PICK a, made, ds : a = s.disk /\ made = s.files /\ ds = s.dirs
  OBVIOUS
<1>3. a \in Disks /\ made \in Seq(Paths) /\ ds \in Seq(Paths)
  BY <1>1, <1>2
<1>4. \A i \in DOMAIN made : made[i] \in DOMAIN a /\ a[made[i]] # Dir
  BY <1>2 DEF Noted
<1>5. PICK e : e = Unlinked(a, made)
  OBVIOUS
<1>6. /\ e \in Disks /\ DOMAIN e = DOMAIN a \ Elements(made)
      /\ \A p \in DOMAIN e : e[p] = a[p]
  BY <1>3, <1>4, <1>5, UnlinkedIs
<1>7. \A p \in DOMAIN a : \/ p \in DOMAIN first /\ a[p] = first[p]
                          \/ p \in Elements(made) \/ p \in Elements(ds)
  BY <1>2 DEF Noted, Elements
<1>8. \A i, j \in DOMAIN ds : ds[i] = ds[j] => i = j
  BY <1>2 DEF Noted
<1>9. ASSUME NEW q \in DOMAIN e, NEW i \in DOMAIN ds, q # <<>>, Front(q) = ds[i]
      PROVE  \E j \in DOMAIN ds : i < j /\ q = ds[j]
  <2>1. ds[i] \notin DOMAIN first
    BY <1>2 DEF Noted
  <2>2. q \notin DOMAIN first
    BY <1>9, <2>1 DEF IsTree
  <2>3. PICK k \in DOMAIN ds : q = ds[k]
    BY <1>6, <1>7, <2>2 DEF Elements
  <2>4. \E j \in 1..k - 1 : ds[j] = ds[i]
    BY <1>2, <1>9, <2>1, <2>3 DEF Noted
  <2>5. PICK j \in 1..k - 1 : ds[j] = ds[i]
    BY <2>4
  <2>6. DOMAIN ds = 1..Len(ds) /\ Len(ds) \in Nat
    BY <1>3
  <2>7. j \in DOMAIN ds /\ i \in Nat /\ k \in Nat /\ j < k
    BY <2>6
  <2>8. j = i
    BY <1>8, <2>5, <2>7
  <2> QED BY <2>3, <2>7, <2>8
<1>10. PICK w : w = RemoveDirs(e, ds)
  OBVIOUS
<1>11. DOMAIN w = DOMAIN e \ Elements(ds) /\ \A p \in DOMAIN w : w[p] = e[p]
  <2>1. \A q \in DOMAIN e : \A i \in DOMAIN ds :
            q # <<>> /\ Front(q) = ds[i] => \E j \in DOMAIN ds : i < j /\ q = ds[j]
    BY <1>9
  <2>2. e \in Disks /\ ds \in Seq(Paths)
    BY <1>3, <1>6
  <2>3. /\ DOMAIN RemoveDirs(e, ds) = DOMAIN e \ Elements(ds)
        /\ \A p \in DOMAIN e \ Elements(ds) : RemoveDirs(e, ds)[p] = e[p]
    BY <1>8, <2>1, <2>2, RemoveDirsIs
  <2> QED BY <1>10, <2>3
<1>12. d = w
  BY <1>2, <1>5, <1>10
<1>13. \A p \in DOMAIN first : p \in DOMAIN a /\ p \notin Elements(ds)
  BY <1>2 DEF Noted, Elements
<1> QED BY <1>2, <1>6, <1>7, <1>11, <1>12, <1>13

-----------------------------------------------------------------------------
(* The walker, as it stands at w = [pos, pending] in the payload of pk     *)

Here == [pos |-> pos, pending |-> pending]
Start == [pos |-> 1, pending |-> Nothing]

EndAt(pk, w) == w.pos \in DOMAIN pk.payload => pk.payload[w.pos].kind = "zero"
IsMeta(pk, w) == pk.payload[w.pos].type \in MetaTypes
MemberSize(pk, w) ==
    IF w.pending.size # NoSize THEN w.pending.size
    ELSE IF pk.payload[w.pos].kind = "header" THEN pk.payload[w.pos].size ELSE 0
MemberName(pk, w) == IF w.pending.name # Unset THEN w.pending.name ELSE pk.payload[w.pos].name
MemberData(pk, w) == SubSeq(pk.payload, w.pos + 1, w.pos + MemberSize(pk, w))
MemberText(pk, w) == IF pk.payload[w.pos].size = 0 THEN ZeroBlock ELSE pk.payload[w.pos + 1]

\* Where it goes from there, in verification and in extraction.
Following(pk, w) ==
    IF IsMeta(pk, w)
    THEN [pos |-> w.pos + 1 + pk.payload[w.pos].size,
          pending |-> Override(w.pending, pk.payload[w.pos].type, MemberText(pk, w))]
    ELSE [pos |-> w.pos + 1 + MemberSize(pk, w), pending |-> Nothing]

\* Entry i of the manifest is the first of that name.
IsFirst(pk, name, i) ==
    /\ i \in DOMAIN pk.manifest /\ Normal(pk.manifest[i].path) = Normal(name)
    /\ \A j \in DOMAIN pk.manifest : Normal(pk.manifest[j].path) = Normal(name) => i <= j

\* The member is a file with the contents of entry i.
Meets(pk, w, i) ==
    /\ ~ EndAt(pk, w) /\ ~ IsMeta(pk, w) /\ MemberName(pk, w) # NoName
    /\ IsRegular(pk.payload[w.pos].type, MemberName(pk, w))
    /\ w.pos + MemberSize(pk, w) <= Len(pk.payload)
    /\ IsFirst(pk, MemberName(pk, w), i) /\ MemberData(pk, w) = pk.manifest[i].contents

\* Verification has let it pass.
Fine(pk, w) ==
    /\ ~ EndAt(pk, w)
    /\ \/ IsMeta(pk, w)
       \/ MemberName(pk, w) = NoName
       \/ IsDir(pk.payload[w.pos].type, MemberName(pk, w))
       \/ \E i : Meets(pk, w, i)

\* A set of places the walker does not leave; it is at one that meets i, or will be.
NoWayOut(pk, C) == \A w \in C : ~ EndAt(pk, w) => Following(pk, w) \in C
WillMeet(pk, w, i) == \A C : NoWayOut(pk, C) /\ w \in C => \E x \in C : Meets(pk, x, i)

\* From Start to w all has passed; from w to the end all has.
PassedTo(pk, w) ==
    /\ \E T : /\ Start \in T /\ w \in T
              /\ \A x \in T : x = w \/ (Fine(pk, x) /\ Following(pk, x) \in T)
    /\ \A C : NoWayOut(pk, C) /\ Start \in C => w \in C
Passed(pk, w) ==
    \E T : w \in T /\ \A x \in T : EndAt(pk, x) \/ (Fine(pk, x) /\ Following(pk, x) \in T)

LEMMA StartIsPassed ==
    ASSUME NEW pk
    PROVE  PassedTo(pk, Start)
<1>1. PICK w : w = Start
  OBVIOUS
<1>2. PICK T : T = {w}
  OBVIOUS
<1>3. /\ w \in T /\ \A x \in T : x = w \/ (Fine(pk, x) /\ Following(pk, x) \in T)
  BY <1>2
<1> HIDE DEF Start
<1> QED BY <1>1, <1>3 DEF PassedTo

LEMMA StepIsPassed ==
    ASSUME NEW pk, NEW w, PassedTo(pk, w), Fine(pk, w)
    PROVE  PassedTo(pk, Following(pk, w))
<1>1. PICK b : b = Following(pk, w)
  OBVIOUS
<1>2. PICK T : /\ Start \in T /\ w \in T
               /\ \A x \in T : x = w \/ (Fine(pk, x) /\ Following(pk, x) \in T)
  BY DEF PassedTo
<1>3. PICK U : U = T \cup {b}
  OBVIOUS
<1>4. /\ Start \in U /\ b \in U
      /\ \A x \in U : x = b \/ (Fine(pk, x) /\ Following(pk, x) \in U)
  BY <1>1, <1>2, <1>3
<1>5. \A C : NoWayOut(pk, C) /\ Start \in C => b \in C
  <2>1. ~ EndAt(pk, w)
    BY DEF Fine
  <2> QED BY <1>1, <2>1 DEF PassedTo, NoWayOut
<1> QED BY <1>1, <1>4, <1>5 DEF PassedTo

LEMMA EndIsPassed ==
    ASSUME NEW pk, NEW w, PassedTo(pk, w), EndAt(pk, w)
    PROVE  Passed(pk, Start)
<1>1. PICK T : /\ Start \in T /\ w \in T
               /\ \A x \in T : x = w \/ (Fine(pk, x) /\ Following(pk, x) \in T)
  BY DEF PassedTo
<1>2. Start \in T /\ \A x \in T : EndAt(pk, x) \/ (Fine(pk, x) /\ Following(pk, x) \in T)
  BY <1>1
<1> QED BY <1>2 DEF Passed

LEMMA PassedGoesOn ==
    ASSUME NEW pk, NEW w, Passed(pk, w), ~ EndAt(pk, w)
    PROVE  Fine(pk, w) /\ Passed(pk, Following(pk, w))
BY DEF Passed

LEMMA MetHere ==
    ASSUME NEW pk, NEW w, PassedTo(pk, w), NEW i, Meets(pk, w, i)
    PROVE  WillMeet(pk, Start, i)
BY DEF PassedTo, WillMeet

LEMMA MetHereOrLater ==
    ASSUME NEW pk, NEW w, NEW i, WillMeet(pk, w, i)
    PROVE  Meets(pk, w, i) \/ (~ EndAt(pk, w) /\ WillMeet(pk, Following(pk, w), i))
<1>1. SUFFICES ASSUME ~ Meets(pk, w, i)
               PROVE  ~ EndAt(pk, w) /\ WillMeet(pk, Following(pk, w), i)
  OBVIOUS
<1>2. ASSUME EndAt(pk, w) PROVE FALSE
  <2>1. PICK C : C = {w}
    OBVIOUS
  <2>2. NoWayOut(pk, C)
    BY <1>2, <2>1 DEF NoWayOut
  <2> QED BY <1>1, <2>1, <2>2 DEF WillMeet
<1>3. PICK b : b = Following(pk, w)
  OBVIOUS
<1>4. ASSUME NEW C, NoWayOut(pk, C), b \in C PROVE \E x \in C : Meets(pk, x, i)
  <2>1. PICK D : D = C \cup {w}
    OBVIOUS
  <2>2. NoWayOut(pk, D)
    BY <1>3, <1>4, <2>1 DEF NoWayOut
  <2> QED BY <1>1, <2>1, <2>2 DEF WillMeet
<1>5. WillMeet(pk, b, i)
  BY <1>4 DEF WillMeet
<1> QED BY <1>2, <1>3, <1>5

\* The places the walker can be at.
Overrides == [name : FileNames, size : Nat \cup {NoSize}]
Walkers == [pos : Nat \ {0}, pending : Overrides]

LEMMA PackageIs ==
    ASSUME NEW pk \in Packages
    PROVE  /\ pk.payload \in Seq(Block)
           /\ \A i \in DOMAIN pk.payload :
                 /\ pk.payload[i].kind = "header" => pk.payload[i].size \in Nat
                 /\ pk.payload[i].type \in MetaTypes => pk.payload[i].kind = "header"
           /\ pk.manifest \in Seq([path : FileNames, contents : Seq(Block)])
BY PackagesAssumption

LEMMA StartIsWalker == Start \in Walkers
<1>1. Nothing \in Overrides
  BY ComponentsAssumption DEF Nothing, Overrides
<1> QED BY <1>1 DEF Start, Walkers

LEMMA MemberIs ==
    ASSUME NEW pk \in Packages, NEW w \in Walkers, ~ EndAt(pk, w)
    PROVE  /\ w.pos \in DOMAIN pk.payload /\ pk.payload[w.pos] \in Block
           /\ MemberSize(pk, w) \in Nat /\ MemberName(pk, w) \in FileNames
           /\ w.pos + MemberSize(pk, w) <= Len(pk.payload) => MemberData(pk, w) \in Seq(Block)
<1>1. w.pos \in Nat \ {0} /\ w.pending \in Overrides
  BY DEF Walkers
<1>2. w.pos \in DOMAIN pk.payload
  BY DEF EndAt
<1>3. pk.payload[w.pos] \in Block
  BY <1>2, PackageIs, ElementOfSeq
<1>4. MemberSize(pk, w) \in Nat
  <2>1. w.pending.size # NoSize => w.pending.size \in Nat
    BY <1>1 DEF Overrides
  <2>2. pk.payload[w.pos].kind = "header" => pk.payload[w.pos].size \in Nat
    BY <1>2, PackageIs
  <2> QED BY <2>1, <2>2 DEF MemberSize
<1>5. MemberName(pk, w) \in FileNames
  <2>1. w.pending.name \in FileNames
    BY <1>1 DEF Overrides
  <2>2. pk.payload[w.pos].name \in FileNames
    BY <1>3 DEF Block
  <2> QED BY <2>1, <2>2 DEF MemberName
<1>6. ASSUME w.pos + MemberSize(pk, w) <= Len(pk.payload) PROVE MemberData(pk, w) \in Seq(Block)
  <2>1. PICK a, b, p : a = w.pos + 1 /\ b = w.pos + MemberSize(pk, w) /\ p = pk.payload
    OBVIOUS
  <2>2. p \in Seq(Block)
    BY <2>1, PackageIs
  <2>3. Len(p) \in Nat /\ DOMAIN p = 1..Len(p)
    BY <2>2
  <2>4. a \in Nat /\ b \in Nat /\ a >= 1 /\ b <= Len(p)
    BY <1>1, <1>4, <1>6, <2>1
  <2>5. \A i \in a..b : p[i] \in Block
    <3>1. TAKE i \in a..b
    <3>2. i \in 1..Len(p)
      BY <2>3, <2>4
    <3> QED BY <2>2, <3>2, ElementOfSeq
  <2>6. SubSeq(p, a, b) \in Seq(Block)
    BY <2>2, <2>4, <2>5, SubSeqProperties
  <2> QED BY <2>1, <2>6 DEF MemberData
<1> QED BY <1>2, <1>3, <1>4, <1>5, <1>6

LEMMA FollowingIs ==
    ASSUME NEW pk \in Packages, NEW w \in Walkers, ~ EndAt(pk, w),
           IsMeta(pk, w) => w.pos + pk.payload[w.pos].size <= Len(pk.payload)
    PROVE  Following(pk, w) \in Walkers
<1>1. w.pos \in Nat \ {0} /\ w.pending \in Overrides
  BY DEF Walkers
<1>2. w.pos \in DOMAIN pk.payload /\ MemberSize(pk, w) \in Nat
  BY MemberIs
<1>3. CASE IsMeta(pk, w)
  <2>1. pk.payload[w.pos].size \in Nat
    BY <1>2, <1>3, PackageIs DEF IsMeta
  <2>2. MemberText(pk, w) \in Block
    <3>1. CASE pk.payload[w.pos].size = 0
      <4>1. ZeroBlock \in Block
        <5>1. NoName \in FileNames
          BY ComponentsAssumption
        <5>2. ZeroBlock.type \in Types
          BY DEF ZeroBlock, Types
        <5>3. ZeroBlock.kind \in {"header", "text", "zero"}
          BY DEF ZeroBlock
        <5> QED BY <5>1, <5>2, <5>3 DEF ZeroBlock, Block
      <4> QED BY <3>1, <4>1 DEF MemberText
    <3>2. CASE pk.payload[w.pos].size # 0
      <4>1. pk.payload \in Seq(Block)
        BY PackageIs
      <4>2. PICK j : j = w.pos + 1
        OBVIOUS
      <4>5. w.pos + pk.payload[w.pos].size <= Len(pk.payload)
        BY <1>3
      <4>6. Len(pk.payload) \in Nat
        BY <4>1, LenProperties
      <4>3. j \in 1..Len(pk.payload)
        BY <1>1, <2>1, <3>2, <4>2, <4>5, <4>6
      <4>4. pk.payload[j] \in Block
        BY <4>1, <4>3, ElementOfSeq
      <4> QED BY <3>2, <4>2, <4>4 DEF MemberText
    <3> QED BY <3>1, <3>2
  <2>3. MemberText(pk, w).name \in FileNames /\ MemberText(pk, w).size \in Nat \cup {NoSize}
    BY <2>2 DEF Block
  <2>4. Override(w.pending, pk.payload[w.pos].type, MemberText(pk, w))
            \in Overrides
    BY <1>1, <2>3 DEF Override, Overrides
  <2>5. w.pos + 1 + pk.payload[w.pos].size \in Nat \ {0}
    BY <1>1, <2>1
  <2> QED BY <1>3, <2>4, <2>5 DEF Following, Walkers
<1>4. CASE ~ IsMeta(pk, w)
  <2>1. w.pos + 1 + MemberSize(pk, w) \in Nat \ {0}
    BY <1>1, <1>2
  <2>2. Nothing \in Overrides
    BY ComponentsAssumption DEF Nothing, Overrides
  <2> QED BY <1>4, <2>1, <2>2 DEF Following, Walkers
<1> QED BY <1>3, <1>4

-----------------------------------------------------------------------------
(* What the extraction of a member does                                    *)

ListedIn(pk) == {PathOf(e.path) : e \in ToSet(pk.manifest)}
OnceIn(pk) == \A i, j \in DOMAIN pk.manifest :
                  PathOf(pk.manifest[i].path) = PathOf(pk.manifest[j].path) => i = j

\* Entry i of the manifest is on the disk.
IsPlaced(pk, d, i) ==
    /\ PathOf(pk.manifest[i].path) \in DOMAIN d
    /\ d[PathOf(pk.manifest[i].path)] = pk.manifest[i].contents

ExtractedAt(pk, w, s) ==
    IF MemberName(pk, w) = NoName THEN s
    ELSE IF IsUnsafe(MemberName(pk, w)) THEN [s EXCEPT !.ok = FALSE]
    ELSE IF IsDir(pk.payload[w.pos].type, MemberName(pk, w))
         THEN MkDir(s, PathOf(MemberName(pk, w)))
    ELSE WriteFile(Parents(s, MemberName(pk, w)), MemberName(pk, w),
                   w.pos + MemberSize(pk, w) <= Len(pk.payload), MemberData(pk, w))

IsExtracted(t, pk, w, s) == t = ExtractedAt(pk, w, s)

LEMMA EntryIs ==
    ASSUME NEW pk \in Packages, NEW i \in DOMAIN pk.manifest
    PROVE  /\ pk.manifest[i].path \in FileNames /\ pk.manifest[i].contents \in Seq(Block)
           /\ PathOf(pk.manifest[i].path) \in ListedIn(pk)
<1>1. pk.manifest \in Seq([path : FileNames, contents : Seq(Block)])
  BY PackageIs
<1>2. PICK m : m = pk.manifest
  OBVIOUS
<1>3. m[i] \in [path : FileNames, contents : Seq(Block)]
  <2>1. PICK S : S = [path : FileNames, contents : Seq(Block)]
    OBVIOUS
  <2>2. m \in Seq(S) /\ i \in 1..Len(m)
    BY <1>1, <1>2, <2>1
  <2>3. m[i] \in S
    BY <2>2, ElementOfSeq
  <2> QED BY <2>1, <2>3
<1>4. m[i] \in ToSet(m)
  BY <1>2 DEF ToSet
<1> QED BY <1>2, <1>3, <1>4 DEF ListedIn

LEMMA DiskIsTree ==
    ASSUME NEW pk \in Packages
    PROVE  IsTree(Disk(pk))
<1>1. PICK d : d = Disk(pk)
  OBVIOUS
<1>2. /\ pk.dirs \subseteq Paths /\ <<>> \in pk.dirs
      /\ DOMAIN pk.files \subseteq Paths \ pk.dirs
      /\ \A f \in DOMAIN pk.files : pk.files[f] \in Seq(Block)
      /\ \A f \in (pk.dirs \cup DOMAIN pk.files) \ {<<>>} : Front(f) \in pk.dirs
  BY PackagesAssumption DEF Paths
<1>3. /\ d = [f \in DOMAIN d |-> d[f]]
      /\ DOMAIN d = pk.dirs \cup DOMAIN pk.files
      /\ \A f \in DOMAIN d : d[f] = IF f \in pk.dirs THEN Dir ELSE pk.files[f]
  BY <1>1 DEF Disk
<1>4. DOMAIN d \subseteq Paths /\ \A f \in DOMAIN d : d[f] \in Contents
  BY <1>2, <1>3 DEF Contents
<1>5. d \in Disks
  BY <1>3, <1>4, DiskIs
<1> QED BY <1>1, <1>2, <1>3, <1>5 DEF IsTree

LEMMA NothingIsNoted ==
    ASSUME NEW first, IsTree(first), NEW listed, NEW s \in Extractions, s.disk = first,
           s.files = <<>>, s.dirs = <<>>
    PROVE  Noted(s, first, listed)
<1>1. DOMAIN s.files = {} /\ DOMAIN s.dirs = {}
  OBVIOUS
<1> QED BY <1>1 DEF Noted

LEMMA FailureIsNoted ==
    ASSUME NEW first, NEW listed, NEW s, Noted(s, first, listed), NEW t \in Extractions,
           t.disk = s.disk, t.files = s.files, t.dirs = s.dirs
    PROVE  Noted(t, first, listed)
BY DEF Noted

LEMMA MemberIsExtracted ==
    ASSUME NEW pk \in Packages, NEW w \in Walkers, Fine(pk, w), ~ IsMeta(pk, w),
           NEW s, Noted(s, Disk(pk), ListedIn(pk)), NEW t, IsExtracted(t, pk, w, s)
    PROVE  /\ Noted(t, Disk(pk), ListedIn(pk))
           /\ t.ok /\ OnceIn(pk) =>
                 /\ s.ok
                 /\ \A i \in DOMAIN pk.manifest :
                       IsPlaced(pk, s.disk, i) \/ Meets(pk, w, i) => IsPlaced(pk, t.disk, i)
<1> DEFINE name == MemberName(pk, w)
           type == pk.payload[w.pos].type
           path == PathOf(name)
<1>1. PICK first, listed : first = Disk(pk) /\ listed = ListedIn(pk)
  OBVIOUS
<1>2. IsTree(first) /\ Noted(s, first, listed)
  BY <1>1, DiskIsTree
<1>3. s \in Extractions
  BY <1>2 DEF Noted
<1>4. /\ name \in FileNames /\ ~ EndAt(pk, w)
      /\ w.pos + MemberSize(pk, w) <= Len(pk.payload) => MemberData(pk, w) \in Seq(Block)
  BY MemberIs DEF Fine
<1>5. path \in Paths
  BY <1>4, PathType DEF FileNames
<1>6. CASE name = NoName
  <2>1. t = s /\ \A i : ~ Meets(pk, w, i)
    BY <1>6 DEF ExtractedAt, IsExtracted, Meets
  <2> QED BY <1>1, <1>2, <2>1
<1>7. CASE name # NoName /\ IsUnsafe(name)
  <2>1. t = [s EXCEPT !.ok = FALSE]
    BY <1>7 DEF ExtractedAt, IsExtracted
  <2>2. t \in Extractions /\ t.disk = s.disk /\ t.files = s.files /\ t.dirs = s.dirs /\ ~ t.ok
    BY <1>3, <2>1 DEF Extractions
  <2>3. Noted(t, first, listed)
    BY <1>2, <2>2, FailureIsNoted
  <2> QED BY <1>1, <2>2, <2>3
<1>8. CASE name # NoName /\ ~ IsUnsafe(name) /\ IsDir(type, name)
  <2>1. t = MkDir(s, path)
    BY <1>8 DEF ExtractedAt, IsExtracted
  <2>2. ~ IsRegular(type, name)
    BY <1>8 DEF IsDir, IsRegular
  <2>3. \A i : ~ Meets(pk, w, i)
    BY <2>2 DEF Meets
  <2> HIDE DEF path
  <2>4. Noted(t, first, listed) /\ Grown(s, t)
    BY <1>2, <1>5, <2>1, MkDirIs
  <2>5. \A i : IsPlaced(pk, s.disk, i) => IsPlaced(pk, t.disk, i)
    BY <2>4 DEF IsPlaced, Grown
  <2>6. t.ok => s.ok
    BY <2>4 DEF Grown
  <2> QED BY <1>1, <2>3, <2>4, <2>5, <2>6
<1>9. CASE name # NoName /\ ~ IsUnsafe(name) /\ ~ IsDir(type, name)
  <2>1. PICK i0 : Meets(pk, w, i0)
    BY <1>9 DEF Fine
  <2>2. /\ w.pos + MemberSize(pk, w) <= Len(pk.payload)
        /\ i0 \in DOMAIN pk.manifest /\ Normal(pk.manifest[i0].path) = Normal(name)
        /\ MemberData(pk, w) = pk.manifest[i0].contents
    BY <2>1 DEF Meets, IsFirst
  <2>3. PathOf(pk.manifest[i0].path) = path
    BY <1>4, <2>2, EntryIs, SameFile
  <2>4. path \in listed
    BY <1>1, <2>2, <2>3, EntryIs
  <2>5. PICK u, data : u = Parents(s, name) /\ data = MemberData(pk, w)
    OBVIOUS
  <2>6. Noted(u, first, listed) /\ Grown(s, u)
    BY <1>2, <1>4, <2>5, ParentsAre
  <2>7. data \in Seq(Block)
    BY <1>4, <2>2, <2>5
  <2>8. t = WriteFile(u, name, TRUE, data)
    BY <1>9, <2>2, <2>5 DEF ExtractedAt, IsExtracted
  <2> HIDE DEF name
  <2>11. PathOf(name) \in listed
    BY <2>4
  <2>12. /\ Noted(t, first, listed)
         /\ DOMAIN u.disk \subseteq DOMAIN t.disk
         /\ \A f \in DOMAIN u.disk \ {PathOf(name)} : t.disk[f] = u.disk[f]
         /\ t.ok => /\ u.ok /\ PathOf(name) \in DOMAIN t.disk
                    /\ t.disk[PathOf(name)] = data
    <3>1. PICK n : n = name
      OBVIOUS
    <3>2. n \in FileNames /\ PathOf(n) \in listed
      BY <1>4, <2>11, <3>1
    <3>3. IsWritten(t, u, n, data)
      BY <2>8, <3>1 DEF IsWritten
    <3>4. /\ Noted(t, first, listed)
          /\ DOMAIN u.disk \subseteq DOMAIN t.disk
          /\ \A f \in DOMAIN u.disk \ {PathOf(n)} : t.disk[f] = u.disk[f]
          /\ t.ok => /\ u.ok /\ PathOf(n) \in DOMAIN t.disk
                     /\ t.disk[PathOf(n)] = data
      BY <1>2, <2>6, <2>7, <3>2, <3>3, WriteFileIs
    <3> QED BY <3>1, <3>4
  <2>13. ASSUME t.ok, OnceIn(pk), NEW i \in DOMAIN pk.manifest,
                IsPlaced(pk, s.disk, i) \/ Meets(pk, w, i)
         PROVE  IsPlaced(pk, t.disk, i)
    <3>1. PICK p : p = PathOf(pk.manifest[i].path)
      OBVIOUS
    <3>2. CASE p = path
      <4>1. i = i0
        BY <2>2, <2>3, <2>13, <3>1, <3>2 DEF OnceIn
      <4> QED BY <2>2, <2>3, <2>5, <2>12, <2>13, <4>1 DEF IsPlaced
    <3>3. CASE p # path
      <4>1. ~ Meets(pk, w, i)
        <5>1. SUFFICES ASSUME Meets(pk, w, i) PROVE FALSE
          OBVIOUS
        <5>2. Normal(pk.manifest[i].path) = Normal(name)
          BY <5>1 DEF Meets, IsFirst, name
        <5>3. PathOf(pk.manifest[i].path) = PathOf(name)
          BY <1>4, <5>2, EntryIs, SameFile
        <5> QED BY <3>1, <3>3, <5>3
      <4>2. p \in DOMAIN s.disk /\ s.disk[p] = pk.manifest[i].contents
        BY <2>13, <3>1, <4>1 DEF IsPlaced
      <4>3. p \in DOMAIN u.disk /\ u.disk[p] = s.disk[p]
        BY <2>6, <4>2 DEF Grown
      <4>4. p \in DOMAIN t.disk /\ t.disk[p] = u.disk[p]
        BY <2>12, <3>3, <4>3
      <4> QED BY <3>1, <4>2, <4>3, <4>4 DEF IsPlaced
    <3> QED BY <3>2, <3>3
  <2>14. t.ok => s.ok
    BY <2>6, <2>12 DEF Grown
  <2> QED BY <1>1, <2>12, <2>13, <2>14
<1> QED BY <1>6, <1>7, <1>8, <1>9

-----------------------------------------------------------------------------
(* The inductive invariant                                                 *)

Verifying ==
    /\ Here \in Walkers /\ PassedTo(pkg, Here)
    /\ matched \subseteq DOMAIN pkg.manifest
    /\ \A i \in matched : WillMeet(pkg, Start, i)
    /\ disk = AtFirst /\ rollback = [files |-> <<>>, dirs |-> <<>>] /\ ok = TRUE

Extracting ==
    /\ Here \in Walkers /\ Passed(pkg, Here)
    /\ Noted(State, AtFirst, Listed)
    /\ ok /\ ListedOnce =>
          \A i \in DOMAIN pkg.manifest : WillMeet(pkg, Here, i) \/ IsPlaced(pkg, disk, i)

\* Somebody changed the files of tampered, and no others.
Changed ==
    ListedOnce => \A e \in ToSet(pkg.manifest) : Suspect(e) <=> PathOf(e.path) \in tampered

PayloadInv ==
    /\ phase = "idle" =>
          /\ Here = Start /\ matched = {}
          /\ rollback = [files |-> <<>>, dirs |-> <<>>] /\ ok = TRUE
    /\ phase # "idle" => pkg \in Packages
    /\ phase = "verify" => Verifying
    /\ phase = "extract" => Extracting
    /\ phase = "rollback" => Noted(State, AtFirst, Listed)
    /\ phase = "installed" => disk \in Disks
    /\ phase = "later" => Changed
    /\ PayloadsAreAsVerified

LEMMA HereIs ==
    ASSUME NEW k, NEW w, k = pkg, w = Here
    PROVE  /\ AtPayloadEnd <=> EndAt(k, w)
           /\ Payload = k.payload /\ pos = w.pos /\ pending = w.pending
           /\ Size = MemberSize(k, w) /\ Name = MemberName(k, w) /\ Data = MemberData(k, w)
           /\ MetaText = MemberText(k, w)
           /\ \A s : Fits(s) <=> w.pos + s <= Len(k.payload)
<1>1. pos = w.pos /\ pending = w.pending
  BY DEF Here
<1>2. Payload = k.payload
  BY DEF Payload
<1>3. Size = MemberSize(k, w)
  BY <1>1, <1>2 DEF Size, MemberSize, HeaderSize
<1>4. Name = MemberName(k, w)
  BY <1>1, <1>2 DEF Name, MemberName
<1>5. Data = MemberData(k, w)
  BY <1>1, <1>2, <1>3 DEF Data, MemberData
<1>6. MetaText = MemberText(k, w)
  BY <1>1, <1>2 DEF MetaText, MemberText
<1>7. AtPayloadEnd <=> EndAt(k, w)
  BY <1>1, <1>2 DEF AtPayloadEnd, EndAt
<1>8. \A s : Fits(s) <=> w.pos + s <= Len(k.payload)
  BY <1>1, <1>2 DEF Fits
<1> QED BY <1>1, <1>2, <1>3, <1>4, <1>5, <1>6, <1>7, <1>8

LEMMA BeginIsRight ==
    ASSUME PayloadInv, NEW p \in Packages, Begin(p)
    PROVE  PayloadInv'
<1>1. Start = Here /\ matched = {} /\ rollback = [files |-> <<>>, dirs |-> <<>>] /\ ok = TRUE
  BY DEF PayloadInv, Begin
<1>2. /\ phase' = "verify" /\ pkg' = p /\ disk' = Disk(p) /\ pos' = pos /\ pending' = pending
      /\ matched' = {} /\ rollback' = [files |-> <<>>, dirs |-> <<>>] /\ ok' = TRUE
  BY <1>1 DEF Begin
<1>3. PassedTo(p, Start) /\ Start \in Walkers
  BY StartIsPassed, StartIsWalker
<1>4. Here' = Start
  BY <1>1, <1>2 DEF Here
<1>5. Verifying'
  BY <1>2, <1>3, <1>4 DEF Verifying, AtFirst
<1> QED BY <1>2, <1>5 DEF PayloadInv, PayloadsAreAsVerified, InstallsWhatWasVerified,
            UndoneIsAsFound, ReportsExactlyTheChanged

\* What was refused was not touched.
LEMMA RefusedIsRight ==
    ASSUME PayloadInv, phase # "idle", pkg' = pkg,
           phase' \in {"truncated", "mismatch", "disallowed", "missing"}
    PROVE  PayloadInv'
BY DEF PayloadInv, PayloadsAreAsVerified, InstallsWhatWasVerified, UndoneIsAsFound,
       ReportsExactlyTheChanged

LEMMA VerifyingIsRight ==
    ASSUME PayloadInv, phase # "idle", pkg' = pkg, phase' = "verify", Verifying'
    PROVE  PayloadInv'
BY DEF PayloadInv, PayloadsAreAsVerified, InstallsWhatWasVerified, UndoneIsAsFound,
       ReportsExactlyTheChanged

LEMMA ExtractingIsRight ==
    ASSUME PayloadInv, phase # "idle", pkg' = pkg, phase' = "extract", Extracting'
    PROVE  PayloadInv'
BY DEF PayloadInv, PayloadsAreAsVerified, InstallsWhatWasVerified, UndoneIsAsFound,
       ReportsExactlyTheChanged

LEMMA RollbackIsRight ==
    ASSUME PayloadInv, phase # "idle", pkg' = pkg, phase' = "rollback",
           Noted(State, AtFirst, Listed)'
    PROVE  PayloadInv'
BY DEF PayloadInv, PayloadsAreAsVerified, InstallsWhatWasVerified, UndoneIsAsFound,
       ReportsExactlyTheChanged

LEMMA ReadMetaIsRight ==
    ASSUME PayloadInv, ReadMeta
    PROVE  PayloadInv'
<1>1. PICK k, w : k = pkg /\ w = Here
  OBVIOUS
<1>2. /\ AtPayloadEnd <=> EndAt(k, w)
      /\ Payload = k.payload /\ pos = w.pos /\ pending = w.pending
      /\ MetaText = MemberText(k, w)
      /\ \A s : Fits(s) <=> w.pos + s <= Len(k.payload)
  BY <1>1, HereIs
<1>3. ~ EndAt(k, w) /\ IsMeta(k, w)
  BY <1>2 DEF ReadMeta, IsMeta
<1>4. phase # "idle" /\ k \in Packages /\ pkg' = k /\ w \in Walkers
  BY <1>1 DEF ReadMeta, Walking, PayloadInv, Verifying, Extracting
<1>5. UNCHANGED <<pkg, matched, disk, rollback, tampered, report>>
  BY DEF ReadMeta
<1>6. CASE ~ Fits(Payload[pos].size)
  <2>1. CASE phase = "verify"
    <3>1. phase' = "truncated"
      BY <1>6, <2>1 DEF ReadMeta, Reject
    <3> QED BY <1>4, <1>5, <3>1, RefusedIsRight
  <2>2. CASE phase = "extract"
    <3>1. phase' = "rollback" /\ ok' = FALSE
      BY <1>6, <2>2 DEF ReadMeta, Reject
    <3>2. PICK s, first, listed : s = State /\ first = AtFirst /\ listed = Listed
      OBVIOUS
    <3>3. Noted(s, first, listed)
      BY <2>2, <3>2 DEF PayloadInv, Extracting
    <3>4. PICK t : t = [disk |-> disk, files |-> rollback.files, dirs |-> rollback.dirs,
                        ok |-> FALSE]
      OBVIOUS
    <3>5. t \in Extractions
      BY <3>2, <3>3, <3>4 DEF Noted, State, Extractions
    <3>6. t.disk = s.disk /\ t.files = s.files /\ t.dirs = s.dirs
      BY <3>2, <3>4 DEF State
    <3>7. Noted(t, first, listed)
      BY <3>3, <3>5, <3>6, FailureIsNoted
    <3>8. State' = t /\ AtFirst' = first /\ Listed' = listed
      BY <1>5, <3>1, <3>2, <3>4 DEF State, AtFirst, Listed
    <3>9. Noted(State, AtFirst, Listed)'
      BY <3>7, <3>8
    <3> QED BY <1>4, <1>5, <3>1, <3>9, RollbackIsRight
  <2> QED BY <2>1, <2>2 DEF ReadMeta, Walking
<1>7. CASE Fits(Payload[pos].size)
  <2>1. /\ pending' = Override(pending, Payload[pos].type, MetaText)
        /\ pos' = pos + 1 + Payload[pos].size
        /\ UNCHANGED <<phase, ok>>
    BY <1>7 DEF ReadMeta
  <2>2. PICK b : b = Following(k, w)
    OBVIOUS
  <2>3. Here' = b
    BY <1>2, <1>3, <2>1, <2>2 DEF Here, Following
  <2>4. b \in Walkers
    BY <1>2, <1>3, <1>4, <1>7, <2>2, FollowingIs
  <2>5. CASE phase = "verify"
    <3>1. /\ PassedTo(k, w) /\ matched \subseteq DOMAIN k.manifest
          /\ \A i \in matched : WillMeet(k, Start, i)
          /\ disk = AtFirst /\ rollback = [files |-> <<>>, dirs |-> <<>>] /\ ok = TRUE
      BY <1>1, <2>5 DEF PayloadInv, Verifying
    <3>2. Fine(k, w)
      BY <1>3 DEF Fine
    <3>3. PassedTo(k, b)
      BY <2>2, <3>1, <3>2, StepIsPassed
    <3>4. Verifying'
      BY <1>4, <1>5, <2>1, <2>3, <2>4, <3>1, <3>3 DEF Verifying, AtFirst
    <3> QED BY <1>4, <1>5, <2>1, <2>5, <3>4, VerifyingIsRight
  <2>6. CASE phase = "extract"
    <3>1. /\ Passed(k, w) /\ Noted(State, AtFirst, Listed)
          /\ ok /\ ListedOnce =>
                \A i \in DOMAIN k.manifest : WillMeet(k, w, i) \/ IsPlaced(k, disk, i)
      BY <1>1, <2>6 DEF PayloadInv, Extracting
    <3>2. Passed(k, b)
      BY <1>3, <2>2, <3>1, PassedGoesOn
    <3>3. \A i : WillMeet(k, w, i) => WillMeet(k, b, i)
      <4>1. \A i : ~ Meets(k, w, i)
        BY <1>3 DEF Meets
      <4> QED BY <2>2, <4>1, MetHereOrLater
    <3>4. PICK s, first, listed : s = State /\ first = AtFirst /\ listed = Listed
      OBVIOUS
    <3>5. State' = s /\ AtFirst' = first /\ Listed' = listed
      BY <1>5, <2>1, <3>4 DEF State, AtFirst, Listed
    <3>6. Noted(State, AtFirst, Listed)'
      BY <3>1, <3>4, <3>5
    <3>7. ListedOnce' <=> ListedOnce
      BY <1>5 DEF ListedOnce
    <3>8. PICK d : d = disk
      OBVIOUS
    <3>9. (ok /\ ListedOnce =>
             \A i \in DOMAIN pkg.manifest : WillMeet(pkg, Here, i) \/ IsPlaced(pkg, disk, i))'
      BY <1>4, <1>5, <2>1, <2>3, <3>1, <3>3, <3>7, <3>8
    <3>10. Extracting'
      BY <1>4, <2>3, <2>4, <3>2, <3>6, <3>9 DEF Extracting
    <3> QED BY <1>4, <1>5, <2>1, <2>6, <3>10, ExtractingIsRight
  <2> QED BY <2>5, <2>6 DEF ReadMeta, Walking
<1> QED BY <1>6, <1>7

LEMMA FirstEntryIs ==
    ASSUME NEW k, NEW n, NEW i, k = pkg, i = FirstEntry(n), Entries(n) # {},
           k.manifest \in Seq([path : FileNames, contents : Seq(Block)])
    PROVE  IsFirst(k, n, i)
<1>1. PICK T : T = {j \in DOMAIN k.manifest : Normal(k.manifest[j].path) = Normal(n)}
  OBVIOUS
<1>2. Entries(n) = T
  BY <1>1 DEF Entries
<1>3. T \in SUBSET Nat /\ T # {}
  BY <1>1, <1>2
<1>4. PICK m \in T : \A j \in T : m <= j
  BY <1>3, LeastNumber
<1>5. i \in T /\ \A j \in T : i <= j
  BY <1>2, <1>4 DEF FirstEntry
<1> QED BY <1>1, <1>5 DEF IsFirst

LEMMA VerifyMemberIsRight ==
    ASSUME PayloadInv, VerifyMember
    PROVE  PayloadInv'
<1>1. PICK k, w : k = pkg /\ w = Here
  OBVIOUS
<1>2. /\ AtPayloadEnd <=> EndAt(k, w)
      /\ Payload = k.payload /\ pos = w.pos /\ pending = w.pending
      /\ Size = MemberSize(k, w) /\ Name = MemberName(k, w) /\ Data = MemberData(k, w)
      /\ \A s : Fits(s) <=> w.pos + s <= Len(k.payload)
  BY <1>1, HereIs
<1>3. ~ EndAt(k, w) /\ ~ IsMeta(k, w)
  BY <1>2 DEF VerifyMember, AtMember, IsMeta
<1>4. phase # "idle" /\ phase = "verify" /\ k \in Packages /\ pkg' = k /\ w \in Walkers
  BY <1>1 DEF VerifyMember, PayloadInv, Verifying
<1>5. UNCHANGED <<pkg, disk, rollback, ok, tampered, report>>
  BY DEF VerifyMember
<1>6. /\ PassedTo(k, w) /\ matched \subseteq DOMAIN k.manifest
      /\ \A i \in matched : WillMeet(k, Start, i)
      /\ disk = AtFirst /\ rollback = [files |-> <<>>, dirs |-> <<>>] /\ ok = TRUE
  BY <1>1, <1>4 DEF PayloadInv, Verifying
<1> DEFINE type == k.payload[w.pos].type
           name == MemberName(k, w)
<1>7. PICK b : b = Following(k, w)
  OBVIOUS
<1>8. b \in Walkers
  BY <1>3, <1>4, <1>7, FollowingIs
<1>9. ASSUME PastMember, Fine(k, w), phase' = phase, matched' \subseteq DOMAIN k.manifest,
             \A i \in matched' : WillMeet(k, Start, i)
      PROVE  PayloadInv'
  <2>1. Here' = b
    BY <1>2, <1>3, <1>7, <1>9 DEF Here, Following, PastMember
  <2>2. PassedTo(k, b)
    BY <1>6, <1>7, <1>9, StepIsPassed
  <2>3. Verifying'
    BY <1>4, <1>5, <1>6, <1>8, <1>9, <2>1, <2>2 DEF Verifying, AtFirst
  <2> QED BY <1>4, <1>5, <1>9, <2>3, VerifyingIsRight
<1>10. CASE name = NoName \/ IsDir(type, name)
  <2>1. PastMember /\ UNCHANGED <<phase, matched>>
    BY <1>2, <1>10 DEF VerifyMember
  <2>2. Fine(k, w)
    BY <1>3, <1>10 DEF Fine
  <2> QED BY <1>6, <1>9, <2>1, <2>2
<1>11. CASE ~ (name = NoName \/ IsDir(type, name)) /\ ~ IsRegular(type, name)
  <2>1. phase' = "disallowed"
    BY <1>2, <1>11 DEF VerifyMember
  <2> QED BY <1>4, <1>5, <2>1, RefusedIsRight
<1>12. CASE ~ (name = NoName \/ IsDir(type, name)) /\ IsRegular(type, name)
  <2>1. VerifyFile
    BY <1>2, <1>12 DEF VerifyMember
  <2>2. CASE Fits(Size) /\ Entries(Name) # {} /\ Data = pkg.manifest[FirstEntry(Name)].contents
    <3>1. matched' = matched \cup {FirstEntry(Name)} /\ PastMember /\ UNCHANGED phase
      BY <2>1, <2>2 DEF VerifyFile
    <3>2. PICK n, i : n = Name /\ i = FirstEntry(Name)
      OBVIOUS
    <3>3. k.manifest \in Seq([path : FileNames, contents : Seq(Block)])
      BY <1>4, PackageIs
    <3>4. i = FirstEntry(n) /\ Entries(n) # {}
      BY <2>2, <3>2
    <3>5. IsFirst(k, n, i)
      BY <1>1, <3>3, <3>4, FirstEntryIs
    <3>6. Meets(k, w, i)
      BY <1>1, <1>2, <1>3, <1>12, <2>2, <3>2, <3>5 DEF Meets
    <3>7. Fine(k, w)
      BY <1>3, <3>6 DEF Fine
    <3>8. WillMeet(k, Start, i)
      BY <1>6, <3>6, MetHere
    <3>9. i \in DOMAIN k.manifest
      BY <3>5 DEF IsFirst
    <3> QED BY <1>6, <1>9, <3>1, <3>2, <3>7, <3>8, <3>9
  <2>3. CASE ~ (Fits(Size) /\ Entries(Name) # {}
                /\ Data = pkg.manifest[FirstEntry(Name)].contents)
    <3>1. phase' = "mismatch"
      BY <2>1, <2>3 DEF VerifyFile
    <3> QED BY <1>4, <1>5, <3>1, RefusedIsRight
  <2> QED BY <2>2, <2>3
<1> QED BY <1>10, <1>11, <1>12

LEMMA VerifyEndIsRight ==
    ASSUME PayloadInv, VerifyEnd
    PROVE  PayloadInv'
<1>1. PICK k, w : k = pkg /\ w = Here
  OBVIOUS
<1>2. AtPayloadEnd <=> EndAt(k, w)
  BY <1>1, HereIs
<1>3. phase # "idle" /\ phase = "verify" /\ k \in Packages /\ pkg' = k /\ EndAt(k, w)
  BY <1>1, <1>2 DEF VerifyEnd, PayloadInv
<1>4. UNCHANGED <<pkg, matched, disk, rollback, ok, tampered, report>>
  BY DEF VerifyEnd
<1>5. CASE matched # DOMAIN pkg.manifest
  <2>1. phase' = "missing"
    BY <1>5 DEF VerifyEnd
  <2> QED BY <1>3, <1>4, <2>1, RefusedIsRight
<1>6. CASE matched = DOMAIN pkg.manifest
  <2>1. phase' = "extract" /\ pos' = 1 /\ pending' = Nothing
    BY <1>6 DEF VerifyEnd
  <2>2. PICK b : b = Start
    OBVIOUS
  <2>3. Here' = b
    BY <2>1, <2>2 DEF Here, Start
  <2>4. /\ PassedTo(k, w)
        /\ \A i \in DOMAIN k.manifest : WillMeet(k, b, i)
        /\ disk = AtFirst /\ rollback = [files |-> <<>>, dirs |-> <<>>] /\ ok = TRUE
    BY <1>1, <1>3, <1>6, <2>2 DEF PayloadInv, Verifying
  <2>5. b \in Walkers /\ Passed(k, b)
    BY <1>3, <2>2, <2>4, StartIsWalker, EndIsPassed
  <2>6. PICK first, listed : first = Disk(k) /\ listed = Listed
    OBVIOUS
  <2>7. IsTree(first)
    BY <1>3, <2>6, DiskIsTree
  <2>8. PICK s : s = [disk |-> first, files |-> <<>>, dirs |-> <<>>, ok |-> TRUE]
    OBVIOUS
  <2>9. s \in Extractions /\ s.disk = first /\ s.files = <<>> /\ s.dirs = <<>>
    BY <2>7, <2>8 DEF IsTree, Extractions
  <2>10. Noted(s, first, listed)
    BY <2>7, <2>9, NothingIsNoted
  <2>11. State' = s /\ AtFirst' = first /\ Listed' = listed
    BY <1>1, <1>4, <2>4, <2>6, <2>8 DEF State, AtFirst, Listed
  <2>12. Noted(State, AtFirst, Listed)'
    BY <2>10, <2>11
  <2>13. (ok /\ ListedOnce =>
             \A i \in DOMAIN pkg.manifest : WillMeet(pkg, Here, i) \/ IsPlaced(pkg, disk, i))'
    BY <1>3, <2>3, <2>4
  <2>14. Extracting'
    BY <1>3, <2>3, <2>5, <2>12, <2>13 DEF Extracting
  <2> QED BY <1>3, <1>4, <2>1, <2>14, ExtractingIsRight
<1> QED BY <1>5, <1>6

LEMMA ExtractMemberIsRight ==
    ASSUME PayloadInv, ExtractMember
    PROVE  PayloadInv'
<1>1. PICK k, w, s : k = pkg /\ w = Here /\ s = State
  OBVIOUS
<1>2. /\ AtPayloadEnd <=> EndAt(k, w)
      /\ Payload = k.payload /\ pos = w.pos /\ pending = w.pending
      /\ Size = MemberSize(k, w) /\ Name = MemberName(k, w) /\ Data = MemberData(k, w)
      /\ \A n : Fits(n) <=> w.pos + n <= Len(k.payload)
  BY <1>1, HereIs
<1>3. ~ EndAt(k, w) /\ ~ IsMeta(k, w)
  BY <1>2 DEF ExtractMember, AtMember, IsMeta
<1>4. phase # "idle" /\ phase = "extract" /\ k \in Packages /\ pkg' = k /\ w \in Walkers
  BY <1>1 DEF ExtractMember, PayloadInv, Extracting
<1>5. UNCHANGED <<pkg, phase, matched, tampered, report>> /\ PastMember
  BY DEF ExtractMember
<1>6. PICK first, listed : first = Disk(k) /\ listed = ListedIn(k)
  OBVIOUS
<1>7. AtFirst = first /\ Listed = listed /\ AtFirst' = first /\ Listed' = listed
  BY <1>1, <1>4, <1>6 DEF AtFirst, Listed, ListedIn
<1>9. (ListedOnce <=> OnceIn(k)) /\ (ListedOnce' <=> OnceIn(k))
  BY <1>1, <1>4 DEF ListedOnce, OnceIn
<1>10. /\ Passed(k, w) /\ Noted(s, first, listed)
       /\ ok /\ OnceIn(k) =>
             \A i \in DOMAIN k.manifest : WillMeet(k, w, i) \/ IsPlaced(k, s.disk, i)
  BY <1>1, <1>4, <1>7, <1>9 DEF PayloadInv, Extracting, State
<1>11. Fine(k, w)
  BY <1>3, <1>10, PassedGoesOn
<1>12. PICK t : t = ExtractedAt(k, w, s)
  OBVIOUS
<1>13. Extracted = t
  <2>1. /\ Payload = k.payload /\ pos = w.pos
        /\ Size = MemberSize(k, w) /\ Name = MemberName(k, w) /\ Data = MemberData(k, w)
    BY <1>2
  <2> QED BY <1>1, <1>12, <2>1 DEF Extracted, ExtractedAt, Fits
<1>14. /\ Noted(t, first, listed)
       /\ t.ok /\ OnceIn(k) =>
             /\ s.ok
             /\ \A i \in DOMAIN k.manifest :
                   IsPlaced(k, s.disk, i) \/ Meets(k, w, i) => IsPlaced(k, t.disk, i)
  <2>1. IsExtracted(t, k, w, s)
    BY <1>12 DEF IsExtracted
  <2> QED BY <1>3, <1>4, <1>6, <1>10, <1>11, <2>1, MemberIsExtracted
<1>15. t \in Extractions
  BY <1>14 DEF Noted
<1>16. /\ disk' = t.disk /\ ok' = t.ok /\ rollback' = [files |-> t.files, dirs |-> t.dirs]
  BY <1>13 DEF ExtractMember
<1>17. State' = t
  BY <1>15, <1>16 DEF State, Extractions
<1>18. PICK b : b = Following(k, w)
  OBVIOUS
<1>19. Here' = b
  BY <1>2, <1>3, <1>5, <1>18 DEF Here, Following, PastMember
<1>20. b \in Walkers
  BY <1>3, <1>4, <1>18, FollowingIs
<1>21. Passed(k, b)
  BY <1>3, <1>10, <1>18, PassedGoesOn
<1>22. ASSUME t.ok, OnceIn(k), NEW i \in DOMAIN k.manifest
       PROVE  WillMeet(k, b, i) \/ IsPlaced(k, t.disk, i)
  <2>1. s.ok
    BY <1>14, <1>22
  <2>2. ok
    BY <1>1, <2>1 DEF State
  <2>3. WillMeet(k, w, i) \/ IsPlaced(k, s.disk, i)
    BY <1>10, <1>22, <2>2
  <2>4. Meets(k, w, i) \/ WillMeet(k, b, i) \/ IsPlaced(k, s.disk, i)
    BY <1>18, <2>3, MetHereOrLater
  <2> QED BY <1>14, <1>22, <2>4
<1>23. (ok /\ ListedOnce =>
           \A i \in DOMAIN pkg.manifest : WillMeet(pkg, Here, i) \/ IsPlaced(pkg, disk, i))'
  BY <1>4, <1>9, <1>16, <1>19, <1>22
<1>24. Noted(State, AtFirst, Listed)'
  BY <1>7, <1>14, <1>17
<1>25. Extracting'
  BY <1>4, <1>19, <1>20, <1>21, <1>23, <1>24 DEF Extracting
<1> QED BY <1>4, <1>5, <1>25, ExtractingIsRight

\* What is extracted is what was verified.
LEMMA ExtractEndIsRight ==
    ASSUME PayloadInv, ExtractEnd
    PROVE  PayloadInv'
<1>1. PICK k, w, s : k = pkg /\ w = Here /\ s = State
  OBVIOUS
<1>2. AtPayloadEnd <=> EndAt(k, w)
  BY <1>1, HereIs
<1>3. phase # "idle" /\ phase = "extract" /\ k \in Packages /\ pkg' = k /\ EndAt(k, w)
  BY <1>1, <1>2 DEF ExtractEnd, PayloadInv
<1>4. UNCHANGED <<pkg, pos, pending, matched, disk, rollback, ok, tampered, report>>
  BY DEF ExtractEnd
<1>5. PICK first, listed : first = AtFirst /\ listed = Listed
  OBVIOUS
<1>6. /\ Noted(s, first, listed)
      /\ ok /\ ListedOnce =>
            \A i \in DOMAIN k.manifest : WillMeet(k, w, i) \/ IsPlaced(k, disk, i)
  BY <1>1, <1>3, <1>5 DEF PayloadInv, Extracting
<1>7. AtFirst' = first /\ Listed' = listed /\ State' = s /\ (ListedOnce' <=> ListedOnce)
  BY <1>1, <1>4, <1>5 DEF AtFirst, Listed, State, ListedOnce
<1>8. CASE ~ ok
  <2>1. phase' = "rollback"
    BY <1>8 DEF ExtractEnd
  <2>2. Noted(State, AtFirst, Listed)'
    BY <1>6, <1>7
  <2> QED BY <1>3, <1>4, <2>1, <2>2, RollbackIsRight
<1>9. CASE ok
  <2>1. phase' = "installed"
    BY <1>9 DEF ExtractEnd
  <2>2. s.disk = disk
    BY <1>1 DEF State
  <2>3. disk \in Disks
    BY <1>6, <2>2 DEF Noted, Extractions
  <2>4. ASSUME ListedOnce, NEW e \in ToSet(pkg.manifest)
        PROVE  Exists(disk, PathOf(e.path)) /\ disk[PathOf(e.path)] = e.contents
    <3>1. PICK i \in DOMAIN k.manifest : e = k.manifest[i]
      BY <1>1 DEF ToSet
    <3>2. WillMeet(k, w, i) \/ IsPlaced(k, disk, i)
      BY <1>6, <1>9, <2>4
    <3>3. ~ Meets(k, w, i)
      BY <1>3 DEF Meets
    <3>4. IsPlaced(k, disk, i)
      BY <1>3, <3>2, <3>3, MetHereOrLater
    <3> QED BY <3>1, <3>4 DEF IsPlaced, Exists
  <2>5. ASSUME NEW p \in DOMAIN disk
        PROVE  disk[p] = Dir \/ p \in Listed \/ (Exists(AtFirst, p) /\ AtFirst[p] = disk[p])
    <3>1. \/ p \in DOMAIN first /\ s.disk[p] = first[p]
          \/ \E i \in DOMAIN s.files : p = s.files[i]
          \/ \E i \in DOMAIN s.dirs : p = s.dirs[i]
      BY <1>6, <2>2 DEF Noted
    <3>2. /\ \A i \in DOMAIN s.files : s.files[i] \in listed
          /\ \A i \in DOMAIN s.dirs : s.disk[s.dirs[i]] = Dir
      BY <1>6 DEF Noted
    <3> QED BY <1>5, <2>2, <3>1, <3>2 DEF Exists
  <2>6. InstallsWhatWasVerified'
    <3>1. \A e \in ToSet(pkg'.manifest) : ListedOnce' =>
              Exists(disk', PathOf(e.path)) /\ disk'[PathOf(e.path)] = e.contents
      BY <1>1, <1>3, <1>4, <1>7, <2>4
    <3>2. \A p \in DOMAIN disk' :
              disk'[p] = Dir \/ p \in Listed' \/ (Exists(AtFirst', p) /\ AtFirst'[p] = disk'[p])
      BY <1>4, <1>5, <1>7, <2>5
    <3> QED BY <3>1, <3>2 DEF InstallsWhatWasVerified
  <2> QED BY <1>3, <1>4, <2>1, <2>3, <2>6 DEF PayloadInv, PayloadsAreAsVerified,
            UndoneIsAsFound, ReportsExactlyTheChanged
<1> QED BY <1>8, <1>9

\* What fails is undone.
LEMMA UndoIsRight ==
    ASSUME PayloadInv, Undo
    PROVE  PayloadInv'
<1>1. PICK s, first, listed : s = State /\ first = AtFirst /\ listed = Listed
  OBVIOUS
<1>2. /\ phase = "rollback" /\ phase' = "undone" /\ phase # "idle"
      /\ UNCHANGED <<pkg, pos, pending, matched, rollback, ok, tampered, report>>
  BY DEF Undo
<1>3. pkg \in Packages /\ pkg' = pkg
  BY <1>2 DEF PayloadInv
<1>4. Noted(s, first, listed)
  BY <1>1, <1>2 DEF PayloadInv
<1>5. IsTree(first)
  BY <1>1, <1>3, DiskIsTree DEF AtFirst
<1>6. PICK d : d = RemoveDirs(Unlinked(s.disk, s.files), s.dirs)
  OBVIOUS
<1>7. /\ \A p \in DOMAIN d : p \in DOMAIN first /\ d[p] = first[p]
      /\ \A p \in DOMAIN first : p \in DOMAIN d \/ p \in Elements(s.files)
  BY <1>4, <1>5, <1>6, UndoneIs
<1>8. disk' = d
  BY <1>1, <1>6 DEF Undo, State
<1>9. Elements(s.files) = ToSet(rollback.files)
  BY <1>1 DEF Elements, ToSet, State
<1>10. AtFirst' = first /\ ToSet(rollback'.files) = ToSet(rollback.files)
  BY <1>1, <1>2 DEF AtFirst
<1>11. UndoneIsAsFound'
  <2>1. \A p \in DOMAIN disk' : Exists(AtFirst', p) /\ disk'[p] = AtFirst'[p]
    BY <1>7, <1>8, <1>10 DEF Exists
  <2>2. \A p \in DOMAIN AtFirst' : Exists(disk', p) \/ p \in ToSet(rollback'.files)
    BY <1>7, <1>8, <1>9, <1>10 DEF Exists
  <2> QED BY <2>1, <2>2 DEF UndoneIsAsFound
<1> QED BY <1>2, <1>3, <1>11 DEF PayloadInv, PayloadsAreAsVerified, InstallsWhatWasVerified,
            ReportsExactlyTheChanged

LEMMA DamageShows ==
    ASSUME NEW c \in Seq(Block)
    PROVE  Damaged(c) # c /\ Damaged(c) # Dir /\ Damaged(c) \in Seq(Block)
<1>1. ZeroBlock \in Block
  <2>1. NoName \in FileNames
    BY ComponentsAssumption
  <2>2. ZeroBlock.type \in Types
    BY DEF ZeroBlock, Types
  <2>3. ZeroBlock.kind \in {"header", "text", "zero"}
    BY DEF ZeroBlock
  <2> QED BY <2>1, <2>2, <2>3 DEF ZeroBlock, Block
<1>2. PICK z \in Block : z = ZeroBlock
  BY <1>1
<1>3. Append(c, z) \in Seq(Block) /\ Len(Append(c, z)) = Len(c) + 1 /\ Len(c) \in Nat
  BY AppendProperties
<1>4. Append(c, z) # c
  BY <1>3
<1> QED BY <1>2, <1>3, <1>4, DirIsNoContents DEF Damaged

LEMMA TamperIsRight ==
    ASSUME PayloadInv, Tamper
    PROVE  PayloadInv'
<1>1. /\ phase = "installed" /\ phase' = "later" /\ phase # "idle"
      /\ UNCHANGED <<pkg, pos, pending, matched, rollback, ok, report>>
  BY DEF Tamper
<1>2. pkg \in Packages /\ pkg' = pkg /\ disk \in Disks
  BY <1>1 DEF PayloadInv
<1>3. PICK k, d : k = pkg /\ d = disk
  OBVIOUS
<1>4. d \in Disks /\ k \in Packages
  BY <1>2, <1>3
<1>5. Changed'
  <2>1. SUFFICES ASSUME ListedOnce', NEW e \in ToSet(k.manifest)
                 PROVE  Suspect(e)' <=> PathOf(e.path) \in tampered'
    BY <1>2, <1>3 DEF Changed
  <2>2. ListedOnce
    BY <1>2, <2>1 DEF ListedOnce
  <2>3. PICK q : q = PathOf(e.path)
    OBVIOUS
  <2>4. q \in DOMAIN d /\ d[q] = e.contents
    BY <1>1, <1>3, <2>2, <2>3 DEF PayloadInv, PayloadsAreAsVerified, InstallsWhatWasVerified,
       Exists
  <2>5. e.contents \in Seq(Block) /\ e.contents # Dir
    <3>1. PICK i \in DOMAIN k.manifest : e = k.manifest[i]
      BY DEF ToSet
    <3> QED BY <1>4, <3>1, EntryIs, DirIsNoContents
  <2>6. PICK f : f = disk'
    OBVIOUS
  <2>7. Suspect(e)' <=> (q \notin DOMAIN f \/ (f[q] # Dir /\ f[q] # e.contents))
    BY <2>3, <2>6 DEF Suspect, Exists
  <2>8. CASE disk' = disk /\ tampered' = {}
    BY <1>3, <2>3, <2>4, <2>6, <2>7, <2>8
  <2>9. CASE \E p \in {x \in DOMAIN disk : disk[x] # Dir} :
                /\ disk' \in {Without(disk, p), With(disk, p, Damaged(disk[p]))}
                /\ tampered' = {p}
    <3>1. PICK p \in DOMAIN d : /\ d[p] # Dir /\ tampered' = {p}
                                /\ f = Without(d, p) \/ f = With(d, p, Damaged(d[p]))
      BY <1>3, <2>6, <2>9
    <3>2. d[p] \in Seq(Block) /\ p \in Paths
      BY <1>4, <3>1, DiskIs DEF Contents
    <3>3. CASE f = Without(d, p)
      <4>1. DOMAIN f = DOMAIN d \ {p} /\ \A x \in DOMAIN d \ {p} : f[x] = d[x]
        BY <1>4, <3>3, WithoutIs
      <4> QED BY <2>3, <2>4, <2>7, <3>1, <4>1
    <3>4. CASE f = With(d, p, Damaged(d[p]))
      <4>1. PICK c : c = Damaged(d[p])
        OBVIOUS
      <4>2. c # d[p] /\ c # Dir /\ c \in Contents
        BY <3>2, <4>1, DamageShows DEF Contents
      <4>3. /\ DOMAIN f = DOMAIN d \cup {p} /\ f[p] = c
            /\ \A x \in DOMAIN d \ {p} : f[x] = d[x]
        <5>1. PICK g : g = With(d, p, c)
          OBVIOUS
        <5>2. f = g
          BY <3>4, <4>1, <5>1
        <5>3. /\ DOMAIN With(d, p, c) = DOMAIN d \cup {p} /\ With(d, p, c)[p] = c
              /\ \A x \in DOMAIN d \ {p} : With(d, p, c)[x] = d[x]
          BY <1>4, <3>2, <4>2, WithIs
        <5> QED BY <5>1, <5>2, <5>3
      <4> QED BY <2>3, <2>4, <2>7, <3>1, <4>2, <4>3
    <3> QED BY <3>1, <3>3, <3>4
  <2> QED BY <2>8, <2>9 DEF Tamper
<1> QED BY <1>1, <1>2, <1>5 DEF PayloadInv, PayloadsAreAsVerified, InstallsWhatWasVerified,
            UndoneIsAsFound, ReportsExactlyTheChanged

LEMMA VerifyInstalledIsRight ==
    ASSUME PayloadInv, VerifyInstalled
    PROVE  PayloadInv'
<1>1. /\ phase = "later" /\ phase' = "reported" /\ phase # "idle"
      /\ report' = {e.path : e \in {x \in ToSet(pkg.manifest) : Suspect(x)}}
      /\ UNCHANGED <<pkg, pos, pending, matched, disk, rollback, ok, tampered>>
  BY DEF VerifyInstalled
<1>2. pkg \in Packages /\ pkg' = pkg /\ tampered' = tampered
  BY <1>1 DEF PayloadInv
<1>3. ReportsExactlyTheChanged'
  <2>1. SUFFICES ASSUME ListedOnce'
                 PROVE  report' = {e.path : e \in {x \in ToSet(pkg'.manifest) :
                                                      PathOf(x.path) \in tampered'}}
    BY DEF ReportsExactlyTheChanged
  <2>2. ListedOnce
    BY <1>2, <2>1 DEF ListedOnce
  <2>3. \A e \in ToSet(pkg.manifest) : Suspect(e) <=> PathOf(e.path) \in tampered
    BY <1>1, <2>2 DEF PayloadInv, Changed
  <2>4. {x \in ToSet(pkg.manifest) : Suspect(x)}
            = {x \in ToSet(pkg.manifest) : PathOf(x.path) \in tampered}
    BY <2>3
  <2> QED BY <1>1, <1>2, <2>4
<1> QED BY <1>1, <1>2, <1>3 DEF PayloadInv, PayloadsAreAsVerified, InstallsWhatWasVerified,
            UndoneIsAsFound

LEMMA PayloadStutters ==
    ASSUME PayloadInv, UNCHANGED pvars
    PROVE  PayloadInv'
BY DEF PayloadInv, pvars, Verifying, Extracting, Changed, Here, State, AtFirst, Listed, ListedOnce,
       Suspect, PayloadsAreAsVerified, InstallsWhatWasVerified, UndoneIsAsFound,
       ReportsExactlyTheChanged

\* Whatever the archives and manifests and disks are, what add leaves of a package it has
\* verified is what the manifest promised; what it cannot extract is undone; and `abp
\* verify' reports the files that were changed, and no others.
THEOREM PayloadsStayAsVerified == PayloadSpec => []PayloadsAreAsVerified
<1>1. PayloadInit => PayloadInv
  BY DEF PayloadInit, PayloadInv, Here, Start, PayloadsAreAsVerified, InstallsWhatWasVerified,
         UndoneIsAsFound, ReportsExactlyTheChanged
<1>2. PayloadInv /\ [PayloadNext]_pvars => PayloadInv'
  <2>1. SUFFICES ASSUME PayloadInv, [PayloadNext]_pvars PROVE PayloadInv'
    OBVIOUS
  <2> QED BY <2>1, BeginIsRight, ReadMetaIsRight, VerifyMemberIsRight, VerifyEndIsRight,
             ExtractMemberIsRight, ExtractEndIsRight, UndoIsRight, TamperIsRight,
             VerifyInstalledIsRight, PayloadStutters DEF PayloadNext
<1>3. PayloadInv => PayloadsAreAsVerified
  BY DEF PayloadInv
<1> QED BY <1>1, <1>2, <1>3, PTL DEF PayloadSpec
=============================================================================
