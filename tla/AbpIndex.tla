------------------------------- MODULE AbpIndex -------------------------------
(***************************************************************************)
(* The file-ownership index of abp, /var/lib/abp/files.idx: a text file    *)
(* with one line "path TAB package" per registered file                    *)
(* (src/crates/abp/src/database.rs).  This module is a data structure: the *)
(* contents of the file and the pure effect of every function that reads   *)
(* or rewrites it.  AbpDatabase and AbpInstall run it.                     *)
(*                                                                         *)
(* What can be observed of the text is which owners a path has lines for,  *)
(* and which of the lines of one path comes first (get_file_owner stops at *)
(* the first match).  So the contents are a set of lines, each with its    *)
(* rank among the lines of its path.  A last line without its newline (a   *)
(* write that stopped early) is kept apart as `tail': the next append      *)
(* continues it.                                                           *)
(***************************************************************************)
EXTENDS Naturals, FiniteSets, FiniteSetTheorems, FunctionTheorems, WellFoundedInduction, TLAPS

CONSTANTS Paths,      \* file paths, as the manifests spell them
          Names,      \* package names
          NoOwner     \* "no package owns this path": Option::None

\* Text that is neither a whole path nor a whole name.  (The prefix of a name
\* may happen to be another package's name; that coincidence is left out.)
Torn == "torn"
\* The owner of a line that was cut before its TAB: split_once finds none.
NoTab == "no TAB"

ASSUME IndexAssumption ==
    /\ NoOwner \notin Names
    /\ Torn \notin Paths \cup Names \cup {NoOwner}
    /\ NoTab \notin Paths \cup Names \cup {NoOwner}

Line == [path : Paths \cup {Torn}, owner : Names \cup {Torn}, rank : Nat]
OpenLine == [path : Paths \cup {Torn}, owner : Names \cup {Torn, NoTab}, rank : Nat]
NoTail == [path |-> Torn, owner |-> NoOwner, rank |-> 0]
Index == {ix \in [lines : SUBSET Line, tail : OpenLine \cup {NoTail}] :
            IsFiniteSet(ix.lines)}
EmptyIndex == [lines |-> {}, tail |-> NoTail]

-----------------------------------------------------------------------------
(* Reading                                                                 *)

\* text.lines() also yields an unterminated last line; it counts once it has
\* a TAB.
LinesOf(ix) ==
    ix.lines \cup {l \in {ix.tail} : l # NoTail /\ l.owner # NoTab}

\* (mutant: counts from the line before)
NextRank_OffByOne(ix, f) == Cardinality({l \in LinesOf(ix) : l.path = f}) - 1

\* A new line for path f goes behind the lines f has.
NextRank(ix, f) == Cardinality({l \in LinesOf(ix) : l.path = f})

\* get_file_owner: the first line for the path decides.
FileOwner(ix, f) ==
    LET ls == {l \in LinesOf(ix) : l.path = f}
    IN  IF ls = {} THEN NoOwner
        ELSE (CHOOSE l \in ls : \A m \in ls : l.rank <= m.rank).owner

\* The ownership relation the index stands for.
Owners(ix) == {<<l.path, l.owner>> : l \in LinesOf(ix)}

-----------------------------------------------------------------------------
(* Rewriting                                                               *)

\* How much of the appended entry "path TAB package NEWLINE" reached the file.
Cuts == {"nothing", "in path", "in owner", "no newline", "all"}

\* The last line of the text once (part of) the entry has been added to it.
LastLine(ix, f, n, cut) ==
    LET fresh == ix.tail = NoTail
        path == IF fresh THEN (IF cut = "in path" THEN Torn ELSE f)
                ELSE IF ix.tail.owner = NoTab THEN Torn ELSE ix.tail.path
        owner == IF ~fresh /\ ix.tail.owner # NoTab THEN Torn
                 ELSE IF cut = "in path" THEN NoTab
                 ELSE IF cut = "in owner" THEN Torn ELSE n
        rank == IF ~fresh /\ path = ix.tail.path THEN ix.tail.rank
                ELSE NextRank(ix, path)
    IN  [path |-> path, owner |-> owner, rank |-> rank]

\* (mutant: opened with O_TRUNC)
AppendEntry_Trunc(ix, f, n, cut) ==
    IF cut = "nothing" THEN ix
    ELSE [lines |-> {LastLine(EmptyIndex, f, n, cut)}, tail |-> NoTail]

\* register_file: O_APPEND, one write; true only when all of it was written.
AppendEntry(ix, f, n, cut) ==
    IF cut = "nothing" THEN ix
    ELSE IF cut = "all"
         THEN [lines |-> ix.lines \cup {LastLine(ix, f, n, cut)}, tail |-> NoTail]
         ELSE [ix EXCEPT !.tail = LastLine(ix, f, n, cut)]

\* The lines a rewrite keeps, in their order: behind one another without gaps.
Closed(kept) ==
    {[l EXCEPT !.rank = Cardinality({m \in kept : m.path = l.path /\ m.rank < l.rank})]
        : l \in kept}

\* (mutant: drops every line of the package's paths)
WithoutOwner_ByPath(ix, n) ==
    [lines |-> Closed({l \in LinesOf(ix) : <<l.path, n>> \notin Owners(ix)}),
     tail |-> NoTail]

\* unregister_files: rebuild without the package's lines; every line that
\* stays gets its newline, one without a TAB is dropped.
WithoutOwner(ix, n) ==
    [lines |-> Closed({l \in LinesOf(ix) : l.owner # n}), tail |-> NoTail]

\* unregister_file: the same, by path.
WithoutPath(ix, f) ==
    [lines |-> Closed({l \in LinesOf(ix) : l.path # f}), tail |-> NoTail]

-----------------------------------------------------------------------------
(* Lemmas about these operators.                                           *)

(* The operators on the index keep it an index.                            *)

LEMMA LinesOfType ==
    ASSUME NEW ix \in Index
    PROVE  LinesOf(ix) \in SUBSET Line /\ IsFiniteSet(LinesOf(ix))
<1> DEFINE t == {l \in {ix.tail} : l # NoTail /\ l.owner # NoTab}
<1>1. t \in SUBSET Line
  BY DEF Index, OpenLine, Line
<1>2. IsFiniteSet(t)
  <2>1. IsFiniteSet({ix.tail})
    BY FS_Singleton
  <2> QED BY <2>1, FS_Subset
<1>3. IsFiniteSet(ix.lines) /\ ix.lines \in SUBSET Line
  BY DEF Index
<1> HIDE DEF t
<1>4. IsFiniteSet(ix.lines \cup t)
  BY <1>2, <1>3, FS_Union
<1> QED BY <1>1, <1>3, <1>4 DEF LinesOf, t

LEMMA NextRankType ==
    ASSUME NEW ix \in Index, NEW f
    PROVE  NextRank(ix, f) \in Nat
<1>1. IsFiniteSet({l \in LinesOf(ix) : l.path = f})
  BY LinesOfType, FS_Subset
<1> QED BY <1>1, FS_CardinalityType DEF NextRank

LEMMA LastLineType ==
    ASSUME NEW ix \in Index, NEW f \in Paths, NEW n \in Names, NEW cut \in Cuts
    PROVE  /\ LastLine(ix, f, n, cut) \in OpenLine
           /\ cut = "all" => LastLine(ix, f, n, cut) \in Line
<1> DEFINE ll == LastLine(ix, f, n, cut)
<1>1. ix.tail \in OpenLine \cup {NoTail}
  BY DEF Index
<1>2. ll.path \in Paths \cup {Torn}
  BY <1>1 DEF LastLine, OpenLine, NoTail
<1>3. ll.owner \in Names \cup {Torn, NoTab} /\ (cut = "all" => ll.owner \in Names \cup {Torn})
  BY <1>1 DEF LastLine, OpenLine, NoTail
<1>4. ll.rank \in Nat
  <2>1. NextRank(ix, ll.path) \in Nat
    BY NextRankType
  <2>2. ll.rank \in {NextRank(ix, ll.path), ix.tail.rank}
    BY DEF LastLine
  <2>3. ix.tail.rank \in Nat
    BY <1>1 DEF OpenLine, NoTail
  <2> QED BY <2>1, <2>2, <2>3
<1>5. ll = [path |-> ll.path, owner |-> ll.owner, rank |-> ll.rank]
  BY DEF LastLine
<1> QED BY <1>2, <1>3, <1>4, <1>5 DEF OpenLine, Line

LEMMA AppendEntryType ==
    ASSUME NEW ix \in Index, NEW f \in Paths, NEW n \in Names, NEW cut \in Cuts
    PROVE  AppendEntry(ix, f, n, cut) \in Index
<1>1. CASE cut = "nothing"
  BY <1>1 DEF AppendEntry
<1>2. CASE cut = "all"
  <2>1. IsFiniteSet(ix.lines \cup {LastLine(ix, f, n, cut)})
    BY FS_AddElement DEF Index
  <2>2. ix.lines \cup {LastLine(ix, f, n, cut)} \in SUBSET Line
    BY <1>2, LastLineType DEF Index
  <2>3. AppendEntry(ix, f, n, cut)
          = [lines |-> ix.lines \cup {LastLine(ix, f, n, cut)}, tail |-> NoTail]
    BY <1>2 DEF AppendEntry
  <2> QED BY <2>1, <2>2, <2>3 DEF Index
<1>3. CASE cut \notin {"nothing", "all"}
  <2>1. AppendEntry(ix, f, n, cut) = [ix EXCEPT !.tail = LastLine(ix, f, n, cut)]
    BY <1>3 DEF AppendEntry
  <2>2. ix \in [lines : SUBSET Line, tail : OpenLine \cup {NoTail}] /\ IsFiniteSet(ix.lines)
    BY DEF Index
  <2>3. LastLine(ix, f, n, cut) \in OpenLine
    BY LastLineType
  <2> QED BY <2>1, <2>2, <2>3 DEF Index
<1> QED BY <1>1, <1>2, <1>3

LEMMA ClosedType ==
    ASSUME NEW kept \in SUBSET Line, IsFiniteSet(kept)
    PROVE  [lines |-> Closed(kept), tail |-> NoTail] \in Index
<1> DEFINE R(l) == Cardinality({m \in kept : m.path = l.path /\ m.rank < l.rank})
           f == [l \in kept |-> [l EXCEPT !.rank = R(l)]]
<1>1. \A l \in kept : R(l) \in Nat
  <2>1. \A l \in kept : IsFiniteSet({m \in kept : m.path = l.path /\ m.rank < l.rank})
    BY FS_Subset
  <2> QED BY <2>1, FS_CardinalityType
<1> HIDE DEF R
<1>2. \A l \in kept : [l EXCEPT !.rank = R(l)] \in Line
  BY <1>1 DEF Line
<1>3. Closed(kept) = {f[l] : l \in kept}
  BY DEF Closed, R
<1>4. f \in Surjection(kept, Closed(kept))
  BY <1>3 DEF Surjection
<1>5. IsFiniteSet(Closed(kept))
  BY <1>4, FS_Surjection
<1>6. Closed(kept) \in SUBSET Line
  BY <1>2, <1>3
<1> QED BY <1>5, <1>6 DEF Index

LEMMA WithoutType ==
    ASSUME NEW ix \in Index, NEW x
    PROVE  WithoutOwner(ix, x) \in Index /\ WithoutPath(ix, x) \in Index
<1>1. \A S \in SUBSET LinesOf(ix) : S \in SUBSET Line /\ IsFiniteSet(S)
  BY LinesOfType, FS_Subset
<1>2. \A S \in SUBSET LinesOf(ix) : [lines |-> Closed(S), tail |-> NoTail] \in Index
  BY <1>1, ClosedType
<1>3. {l \in LinesOf(ix) : l.owner # x} \in SUBSET LinesOf(ix)
  OBVIOUS
<1>4. {l \in LinesOf(ix) : l.path # x} \in SUBSET LinesOf(ix)
  OBVIOUS
<1> QED BY <1>2, <1>3, <1>4 DEF WithoutOwner, WithoutPath

LEMMA EmptyIndexType == EmptyIndex \in Index
<1>1. IsFiniteSet({})
  BY FS_EmptySet
<1> QED BY <1>1 DEF EmptyIndex, Index

-----------------------------------------------------------------------------
(* What the owners are afterwards.                                         *)

\* A complete entry behind a complete line adds its owner and nothing else.
LEMMA OwnersAfterAppend ==
    ASSUME NEW ix \in Index, ix.tail = NoTail, NEW f \in Paths, NEW n \in Names
    PROVE  /\ Owners(AppendEntry(ix, f, n, "all")) = Owners(ix) \cup {<<f, n>>}
           /\ AppendEntry(ix, f, n, "all").tail = NoTail
<1> DEFINE l == LastLine(ix, f, n, "all")
<1>1. l.path = f /\ l.owner = n
  BY DEF LastLine
<1> HIDE DEF l
<1>2. AppendEntry(ix, f, n, "all") = [lines |-> ix.lines \cup {l}, tail |-> NoTail]
  BY DEF AppendEntry, l
<1>3. LinesOf(ix) = ix.lines
  BY DEF LinesOf
<1>4. LinesOf(AppendEntry(ix, f, n, "all")) = LinesOf(ix) \cup {l}
  BY <1>2, <1>3 DEF LinesOf
<1>5. \A x : x \in Owners(AppendEntry(ix, f, n, "all")) <=> x \in Owners(ix) \cup {<<f, n>>}
  BY <1>1, <1>4 DEF Owners
<1> QED BY <1>2, <1>5

\* The owners are pairs of a path and a package, or of what a cut left of them.
LEMMA OwnersType ==
    ASSUME NEW ix \in Index
    PROVE  Owners(ix) \in SUBSET ((Paths \cup {Torn}) \X (Names \cup {Torn}))
<1>1. LinesOf(ix) \in SUBSET Line
  BY LinesOfType
<1> QED BY <1>1 DEF Owners, Line

\* A complete index has the owners of its lines.
LEMMA OwnersOfLines ==
    ASSUME NEW S
    PROVE  Owners([lines |-> S, tail |-> NoTail]) = {<<l.path, l.owner>> : l \in S}
<1>1. LinesOf([lines |-> S, tail |-> NoTail]) = S
  BY DEF LinesOf
<1> QED BY <1>1 DEF Owners

LEMMA OwnersOfEmpty == Owners(EmptyIndex) = {}
BY OwnersOfLines DEF EmptyIndex

\* Giving the lines new ranks moves them, nothing else.
LEMMA OwnersOfClosed ==
    ASSUME NEW S \in SUBSET Line
    PROVE  {<<l.path, l.owner>> : l \in Closed(S)} = {<<l.path, l.owner>> : l \in S}
<1> DEFINE R(l) == Cardinality({m \in S : m.path = l.path /\ m.rank < l.rank})
           C(l) == [l EXCEPT !.rank = R(l)]
<1>1. Closed(S) = {C(l) : l \in S}
  BY DEF Closed
<1>2. \A l \in S : C(l).path = l.path /\ C(l).owner = l.owner
  BY DEF Line
<1> HIDE DEF C
<1> QED BY <1>1, <1>2

\* unregister_files and unregister_file take away the package's, or the path's,
\* registrations and nobody else's.
LEMMA OwnersAfterWithout ==
    ASSUME NEW ix \in Index, NEW x
    PROVE  /\ Owners(WithoutOwner(ix, x)) = {o \in Owners(ix) : o[2] # x}
           /\ Owners(WithoutPath(ix, x)) = {o \in Owners(ix) : o[1] # x}
<1> DEFINE S == {l \in LinesOf(ix) : l.owner # x}
           P == {l \in LinesOf(ix) : l.path # x}
<1>1. S \in SUBSET Line /\ P \in SUBSET Line
  BY LinesOfType
<1>2. Owners(WithoutOwner(ix, x)) = {<<l.path, l.owner>> : l \in Closed(S)}
  BY OwnersOfLines DEF WithoutOwner
<1>3. Owners(WithoutPath(ix, x)) = {<<l.path, l.owner>> : l \in Closed(P)}
  BY OwnersOfLines DEF WithoutPath
<1>4. Owners(WithoutOwner(ix, x)) = {<<l.path, l.owner>> : l \in S}
      /\ Owners(WithoutPath(ix, x)) = {<<l.path, l.owner>> : l \in P}
  BY <1>1, <1>2, <1>3, OwnersOfClosed
<1>5. {<<l.path, l.owner>> : l \in S} = {o \in Owners(ix) : o[2] # x}
  BY DEF Owners
<1>6. {<<l.path, l.owner>> : l \in P} = {o \in Owners(ix) : o[1] # x}
  BY DEF Owners
<1> QED BY <1>4, <1>5, <1>6

\* An append that was cut behind complete lines costs nobody a registration,
\* and adds at most this one or a garbled one.
LEMMA OwnersAfterCut ==
    ASSUME NEW ix \in Index, ix.tail = NoTail, NEW f \in Paths, NEW n \in Names, NEW cut \in Cuts
    PROVE  /\ Owners(ix) \subseteq Owners(AppendEntry(ix, f, n, cut))
           /\ Owners(AppendEntry(ix, f, n, cut)) \subseteq Owners(ix) \cup {<<f, n>>, <<f, Torn>>}
<1> DEFINE l == LastLine(ix, f, n, cut)
<1>1. /\ l.path = IF cut = "in path" THEN Torn ELSE f
      /\ l.owner = IF cut = "in path" THEN NoTab ELSE IF cut = "in owner" THEN Torn ELSE n
  BY DEF LastLine
<1> HIDE DEF l
<1>2. LinesOf(ix) = ix.lines
  BY DEF LinesOf
<1>3. CASE cut = "nothing"
  BY <1>3 DEF AppendEntry
<1>4. CASE cut = "all"
  BY <1>4, OwnersAfterAppend
<1>5. CASE cut \notin {"nothing", "all"}
  <2>1. AppendEntry(ix, f, n, cut) = [ix EXCEPT !.tail = l]
    BY <1>5 DEF AppendEntry, l
  <2>2. AppendEntry(ix, f, n, cut).lines = ix.lines /\ AppendEntry(ix, f, n, cut).tail = l
    BY <2>1 DEF Index
  <2>3. LinesOf(AppendEntry(ix, f, n, cut)) \subseteq LinesOf(ix) \cup (IF l.owner = NoTab THEN {} ELSE {l})
        /\ LinesOf(ix) \subseteq LinesOf(AppendEntry(ix, f, n, cut))
    BY <1>2, <2>2 DEF LinesOf
  <2>4. l.owner # NoTab => l.path = f /\ l.owner \in {n, Torn}
    BY <1>1
  <2> QED BY <2>3, <2>4 DEF Owners
<1> QED BY <1>3, <1>4, <1>5

-----------------------------------------------------------------------------
(* Who owns a path.                                                        *)

\* Every set of naturals has a least element: through the finite sets
\* 0..(m - 1), whose inclusion is well-founded.
LEMMA LeastNatural ==
    ASSUME NEW S \in SUBSET Nat, S # {}
    PROVE  \E m \in S : \A k \in S : m <= k
<1> DEFINE T == {0..(m - 1) : m \in S}
<1>1. \A m \in S : 0..(m - 1) \in FiniteSubsetsOf(Nat)
  <2> SUFFICES ASSUME NEW m \in S PROVE 0..(m - 1) \in FiniteSubsetsOf(Nat)
    OBVIOUS
  <2>1. IsFiniteSet(0..(m - 1))
    BY FS_Interval
  <2> QED BY <2>1 DEF FiniteSubsetsOf
<1>2. T \subseteq FiniteSubsetsOf(Nat) /\ T # {}
  BY <1>1
<1>3. PICK x \in T : \A y \in T : ~(<<y, x>> \in StrictSubsetOrdering(Nat))
  <2>1. IsWellFoundedOn(StrictSubsetOrdering(Nat), FiniteSubsetsOf(Nat))
    BY FS_StrictSubsetOrderingWellFounded
  <2> HIDE DEF T
  <2> QED BY <1>2, <2>1, WFMin
<1>4. PICK m \in S : x = 0..(m - 1)
  OBVIOUS
<1>5. ASSUME NEW k \in S, k < m PROVE FALSE
  <2> DEFINE y == 0..(k - 1)
  <2>1. y \in T /\ y \subseteq x /\ y # x
    <3>1. k \in x /\ k \notin y
      BY <1>4, <1>5
    <3> QED BY <1>4, <1>5, <3>1
  <2>2. <<y, x>> \in StrictSubsetOrdering(Nat)
    BY <1>4, <2>1 DEF StrictSubsetOrdering
  <2> QED BY <1>3, <2>1, <2>2
<1> QED BY <1>5

\* get_file_owner answers with an owner of the path if the path has any.
LEMMA FileOwnerIsAnOwner ==
    ASSUME NEW ix \in Index, NEW f
    PROVE  \/ FileOwner(ix, f) = NoOwner /\ \A o \in Owners(ix) : o[1] # f
           \/ <<f, FileOwner(ix, f)>> \in Owners(ix)
<1> DEFINE ls == {l \in LinesOf(ix) : l.path = f}
           IsFirst(l) == \A m \in ls : l.rank <= m.rank
<1>1. CASE ls = {}
  BY <1>1 DEF FileOwner, Owners
<1>2. CASE ls # {}
  <2>1. \A l \in ls : l.rank \in Nat
    BY LinesOfType DEF Line
  <2>2. \E r \in {l.rank : l \in ls} : \A k \in {l.rank : l \in ls} : r <= k
    BY <1>2, <2>1, LeastNatural
  <2>3. \E l \in ls : IsFirst(l)
    BY <2>2
  <2>4. (CHOOSE l \in ls : IsFirst(l)) \in ls
    BY <2>3
  <2>5. FileOwner(ix, f) = (CHOOSE l \in ls : IsFirst(l)).owner
    BY <1>2 DEF FileOwner
  <2> QED BY <2>4, <2>5 DEF Owners
<1> QED BY <1>1, <1>2
=============================================================================
