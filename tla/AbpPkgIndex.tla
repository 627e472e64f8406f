------------------------------ MODULE AbpPkgIndex ------------------------------
(***************************************************************************)
(* The binary package index of abp, an .abpd file                          *)
(* (src/crates/abp/src/pkgindex.rs): PackageIndexBuilder::build writes it, *)
(* PackageIndex::from_bytes checks it and lookup searches its name index.  *)
(*                                                                         *)
(* Strings are sequences of numbers, compared bytewise.  A package is the  *)
(* sequence of its fields, the name first.  Of the file's layout, the name *)
(* index, the entries and the string table are kept; offsets are modulo    *)
(* U32, lengths and positions modulo U16.                                  *)
(***************************************************************************)
EXTENDS Naturals, Sequences

CONSTANTS PackageLists,  \* lists of packages given to the builder
          SoughtNames,   \* names that are looked up
          U16, U32       \* 2^16 and 2^32, made small

ASSUME IndexAssumption ==
    /\ U16 \in Nat \ {0} /\ U32 \in Nat \ {0}
    /\ SoughtNames \subseteq Seq(Nat)
    /\ \A ps \in PackageLists : ps \in Seq(Seq(Seq(Nat))) /\ \A i \in DOMAIN ps : ps[i] # <<>>

VARIABLES packages,  \* what the builder was given
          index,     \* what it wrote
          reader,    \* what the reader is doing
          entry,     \* from_bytes: the entry it checks
          sought, low, high, hit   \* lookup

ivars == <<packages, index, reader, entry, sought, low, high, hit>>

NoFile == [index |-> <<>>, entries |-> <<>>, strings |-> <<>>]

IndexInit ==
    /\ packages = <<>> /\ index = NoFile /\ reader = "idle" /\ entry = 0
    /\ sought = <<>> /\ low = 0 /\ high = 0 /\ hit = <<>>

-----------------------------------------------------------------------------
(* PackageIndexBuilder::build                                              *)

EmptyRef == [off |-> 0, len |-> 0]

\* StringTable: each distinct string once, in the order it is first met.
Intern(table, s) ==
    IF s = <<>> \/ s \in DOMAIN table.refs THEN table
    ELSE [bytes |-> table.bytes \o s,
          refs |-> [t \in DOMAIN table.refs \cup {s} |->
                      IF t = s THEN [off |-> Len(table.bytes) % U32, len |-> Len(s) % U16]
                      ELSE table.refs[t]]]

InternAll(table, strings) ==
    LET upTo[k \in 0..Len(strings)] == IF k = 0 THEN table ELSE Intern(upTo[k - 1], strings[k])
    IN  upTo[Len(strings)]

EmptyTable == [bytes |-> <<>>, refs |-> [s \in {} |-> EmptyRef]]

StringTable(ps) ==
    LET upTo[k \in 0..Len(ps)] == IF k = 0 THEN EmptyTable ELSE InternAll(upTo[k - 1], ps[k])
    IN  upTo[Len(ps)]

Ref(table, s) == IF s \in DOMAIN table.refs THEN table.refs[s] ELSE EmptyRef

\* The order of byte strings.
Less(s, t) ==
    \E i \in 1..Len(t) :
        /\ i > Len(s) \/ s[i] < t[i]
        /\ \A j \in 1..i-1 : j <= Len(s) /\ s[j] = t[j]

\* sort_by is stable.
Before(ps, i, j) == Less(ps[i][1], ps[j][1]) \/ (ps[i][1] = ps[j][1] /\ i < j)

Sorts(p, ps) ==
    /\ \A k \in DOMAIN ps : \E i \in DOMAIN ps : p[i] = k
    /\ \A i, j \in DOMAIN ps : i < j => Before(ps, p[i], p[j])

SortedPositions(ps) == CHOOSE p \in [DOMAIN ps -> DOMAIN ps] : Sorts(p, ps)

\* A position in the entry table is written as a u16, counted from 0.
Build(ps) ==
    LET table == StringTable(ps)
        sorted == SortedPositions(ps)
    IN  [index |-> [i \in DOMAIN sorted |->
                      [ref |-> Ref(table, ps[sorted[i]][1]), entry |-> (sorted[i] - 1) % U16]],
         entries |-> [i \in DOMAIN ps |-> [f \in DOMAIN ps[i] |-> Ref(table, ps[i][f])]],
         strings |-> table.bytes]

Give(ps) ==
    /\ reader = "idle"
    /\ packages' = ps /\ index' = Build(ps)
    /\ reader' = "check" /\ entry' = 1
    /\ UNCHANGED <<sought, low, high, hit>>

-----------------------------------------------------------------------------
(* PackageIndex                                                            *)

InBounds(ref) == ref.len = 0 \/ ref.off + ref.len <= Len(index.strings)

\* resolve_str_raw: a reference out of bounds is the empty string.
StringAt(ref) ==
    IF ref.len = 0 \/ ~InBounds(ref) THEN <<>>
    ELSE SubSeq(index.strings, ref.off + 1, ref.off + ref.len)

Count == Len(index.entries)
NameAt(i) == StringAt(index.index[i].ref)

\* from_bytes, entry by entry: its position and its name are in bounds, and it
\* does not sort below the one before.
CheckEntry ==
    /\ reader = "check" /\ entry <= Count
    /\ IF /\ index.index[entry].entry < Count
          /\ InBounds(index.index[entry].ref)
          /\ entry > 1 => ~Less(NameAt(entry), NameAt(entry - 1))
       THEN entry' = entry + 1 /\ UNCHANGED reader
       ELSE reader' = "refused" /\ UNCHANGED entry
    /\ UNCHANGED <<packages, index, sought, low, high, hit>>

Checked ==
    /\ reader = "check" /\ entry > Count
    /\ reader' = "open"
    /\ UNCHANGED <<packages, index, entry, sought, low, high, hit>>

LookUp(s) ==
    /\ reader = "open"
    /\ sought' = s /\ low' = 0 /\ high' = Count
    /\ reader' = "search"
    /\ UNCHANGED <<packages, index, entry, hit>>

\* (mutant: the upper half begins at the middle's left neighbour)
Probe_Low ==
    /\ reader = "search" /\ low < high
    /\ LET mid == low + (high - low) \div 2
           at == NameAt(mid + 1)
       IN  CASE at = sought -> /\ reader' = "found" /\ UNCHANGED <<low, high>>
                             /\ hit' = index.entries[index.index[mid + 1].entry + 1]
             [] at # sought /\ Less(at, sought) -> low' = mid + 1 /\ UNCHANGED <<reader, high, hit>>
             [] OTHER -> high' = (IF mid = 0 THEN 0 ELSE mid - 1) /\ UNCHANGED <<reader, low, hit>>
    /\ UNCHANGED <<packages, index, entry, sought>>

\* One round of the binary search.
Probe ==
    /\ reader = "search" /\ low < high
    /\ LET mid == low + (high - low) \div 2
           at == NameAt(mid + 1)
       IN  CASE at = sought -> /\ reader' = "found" /\ UNCHANGED <<low, high>>
                             /\ hit' = index.entries[index.index[mid + 1].entry + 1]
             [] at # sought /\ Less(at, sought) -> low' = mid + 1 /\ UNCHANGED <<reader, high, hit>>
             [] OTHER -> high' = mid /\ UNCHANGED <<reader, low, hit>>
    /\ UNCHANGED <<packages, index, entry, sought>>

NotFound ==
    /\ reader = "search" /\ low >= high
    /\ reader' = "absent"
    /\ UNCHANGED <<packages, index, entry, sought, low, high, hit>>

IndexNext ==
    \/ \E ps \in PackageLists : Give(ps)
    \/ CheckEntry \/ Checked
    \/ \E s \in SoughtNames : LookUp(s)
    \/ Probe \/ NotFound

IndexSpec == IndexInit /\ [][IndexNext]_ivars

-----------------------------------------------------------------------------
(* Properties                                                              *)

\* What the format can hold.
Representable ==
    /\ Len(packages) <= U16
    /\ \A i \in DOMAIN packages : \A f \in DOMAIN packages[i] : Len(packages[i][f]) < U16
    /\ Len(index.strings) < U32

\* "Index not sorted (corrupt)", BadOffset, BadStringRef: a reader accepts what
\* the builder wrote, although it sorts through references into a table in
\* which strings are shared, and the builder sorts the names themselves.
ReaderAcceptsBuilder == Representable => reader # "refused"

\* "Look up a package by exact name" (pkgindex.rs:385): the search through the
\* sorted index ends where a scan of the list would - at a package of that name,
\* with all its fields, and at none only if there is none.  The 65537th package
\* (not Representable) is found as the first.
LookupIsAScan ==
    Representable =>
        /\ reader = "found" =>
             \E i \in DOMAIN packages :
                 packages[i][1] = sought /\ packages[i] = [f \in DOMAIN hit |-> StringAt(hit[f])]
        /\ reader = "absent" => \A i \in DOMAIN packages : packages[i][1] # sought

\* A reader accepts every index that was built, and a lookup in it finds what a scan
\* finds (from_bytes, pkgindex.rs:385).
IndexIsFaithful == ReaderAcceptsBuilder /\ LookupIsAScan
=============================================================================
