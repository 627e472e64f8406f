------------------------------ MODULE AbpPayload ------------------------------
(***************************************************************************)
(* The payload of an abp package, a tar archive, and its readers: `abp     *)
(* add' first verifies the archive against the manifest and then extracts  *)
(* it, both through one walker (src/crates/abp/src/install.rs, verify.rs); *)
(* `abp verify' later compares the files with the recorded manifest.       *)
(*                                                                         *)
(* An archive is a sequence of 512-byte blocks.  A name is the sequence of *)
(* its components: "/a" is <<"", "a">>, "./a//b" is <<".", "a", "", "b">>. *)
(* A file's contents are its blocks, and stand for their checksum.         *)
(***************************************************************************)
EXTENDS Integers, SequencesExt

CONSTANT  Packages   \* [payload, manifest, files, dirs]: an archive, its
                     \* manifest, and what is on disk before it is added
CONSTANT  Components \* what names are made of

NoSize == -1
Empty == ""
Void == {Empty, "."}   \* components that vanish from a path
NoName == <<Empty>>
Unset == <<"unset">>
FileNames == Seq(Components) \ {<<>>}
PaxTypes == {"x", "g"}
MetaTypes == PaxTypes \cup {"L", "K"}
Types == MetaTypes \cup {"NUL", "0", "1", "2", "3", "4", "5", "6", "none"}
Block == [kind : {"header", "text", "zero"}, type : Types, name : FileNames,
          size : Nat \cup {NoSize}]

ASSUME ComponentsAssumption == {NoName, Unset} \subseteq FileNames

\* Headers have a size and only they have a type; a disk is a tree.
ASSUME PackagesAssumption ==
    \A p \in Packages :
        /\ p.payload \in Seq(Block)
        /\ \A i \in DOMAIN p.payload :
              /\ p.payload[i].kind = "header" => p.payload[i].size \in Nat
              /\ p.payload[i].type \in MetaTypes => p.payload[i].kind = "header"
        /\ p.manifest \in Seq([path : FileNames, contents : Seq(Block)])
        /\ p.dirs \subseteq Seq(Components) /\ <<>> \in p.dirs
        /\ DOMAIN p.files \subseteq Seq(Components) \ p.dirs
        /\ p.files \in [DOMAIN p.files -> Seq(Block)]
        /\ \A f \in (p.dirs \cup DOMAIN p.files) \ {<<>>} : Front(f) \in p.dirs

\* Blocks: a header; the data of a meta entry or of a file; the end.
ZeroBlock == [kind |-> "zero", type |-> "none", name |-> NoName, size |-> NoSize]
Dir == <<[kind |-> "dir", type |-> "none", name |-> <<>>, size |-> 0]>>

VARIABLES
    pkg,       \* the package, as it was parsed
    phase,     \* what add, and later verify, is doing
    pos,       \* TarWalker: the next block
    pending,   \* TarWalker: overrides for the next member
    matched,   \* verification: manifest entries seen in the payload
    disk,      \* the file system: paths to Dir or contents
    rollback,  \* extraction: files and directories made
    ok,        \* extraction: no member failed
    tampered,  \* files somebody changed after the installation
    report     \* verify_installed: paths reported missing or modified

pvars == <<pkg, phase, pos, pending, matched, disk, rollback, ok, tampered, report>>

NoPackage == [payload |-> <<>>, manifest |-> <<>>, files |-> <<>>, dirs |-> {}]
Nothing == [name |-> Unset, size |-> NoSize]

PayloadInit ==
    /\ pkg = NoPackage /\ phase = "idle" /\ pos = 1 /\ pending = Nothing
    /\ matched = {} /\ disk = [d \in {<<>>} |-> Dir] /\ rollback = [files |-> <<>>, dirs |-> <<>>]
    /\ ok = TRUE
    /\ tampered = {} /\ report = {}

\* A disk: what a package finds; with a file or directory, and without.
Disk(p) == [d \in p.dirs \cup DOMAIN p.files |-> IF d \in p.dirs THEN Dir ELSE p.files[d]]
AtFirst == Disk(pkg)
With(d, p, contents) == [f \in DOMAIN d \cup {p} |-> IF f = p THEN contents ELSE d[f]]
Without(d, p) == [f \in DOMAIN d \ {p} |-> d[f]]

Begin(p) ==
    /\ phase = "idle"
    /\ pkg' = p
    /\ disk' = Disk(p)
    /\ phase' = "verify"
    /\ UNCHANGED <<pos, pending, matched, rollback, ok, tampered, report>>

-----------------------------------------------------------------------------
(* TarWalker::next                                                         *)

Payload == pkg.payload
Walking == phase \in {"verify", "extract"}
AtPayloadEnd == pos \in DOMAIN Payload => Payload[pos].kind = "zero"
Fits(size) == pos + size <= Len(Payload)
\* A block of data that is read as a header has no size to speak of.
HeaderSize == IF Payload[pos].kind = "header" THEN Payload[pos].size ELSE 0

Reject(why) == IF phase = "verify"
               THEN phase' = why /\ UNCHANGED ok
               ELSE phase' = "rollback" /\ ok' = FALSE

\* A pax size= override also says how many blocks the member occupies.
Size == IF pending.size # NoSize THEN pending.size ELSE HeaderSize
Name == IF pending.name # Unset THEN pending.name ELSE Payload[pos].name
Data == SubSeq(Payload, pos + 1, pos + Size)

\* A GNU long name, whatever it is (a link's is of no account here); or pax records, if it is
\* such: the last word on each attribute holds.
Override(before, type, text) ==
    LET says == type = "L" \/ (type \in PaxTypes /\ text.kind = "text")
    IN  [name |-> IF says /\ text.name # Unset THEN text.name ELSE before.name,
         size |-> IF says /\ type # "L" /\ text.size # NoSize THEN text.size ELSE before.size]

\* An entry that describes the next one; only its first block is looked at.
MetaText == IF Payload[pos].size = 0 THEN ZeroBlock ELSE Payload[pos + 1]
ReadMeta ==
    /\ Walking /\ ~AtPayloadEnd /\ Payload[pos].type \in MetaTypes
    /\ IF Fits(Payload[pos].size)
       THEN /\ pending' = Override(pending, Payload[pos].type, MetaText)
            /\ pos' = pos + 1 + Payload[pos].size
            /\ UNCHANGED <<phase, ok>>
       ELSE Reject("truncated") /\ UNCHANGED <<pos, pending>>
    /\ UNCHANGED <<pkg, matched, disk, rollback, tampered, report>>

AtMember == ~AtPayloadEnd /\ Payload[pos].type \notin MetaTypes
PastMember == pos' = pos + 1 + Size /\ pending' = Nothing

-----------------------------------------------------------------------------
(* verify_package_integrity                                                *)

TrailingSlash(name) == Len(name) > 1 /\ Last(name) = ""
IsDir(type, name) == type = "5" \/ (type = "NUL" /\ TrailingSlash(name))
IsRegular(type, name) == type = "0" \/ (type = "NUL" /\ ~TrailingSlash(name))

\* normalize_member_path drops leading "./" and "/", and nothing else.
Normal(name) ==
    LET kept == {i \in DOMAIN name : \A j \in 1..i-1 : name[j] \in Void}
        first == CHOOSE i \in kept : (name[i] \notin Void \/ i = Len(name))
    IN  SubSeq(name, first, Len(name))

Entries(name) == {i \in DOMAIN pkg.manifest : Normal(pkg.manifest[i].path) = Normal(name)}
FirstEntry(name) == CHOOSE i \in Entries(name) : \A j \in Entries(name) : i <= j

\* A file must be in the manifest, and have the contents listed there first.
VerifyFile ==
    IF Fits(Size) /\ Entries(Name) # {} /\ Data = pkg.manifest[FirstEntry(Name)].contents
    THEN matched' = matched \cup {FirstEntry(Name)} /\ PastMember /\ UNCHANGED phase
    ELSE phase' = "mismatch" /\ UNCHANGED <<matched, pos, pending>>

VerifyMember ==
    /\ phase = "verify" /\ AtMember
    /\ LET type == Payload[pos].type
       IN  IF Name = NoName \/ IsDir(type, Name)
           THEN PastMember /\ UNCHANGED <<phase, matched>>
           ELSE IF IsRegular(type, Name) THEN VerifyFile
           ELSE phase' = "disallowed" /\ UNCHANGED <<matched, pos, pending>>
    /\ UNCHANGED <<pkg, disk, rollback, ok, tampered, report>>

VerifyEnd ==
    /\ phase = "verify" /\ AtPayloadEnd
    /\ phase' = IF matched = DOMAIN pkg.manifest THEN "extract" ELSE "missing"
    /\ pos' = 1 /\ pending' = Nothing
    /\ UNCHANGED <<pkg, matched, disk, rollback, ok, tampered, report>>

-----------------------------------------------------------------------------
(* extract_payload                                                         *)

\* The path the kernel finds under the root: "", "." and repeated "/" vanish.
PathOf(name) ==
    LET Kept[i \in 0..Len(name)] ==
            IF i = 0 THEN <<>>
            ELSE IF name[i] \in Void THEN Kept[i - 1] ELSE Append(Kept[i - 1], name[i])
    IN  Kept[Len(name)]
Exists(d, p) == p \in DOMAIN d
ParentIsDir(d, p) == Exists(d, Front(p)) /\ d[Front(p)] = Dir
IsUnsafe(name) == (Len(name) > 1 /\ name[1] = "") \/ ".." \in ToSet(name)

\* mkdir_tracked on a disk, its rollback list and the success so far.
MkDir(state, p) ==
    IF Exists(state.disk, p) THEN state
    ELSE IF ParentIsDir(state.disk, p)
         THEN [state EXCEPT !.disk = With(@, p, Dir), !.dirs = Append(@, p)]
         ELSE [state EXCEPT !.ok = FALSE]

\* create_parent_dirs makes a directory of every proper prefix.
Parents(state, name) ==
    LET Made[i \in 0..Len(name) - 1] ==
            IF i = 0 THEN state ELSE MkDir(Made[i - 1], PathOf(SubSeq(name, 1, i)))
    IN  Made[Len(name) - 1]

\* open(O_CREAT | O_TRUNC) and write; what exists is noted before it is written.
WriteFile(state, name, whole, data) ==
    LET path == PathOf(name)
        opens == /\ path # <<>> /\ ~TrailingSlash(name)
                 /\ IF Exists(state.disk, path) THEN state.disk[path] # Dir
                    ELSE ParentIsDir(state.disk, path)
    IN  IF ~opens THEN [state EXCEPT !.ok = FALSE]
        ELSE [state EXCEPT !.disk = With(@, path, IF whole THEN data ELSE <<>>),
                           !.files = Append(@, path), !.ok = @ /\ whole]

State == [disk |-> disk, files |-> rollback.files, dirs |-> rollback.dirs, ok |-> ok]

\* (mutant: the name in the header is taken although a longer one was given)
Extracted_HeaderName ==
    LET name == Payload[pos].name type == Payload[pos].type
    IN  IF name = NoName THEN State
        ELSE IF IsUnsafe(name) THEN [State EXCEPT !.ok = FALSE]
        ELSE IF IsDir(type, name) THEN MkDir(State, PathOf(name))
        ELSE WriteFile(Parents(State, name), name, Fits(Size), Data)

\* What a member leaves.  (Verification has refused every other type.)
Extracted ==
    LET type == Payload[pos].type
    IN  IF Name = NoName THEN State
        ELSE IF IsUnsafe(Name) THEN [State EXCEPT !.ok = FALSE]
        ELSE IF IsDir(type, Name) THEN MkDir(State, PathOf(Name))
        ELSE WriteFile(Parents(State, Name), Name, Fits(Size), Data)

\* A member that fails does not end the extraction.
ExtractMember ==
    /\ phase = "extract" /\ AtMember
    /\ disk' = Extracted.disk /\ ok' = Extracted.ok
    /\ rollback' = [files |-> Extracted.files, dirs |-> Extracted.dirs]
    /\ PastMember
    /\ UNCHANGED <<pkg, phase, matched, tampered, report>>

ExtractEnd ==
    /\ phase = "extract" /\ AtPayloadEnd
    /\ phase' = IF ok THEN "installed" ELSE "rollback"
    /\ UNCHANGED <<pkg, pos, pending, matched, disk, rollback, ok, tampered, report>>

Unlink(d, p) == IF Exists(d, p) /\ d[p] # Dir THEN Without(d, p) ELSE d
RmDir(d, p) ==
    IF \E q \in DOMAIN d : q # <<>> /\ Front(q) = p THEN d ELSE Without(d, p)

Unlinked(d, names) ==
    LET Left[i \in 0..Len(names)] ==
            IF i = 0 THEN d ELSE Unlink(Left[i - 1], names[Len(names) + 1 - i])
    IN  Left[Len(names)]
RemoveDirs(d, names) ==
    LET Left[i \in 0..Len(names)] ==
            IF i = 0 THEN d ELSE RmDir(Left[i - 1], names[Len(names) + 1 - i])
    IN  Left[Len(names)]

\* Rollback::undo, newest first: files, then directories.
Undo ==
    /\ phase = "rollback"
    /\ disk' = RemoveDirs(Unlinked(disk, rollback.files), rollback.dirs)
    /\ phase' = "undone"
    /\ UNCHANGED <<pkg, pos, pending, matched, rollback, ok, tampered, report>>

-----------------------------------------------------------------------------
(* `abp verify' some time later                                            *)

Damaged(contents) == Append(contents, ZeroBlock)

\* Somebody changes or removes a file, or nobody does.
Tamper ==
    /\ phase = "installed"
    /\ \/ disk' = disk /\ tampered' = {}
       \/ \E p \in {q \in DOMAIN disk : disk[q] # Dir} :
            /\ disk' \in {Without(disk, p), With(disk, p, Damaged(disk[p]))}
            /\ tampered' = {p}
    /\ phase' = "later"
    /\ UNCHANGED <<pkg, pos, pending, matched, rollback, ok, report>>

\* verify_package_files: what cannot be read as a file counts as sound.
Suspect(e) ==
    LET path == PathOf(e.path)
    IN  ~Exists(disk, path) \/ (disk[path] # Dir /\ disk[path] # e.contents)

\* The recorded paths are the manifest's; / is the working directory.
VerifyInstalled ==
    /\ phase = "later"
    /\ report' = {e.path : e \in {x \in ToSet(pkg.manifest) : Suspect(x)}}
    /\ phase' = "reported"
    /\ UNCHANGED <<pkg, pos, pending, matched, disk, rollback, ok, tampered>>

PayloadNext ==
    \/ \E p \in Packages : Begin(p)
    \/ ReadMeta \/ VerifyMember \/ VerifyEnd
    \/ ExtractMember \/ ExtractEnd \/ Undo
    \/ Tamper \/ VerifyInstalled

PayloadSpec == PayloadInit /\ [][PayloadNext]_pvars

-----------------------------------------------------------------------------
(* Properties                                                              *)

Listed == {PathOf(e.path) : e \in ToSet(pkg.manifest)}
\* No two entries of the manifest name one file (as a/b and a//b do).
ListedOnce == \A i, j \in DOMAIN pkg.manifest :
                  PathOf(pkg.manifest[i].path) = PathOf(pkg.manifest[j].path) => i = j

\* "this and the integrity walker in verify.rs ... can never diverge"
\* (install.rs:434): whatever long names, pax headers and overridden sizes the
\* archive has, what an add leaves is what the manifest promised - every
\* listed file with its contents, and no other file.
InstallsWhatWasVerified ==
    phase = "installed" =>
        /\ ListedOnce => \A e \in ToSet(pkg.manifest) :
               Exists(disk, PathOf(e.path)) /\ disk[PathOf(e.path)] = e.contents
        /\ \A p \in DOMAIN disk :
               disk[p] = Dir \/ p \in Listed \/ (Exists(AtFirst, p) /\ AtFirst[p] = disk[p])

\* "a failed install can be rolled back to leave the system exactly as it was
\* found" (install.rs:396): all that was made, directories on the way included,
\* goes; of files that were there before only those of the archive's names.
UndoneIsAsFound ==
    phase = "undone" =>
        /\ \A p \in DOMAIN disk : Exists(AtFirst, p) /\ disk[p] = AtFirst[p]
        /\ \A p \in DOMAIN AtFirst : Exists(disk, p) \/ p \in ToSet(rollback.files)

\* `abp verify' reports exactly the files that were changed since, although add
\* went by the archive's names and verify goes by the manifest's, and neither
\* spelling is normal (verify_package_files).
ReportsExactlyTheChanged ==
    phase = "reported" /\ ListedOnce =>
        report = {e.path : e \in {x \in ToSet(pkg.manifest) : PathOf(x.path) \in tampered}}

\* Verification and extraction take an archive for the same files, a failed extraction
\* is undone, and `abp verify' tells what was changed (install.rs:396, 434).
PayloadsAreAsVerified ==
    InstallsWhatWasVerified /\ UndoneIsAsFound /\ ReportsExactlyTheChanged
=============================================================================
