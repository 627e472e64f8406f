------------------------------- MODULE Archives -------------------------------
(***************************************************************************)
(* tar and cpio (src/src/applets/archive/tar.rs, cpio.rs): a tree is       *)
(* archived while others change it, and extracted into an empty directory  *)
(* in which some entries cannot be made.  Reads and writes may fail; no    *)
(* result of write_all is looked at, and both tools go on.                 *)
(*                                                                         *)
(* An archive is a sequence of records: headers, data and padding; a read  *)
(* takes what it asks for, so a reader that skips too few or too many      *)
(* records comes to data where it expects a header, and is lost.  tar's    *)
(* records are blocks of BlockSize units of data, cpio's are single units, *)
(* aligned by 4 behind a header with its name and behind the data.         *)
(***************************************************************************)
EXTENDS Integers, Sequences, SequencesExt, FiniteSets

CONSTANTS
    BlockSize,
    Scenarios,  \* [tool, tree, order, readOnly, unsafe, unreadable, changes, failing];
                \* failing bounds the reads and writes that fail
    NameSize(_) \* how many units a name takes in a header of cpio

VARIABLES
    scenario,
    fs,         \* path -> [kind, data]; a link's data are those of its file
    phase,      \* "archive", "extract", "done"
    next,       \* the entry that is archived next, or the record that is read next
    entry,      \* the header that is being dealt with, <<>> when there is none
    got,        \* the units of its data that were read or written
    archive,    \* the records
    restored,   \* what was extracted
    status,     \* of the tool that runs
    written,    \* the status of the archiver
    changed,    \* the entries that were not archived as they had been
    failures,   \* how many reads and writes failed
    shifted,    \* a part of a block is in the archive, and all that follows is out of place
    short,      \* the entries of which not all was written to the archive, or read from it
    lost        \* the files of which a part is missing, to the harm of no other

fvars == <<failures, shifted, short, lost>>
vars == <<scenario, fs, phase, next, entry, got, archive, restored, status, written, changed,
          fvars>>

Tar == scenario.tool = "tar"
HeaderOf(path, kind, size) == [is |-> "head", path |-> path, kind |-> kind, data |-> <<>>, size |-> size]
Data(units) == [is |-> "data", path |-> <<>>, kind |-> "", data |-> units, size |-> 0]
Pad == Data(<<>>)
EndMark == HeaderOf(<<>>, "end", 0)
Garbage == Data(<<9>>)
NotWritten == 0 - 1   \* in the place of a unit

Blocks(size) == (size + BlockSize - 1) \div BlockSize
Padding(size) == (4 - (size % 4)) % 4
Pads(n) == [k \in 1..n |-> Pad]
Smaller(m, n) == IF m < n THEN m ELSE n

Init ==
    /\ scenario \in Scenarios
    /\ fs = scenario.tree
    /\ phase = "archive" /\ next = 1 /\ entry = <<>> /\ got = <<>> /\ archive = <<>>
    /\ restored = <<>> /\ status = 0 /\ written = 0 /\ changed = {}
    /\ failures = 0 /\ shifted = FALSE /\ short = {} /\ lost = {}

Fails == failures < scenario.failing /\ failures' = failures + 1

-----------------------------------------------------------------------------
(* Archiving.                                                              *)

Path == scenario.order[next]

\* tar follows links (stat), cpio does not (lstat) and has nothing but a header for them.
Kind(path) == IF fs[path].kind = "link" /\ Tar THEN "file" ELSE fs[path].kind
Size(path) == IF Kind(path) = "file" THEN Len(fs[path].data) ELSE 0

\* tar_add_file, cpio_create: an entry that is gone ends tar when it is an operand.
Missing ==
    /\ phase = "archive" /\ entry = <<>> /\ next <= Len(scenario.order) /\ Path \notin DOMAIN fs
    /\ IF Tar /\ Len(Path) = 1
       THEN written' = 1 /\ phase' = "extract" /\ next' = 1
       ELSE next' = next + 1 /\ UNCHANGED <<written, phase>>
    /\ changed' = changed \cup {Path}
    /\ UNCHANGED <<scenario, fs, entry, got, archive, restored, status, fvars>>

\* tar writes blocks: whole, or not at all, or a part, after which each is read together
\* with the end of the one before.
PutBlock(block) ==
    \/ /\ archive' = Append(archive, IF shifted THEN Garbage ELSE block)
       /\ UNCHANGED <<failures, shifted, short>>
    \/ /\ Fails /\ shifted' \in {shifted, TRUE} /\ short' = short \cup {Path}
       /\ UNCHANGED archive

\* tar writes the header with the size it found; cpio waits for the data.
AddEntry ==
    /\ phase = "archive" /\ entry = <<>> /\ next <= Len(scenario.order) /\ Path \in DOMAIN fs
    /\ LET head == HeaderOf(Path, Kind(Path), Size(Path))
       IN  /\ entry' = <<head>>
           /\ IF Tar THEN PutBlock(head) ELSE UNCHANGED <<archive, failures, shifted, short>>
    /\ got' = <<>>
    /\ UNCHANGED <<scenario, fs, phase, next, restored, status, written, changed, lost>>

\* The next units of the file that is open; tar reads no more than it announced.
Available == SubSeq(fs[Path].data, Len(got) + 1, Len(fs[Path].data))
Readable == entry[1].kind = "file" /\ Path \in DOMAIN fs /\ Path \notin scenario.unreadable
Wanted == Smaller(BlockSize, IF Tar THEN entry[1].size - Len(got) ELSE BlockSize)

ReadBlock ==
    /\ phase = "archive" /\ entry # <<>> /\ Readable /\ Wanted > 0 /\ Available # <<>>
    /\ LET block == SubSeq(Available, 1, Smaller(Wanted, Len(Available)))
       IN  /\ got' = got \o block
           /\ IF Tar THEN PutBlock(Data(block)) ELSE UNCHANGED <<archive, failures, shifted, short>>
    /\ UNCHANGED <<scenario, fs, phase, next, entry, restored, status, written, changed, lost>>

\* cpio_write_entry, write by write: the size is that of what was read.
Writes(path, kind, units) ==
    LET pads(n) == [k \in 1..n |-> <<Pad>>]
        data == [k \in DOMAIN units |-> Data(<<units[k]>>)]
    IN  <<<<HeaderOf(path, kind, Len(units))>>>> \o pads(Padding(110 + NameSize(path)))
        \o (IF units = <<>> THEN <<>> ELSE <<data>>) \o pads(Padding(Len(units)))

\* Writes i to j fail, the first of them after some of its units; of a header there may
\* be a part that is none.
CutEntries(writes) ==
    UNION {{FlattenSeq(SubSeq(writes, 1, i - 1)) \o part
            \o FlattenSeq(SubSeq(writes, j + 1, Len(writes))) :
              j \in i..Len(writes),
              part \in {SubSeq(writes[i], 1, n) : n \in 0..(Len(writes[i]) - 1)}
                       \cup (IF i = 1 THEN {<<Garbage>>} ELSE {})} :
             i \in DOMAIN writes}

\* cpio has no entry for a file that cannot be read.  A read that fails is the end of the
\* file.
EndEntry ==
    /\ phase = "archive" /\ entry # <<>>
    /\ LET more == Readable /\ Wanted > 0 /\ Available # <<>>
           writes == Writes(Path, entry[1].kind, got)
       IN  \/ /\ IF more THEN /\ Fails
                              /\ IF Tar THEN short' = short \cup {Path} /\ UNCHANGED lost
                                 ELSE lost' = lost \cup {Path} /\ UNCHANGED short
                 ELSE UNCHANGED <<failures, short, lost>>
              /\ archive' = IF Tar \/ (entry[1].kind = "file" /\ ~Readable) THEN archive
                            ELSE archive \o FlattenSeq(writes)
           \/ /\ ~more /\ ~Tar /\ (entry[1].kind = "file" => Readable) /\ Fails
              /\ \E records \in CutEntries(writes) : archive' = archive \o records
              /\ short' = short \cup {Path} /\ UNCHANGED lost
    /\ changed' = IF entry[1].kind = "file" /\ (~Readable \/ got # scenario.tree[Path].data)
                  THEN changed \cup {Path} ELSE changed
    /\ next' = next + 1 /\ entry' = <<>>
    /\ UNCHANGED <<scenario, fs, phase, got, restored, status, written, shifted>>

\* The end marks: two empty blocks, or the name TRAILER!!!.  Their end is missed by nobody.
EndArchive ==
    /\ phase = "archive" /\ entry = <<>> /\ next > Len(scenario.order)
    /\ \/ /\ archive' = archive \o (IF shifted THEN <<Garbage, EndMark>> ELSE <<EndMark>>)
          /\ UNCHANGED failures
       \/ Fails /\ UNCHANGED archive
    /\ phase' = "extract" /\ next' = 1
    /\ UNCHANGED <<scenario, fs, entry, got, restored, status, written, changed, shifted,
                   short, lost>>

\* Another process writes, cuts or removes a file.
Change ==
    /\ phase = "archive"
    /\ \E path \in scenario.changes, data \in {<<>>, <<7>>, <<7, 7, 7, 7, 7>>} :
         /\ path \in DOMAIN fs /\ fs[path] = scenario.tree[path]
         /\ fs' = [fs EXCEPT ![path].data = data]
    /\ UNCHANGED <<scenario, phase, next, entry, got, archive, restored, status, written, changed,
                   fvars>>

Unlink ==
    /\ phase = "archive"
    /\ \E path \in scenario.changes \cap DOMAIN fs :
         /\ fs[path] = scenario.tree[path] /\ (entry # <<>> /\ got # <<>> => path # Path)
         /\ fs' = [p \in DOMAIN fs \ {path} |-> fs[p]]
    /\ UNCHANGED <<scenario, phase, next, entry, got, archive, restored, status, written, changed,
                   fvars>>

-----------------------------------------------------------------------------
(* Extracting.                                                             *)

\* What can be made: nothing in a directory that is there without write permission.
CanMake(path) == \A k \in 1..(Len(path) - 1) : SubSeq(path, 1, k) \notin scenario.readOnly

\* How many records follow a header until its data are over.
RecordsOf(h) == IF Tar THEN Blocks(h.size)
                ELSE Padding(110 + NameSize(h.path)) + h.size + Padding(h.size)
\* Those of the name's padding are read with the header.
BeforeData(h) == IF Tar THEN 0 ELSE Padding(110 + NameSize(h.path))

AtHead == next <= Len(archive) /\ archive[next].is = "head" /\ archive[next].kind # "end"

\* tar skips the blocks of an entry that it does not extract, and of a file that it
\* cannot make; so does cpio.  Neither looks at what the reads return.
Skip_NotUnsafe(h) == IF h.path \in scenario.unsafe THEN 1 ELSE 1 + RecordsOf(h)
Skip(h) == 1 + RecordsOf(h)

Reject ==
    /\ phase = "extract" /\ entry = <<>> /\ AtHead
    /\ LET h == archive[next]
       IN  /\ h.path \in scenario.unsafe \/ (h.kind = "file" /\ ~CanMake(h.path))
           /\ \/ next' = next + Skip(h) /\ UNCHANGED <<failures, short>>
              \/ /\ Fails /\ short' = short \cup {h.path}
                 /\ next' \in next + 1..next + RecordsOf(h)
    /\ status' = 1
    /\ UNCHANGED <<scenario, fs, phase, entry, got, archive, restored, written, changed, shifted,
                   lost>>

\* cpio makes no links; mkdir's failure goes unnoticed.
MakeOther ==
    /\ phase = "extract" /\ entry = <<>> /\ AtHead
    /\ LET h == archive[next]
       IN  /\ h.path \notin scenario.unsafe /\ h.kind # "file"
           /\ restored' = IF h.kind = "dir" /\ CanMake(h.path)
                          THEN [p \in DOMAIN restored \cup {h.path} |->
                                  IF p = h.path THEN [kind |-> "dir", data |-> <<>>] ELSE restored[p]]
                          ELSE restored
           /\ next' = next + Skip(h)
    /\ UNCHANGED <<scenario, fs, phase, entry, got, archive, status, written, changed, fvars>>

Create ==
    /\ phase = "extract" /\ entry = <<>> /\ AtHead
    /\ LET h == archive[next]
       IN  /\ h.path \notin scenario.unsafe /\ h.kind = "file" /\ CanMake(h.path)
           /\ entry' = <<h>> /\ got' = <<>> /\ next' = next + 1 + BeforeData(h)
    /\ UNCHANGED <<scenario, fs, phase, archive, restored, status, written, changed, fvars>>

\* extract_file: a block and of it no more than is left of the size, written or not.
WriteBlock ==
    /\ phase = "extract" /\ entry # <<>> /\ Len(got) < entry[1].size /\ next <= Len(archive)
    /\ LET units == IF archive[next].is = "data" THEN archive[next].data ELSE <<9>>
           padded == units \o [k \in 1..(BlockSize - Len(units)) |-> 0]
           left == entry[1].size - Len(got)
           block == IF Tar THEN SubSeq(padded, 1, Smaller(BlockSize, left)) ELSE units
       IN  \/ got' = got \o block /\ UNCHANGED <<failures, lost>>
           \/ /\ Fails /\ lost' = lost \cup {entry[1].path}
              /\ \E n \in 0..(Len(block) - 1) :
                    got' = got \o [k \in DOMAIN block |-> IF k <= n THEN block[k] ELSE NotWritten]
    /\ next' = next + 1
    /\ UNCHANGED <<scenario, fs, phase, entry, archive, restored, status, written, changed,
                   shifted, short>>

\* The file is over, or the archive, or a read of it fails.
CloseFile ==
    /\ phase = "extract" /\ entry # <<>>
    /\ IF Len(got) >= entry[1].size \/ next > Len(archive) THEN UNCHANGED <<failures, short>>
       ELSE Fails /\ short' = short \cup {entry[1].path}
    /\ LET data == SelectSeq(got, LAMBDA u : u # NotWritten)
       IN  restored' = [p \in DOMAIN restored \cup {entry[1].path} |->
                         IF p = entry[1].path THEN [kind |-> "file", data |-> data] ELSE restored[p]]
    /\ next' = next + (IF Tar THEN 0 ELSE Padding(entry[1].size))
    /\ entry' = <<>>
    /\ UNCHANGED <<scenario, fs, phase, got, archive, status, written, changed, shifted, lost>>

\* The end mark, the end of the file, or data where a header should be: what they would
\* be as a header is left out.  cpio calls them bad magic, if they do not begin as one.
EndExtract ==
    /\ phase = "extract" /\ entry = <<>> /\ ~AtHead
    /\ phase' = "done"
    /\ IF ~Tar /\ next <= Len(archive) /\ archive[next].is = "data"
       THEN status' = 1 \/ (archive[next] = Garbage /\ status' = status)
       ELSE status' = status
    /\ UNCHANGED <<scenario, fs, next, entry, got, archive, restored, written, changed, fvars>>

\* A header that cannot be read is the end of the archive.
HeadUnread ==
    /\ phase = "extract" /\ entry = <<>> /\ AtHead /\ Fails
    /\ phase' = "done" /\ short' = short \cup {archive[next].path}
    /\ UNCHANGED <<scenario, fs, next, entry, got, archive, restored, status, written, changed,
                   shifted, lost>>

Next == Missing \/ AddEntry \/ ReadBlock \/ EndEntry \/ EndArchive \/ Change \/ Unlink
        \/ Reject \/ MakeOther \/ Create \/ WriteBlock \/ CloseFile \/ EndExtract \/ HeadUnread

-----------------------------------------------------------------------------
\* What of an entry is to be restored: tar makes files of links, cpio drops them.
AsRestored(path) ==
    IF scenario.tree[path].kind = "link" THEN [scenario.tree[path] EXCEPT !.kind = "file"]
    ELSE scenario.tree[path]
Restorable(path) ==
    /\ path \notin scenario.unsafe /\ CanMake(path)
    /\ Tar \/ scenario.tree[path].kind # "link"
Position(path) == CHOOSE k \in DOMAIN scenario.order : scenario.order[k] = path

\* At or behind an entry that did not get into the archive, or out of it, whole.
BehindShort(path) == \E p \in short : Position(p) <= Position(path)

\* Entries that cannot be made or must not be do not keep the others from being restored
\* (tar.rs:550); a file that changes while it is archived spoils, in tar, at most what comes
\* behind it, and in cpio at most itself; a write to the archive, or a read of it, that
\* fails spoils at most what is there and behind; and a write to a file only that file.
OthersAreRestored ==
    phase = "done" =>
        \A path \in DOMAIN scenario.tree :
            Restorable(path) =>
                \/ path \in DOMAIN restored /\ restored[path] = AsRestored(path)
                \/ path \in changed \cup lost \/ BehindShort(path)
                \/ Tar /\ \E p \in changed : Position(p) < Position(path)

\* Status 0 at both ends, and no change meanwhile, mean that all was restored - but for
\* what a failed call spoilt: nobody asks what write_all returned (tar.rs:240, :436, :455,
\* :599, cpio.rs:197, :347), and a read that fails is an end, so a cut archive is made, and
\* a cut file extracted, with status 0.
SuccessRestores ==
    phase = "done" /\ changed = {} /\ status = 0 /\ written = 0 =>
        \A path \in DOMAIN scenario.tree :
            (Tar \/ scenario.tree[path].kind # "link") =>
                \/ path \in DOMAIN restored /\ restored[path] = AsRestored(path)
                \/ path \in lost \/ BehindShort(path)
=============================================================================
