# armybox in TLA+

armybox is one Rust binary that provides about 400 Unix commands ("applets"),
together with `abp`, a package manager that lives in a crate of its own, and a
zstd codec in another. This directory holds TLA+ models of the parts of it that
are hard to get right, the TLC configurations that check them on small
instances, and proofs, checked by TLAPS, of what matters most.

Paths below are relative to the repository (`src/` is its root, so the applets
are under `src/src/applets/`, abp under `src/crates/abp/src/` and zstd under
`src/crates/zstd-nostd/src/`).

    tlc -workers 2 -config install_clean.cfg MC_AbpInstall.tla     # a run
    tlapm AbpInstall_proofs.tla                                    # a proof

PROJECT.json has the machine-readable side: the runs, the source lines of every
definition, the mutated definitions that each property must notice, the hazards
and the theorems. Operators with a suffix after an underscore (`Skip_NotUnsafe`
before `Skip`) or a comment `(mutant: ...)` are those mutations; no
specification uses them.

## 1. The system

### abp

| Part | State | Operations | What is hard | Correct when |
| --- | --- | --- | --- | --- |
| Database (`database.rs`) | one record file per installed package in `packages/`; `files.idx`, the lines that say which package owns which path; records of available packages and repositories | `put_package`, `get_package`, `delete_package`, `list_packages`, `register_file`, `unregister_file(s)`, `get_file_owner`, `atomic_write` | no lock anywhere: several abp processes interleave at every system call; kills between two of them; appends that stop early | readers see whole files; a record is written completely or not at all; nobody else's lines are lost; a torn line garbles nothing else |
| Install (`install.rs`) | the file system, the database, a `Rollback` of what was extracted | load, resolve, remove what is replaced, check conflicts, verify, drop the old version, extract, register, record, undo | every step may fail, and the process may be killed between any two | a record says the truth when it appears; a failed installation leaves nothing; other packages' files are safe; conflicts hold; dependencies are there |
| Remove (`remove.rs`) | the same | dependents check, unlink, unregister, delete record | the same; configuration files stay | dependents are not left alone; only the package's files go |
| Resolver (`resolver.rs`) | the list of resolved names and the recursion's stack | `resolve_with_local` | cycles, also through virtual names; local, installed and available packages of one name | it ends; dependencies come first; errors are real |
| Versions (`format.rs`) | none | `Version::parse`, `compare`, `Dependency::satisfied_by` | number widths, letters and digits in one segment | an order; `1.10 > 1.9` |
| Payload, verification (`install.rs`, `verify.rs`) | what was extracted | walk the tar archive, compare with the manifest, undo; `abp verify` | two walkers of one archive; long names and pax headers; duplicate members and manifest entries | what is verified is what is extracted |
| Repositories (`repo.rs`, `fetch.rs`) | table of available packages, repository records | `update`, `repo add`, `repo del`, from several processes | records are written in place and read meanwhile; the table is emptied before the first index arrives | updates converge; what was configured stays so |
| Transaction log (`transaction.rs`) | begun transactions, backups in a directory named by the second | begin, execute, rollback, commit; **unused** by every command | a half-done operation is not in the list that is rolled back; two in one second | rollback restores |
| Package index (`pkgindex.rs`) | a byte format with a sorted name table | build, check, look up | 16- and 32-bit fields | readers accept what was built; look-up finds what a scan finds |

`abp add` calls the resolver (1), then for each package in its order verifies,
extracts, registers in the index and writes the record last (2); `abp del`
takes files, lines and record away. All state is in files, shared by whatever
abp processes run at once.

### armybox

| Part | State | What is hard | Correct when |
| --- | --- | --- | --- |
| Shell (`applets/shell/`) | `last_status`, `should_exit`, `exit_code`; the pipe ends and children of a pipeline | processes and pipe ends: one end too many, held anywhere, blocks a reader or a writer for ever; statuses through lists, branches, loops and exit | every pipeline ends, and with the right status; scripts run what POSIX asks for |
| init (`init.rs`) | entries of inittab with their pids | children and orphans that end in any order, pids that are given again, fork failing | stages are apart; a respawn entry is running again and again; zombies go |
| xargs (`file/xargs.rs`) | a set of children, batches | statuses folded in completion order, foreign children, -P, -x, forks that fail | every item once; at most -P; the documented status |
| tftp, nbd (`network/`) | block numbers, an open transfer; a handshake, a served file | lost, repeated and reordered packets, numbers that wrap; servers of other kinds; several connections on one file | the file that arrives is the file that was sent; reads see acknowledged writes |
| File tools (`file/`, `archive/`, `text/`, `editors.rs`) | a source, a target, a temporary file | calls that fail, kills, a second command on the same file | success means all of it; nothing is lost on the way |
| Trees (`cp -R`, `mv`, `rm -r`, `find`) | the walk | links, unreadable directories, entries that come and go | the copy is complete before the source goes; nothing outside is touched; every entry once |
| diff, patch, sed, awk, regular expressions | tables, hunks, pattern and hold space, record and fields, threads | each is an interpreter or a search with its own order of things | they compute what POSIX, or the abstract definition, says |
| Compressed formats and archives (`archive/`, zstd) | windows, code tables, models, bit positions | encoder and decoder are two programs that must stay in step | what was packed comes back; what others packed is read; damage is noticed |
| screen (`misc/screen.rs`) | manager, one client, a pty | clients come, take over and leave between any two system calls | output and input are parted out exactly; clients return |
| the other applets | none that outlasts a command | — | — |

The applets do not interact except through the kernel; the shell forks them.

## 2. Modules and plan

Every module below has runs; section 6 says which are proved about.

| Modules | What they are | Checked in |
| --- | --- | --- |
| `AbpIndex`, `AbpDatabase` | `files.idx` as a value; processes on records and index, one action per system call | `MC_AbpStores`, `MC_AbpPackages`; the violation runs directly |
| `AbpRecordStore` | abstract: an atomic map of records, implemented by `AbpDatabase`; the index as a relation of owners is `IndexIsARelation` there | the same |
| `AbpInstall` | `abp add` and `abp del` over files, records and index | `MC_AbpInstall`; with kills `MC_AbpStores` |
| `AbpResolver`, `AbpVersion` | dependency search; version order | `MC_AbpPackages` |
| `AbpPayload` | verification, extraction, undoing and `abp verify` as readers of one archive | `MC_AbpPackages` |
| `AbpRepo` | `repo add`, `repo del`, `update` by several processes, failing and killed | `MC_AbpPackages` |
| `AbpTransaction`, `AbpPkgIndex` | the transaction log; the binary index, against a scan | `MC_AbpPackages` |
| `ShellPipeline` | fork, pipe, close and wait against running commands | `MC_Applets` |
| `ShellScript` | statements, lists, loops and exit; POSIX's reading of them | `MC_Applets` |
| `InitProcess`, `Xargs` | supervision of processes | `MC_Applets` |
| `Nbd` | handshake and requests over connections | `MC_Applets` |
| `Tftp` | the transfer, over a network that loses, repeats and delays | `MC_Tools` |
| `FileTools`, `FileTrees`, `Find` | replacing, copying, moving, packing files; trees; the walk and the language of find | `MC_Tools` |
| `DiffPatch`, `SedScript` | diff and patch against each other; sed's commands | `MC_Tools` |
| `Screen` | a session with two users and a `screen -d` | `MC_Tools`; what it eventually does `MC_Applets` |
| `Lzma`, `RangeCoder`, `Bzip2`, `Lzw` | xz and lzma, bzip2, compress: both sides | `MC_Tools` |
| `Zstd`, `Fse`, `Huffman`, `Inflate` | zstd, both sides, but for Huffman; inflate | the same |
| `Archives` | tar and cpio | the same |
| `Regex`, `AwkExpr`, `AwkRun` | the engine behind grep, sed, awk; awk's expressions; its interpreter | the same |

`AbpDatabase` and `AbpInstall` both extend `AbpIndex`: the same index value, in
the first with several processes and system calls, in the second inside one
process whose database calls are atomic. `OneProcessSuffices` is the
justification: for one process the index *is* a relation and a call takes
effect at once. `AbpInstall` takes the resolver by its contract (`Resolved`),
which `AbpResolver` establishes (`DependenciesFirst`); `MC_AbpPackages` gives
`AbpResolver` the constraints of `AbpVersion`. `Lzma` takes the range coder by
what `RangeCoder` shows, `Zstd` the bit stream by what `Fse` shows, `SedScript` and
`AwkRun` searching by what `Regex` shows. Independent parts share an MC module,
whose behaviours run one part and leave the others still.

The formats' and languages' properties cannot be proved here (section 6).

## 3. How the models correspond to the code

### abp

**AbpIndex.** A line is a path, a name and whether it is terminated. An append
writes path, separator, name and newline in one `write`, of which a prefix may
reach the disk (`Cuts`); the next append continues the torn line, which is how
two registrations can be garbled. `WithoutOwner` is the filter of
`unregister_files`, `FileOwner` the first line of `get_file_owner`'s scan. Names and paths are
model values; a cut inside one is the value `Torn`, which is nobody's.

**AbpDatabase.** `op[p]` is the call process `p` is in and which system call
comes next. `PutPackage`, `UnregisterFiles` and `UnregisterFile` compute the new
contents, then `OpenTmp`, `WriteTmp` and `RenameTmp` are `atomic_write`;
`AtomicWriteFails` is each of its failing paths. `RegisterFile` opens and
`AppendLine` writes: the descriptor stays on the old file if another process
renames a new index over the name (`fd`). `Crash` kills a process anywhere.
`Listed` and `IsInstalled` are the readers.

**AbpInstall.** `job` is the one abp process: `pc` names the loop or call it is
in, `queue` and `left` the packages and files still to do, `made` and `madeDirs`
the `Rollback`. `Add` is loading and resolving, `BeginRemove` ...
`RemoveRecord` the removal that `add` (for replaced packages) and `del` share,
`Check` the conflict checks, `Verify` ... `Put` `install_single_package`,
`UnregisterNew`, `UndoFile`, `UndoDirs` its failing paths. Faults: `verify`
(a bad signature), `memory` (decompression fails), `open`, `write` (a member
cannot be created or is short), `register`, `torn` (an append fails before or
within its line), `put`, `unregister`, `delete` (a rewrite or unlink fails),
`crash`. What `Available` and the resolver's order leave open is chosen
nondeterministically.

**AbpResolver.** A frame is a call of `resolve_package_local`: its name and the
dependencies its loop has not come to. `Request` is the outer loop, `SkipMet`,
`Descend`, `Unresolved` the loop's body, `Return` its end, `Finish` the answer.
The order of a dependency list and of a directory is left open.
**AbpVersion** has strings as sequences of characters, `take_while`'s lost
character included; `U32Max` and `U64Max` are made small.

**AbpPayload.** An archive is a sequence of blocks, a name a sequence of
components; contents stand for their checksum. The tar walker and its two
callbacks are steps, so that a member that fails undoes what came before.
**AbpRepo.** A record that is opened is truncated and then written; a reader
in between finds none. `update_repos` lists record by record (`List`), unlinks the
table record by record (`Clear`) and writes it record by record (`Put`, `Write`), then
the repository's own record (`Stamp`, `StampWrite`); others may come between any two.
Each of these calls may fail, and `update` looks at none of their answers but a
fetch's: `ClearFails`, `PutFails`, `StampFails` (open), `StampStops` (the record was
truncated, and is no record any more). `repo add` reports its own (`AddFails`).
**AbpTransaction.** The caller's own creating and
removing is part of the environment. Copies there (`BackupFile`) and back
(`TakeBack`) may stop half-way without anybody knowing (`BackupStops`, `CutShort`),
files may not open or unlink when they are taken back. **AbpPkgIndex.** The builder is one step
(`sort_by` is stable, so its outcome is the one list of positions in order),
the reader's checks and its binary search are one step per entry looked at;
offsets are modulo `U32`, lengths and positions modulo `U16`, both made small.

### Applets that run beside others

**ShellPipeline.** `sh` is `execute_simple_pipeline`: `MakePipe`, `Fork`,
`CloseEnds` once per command, then `Wait` once per command; `RunInShell` is the
early return for builtins and redirections; `Fails` is a pipe() or fork() that
fails. Children hold ends of pipes as the kernel gives them: all of the shell's
at fork, less what `Exec` closes. `Take`, `Put` and `Stop` are the read and
write calls of `cat`, `yes`, `head -c1`, `false` and a command that is killed.
SIGPIPE kills a writer because nothing in armybox ignores it.

**ShellScript.** The recursion `execute_script` → `execute_if`/`while`/
`until`/`for` → `execute_script` is a stack of frames; positions in the text
are syntax trees. `Statement`/`EndOfBlock` is the loop of `execute_script`,
`Branch`, `Test`, `Again`, `NextWord` are control.rs after its calls,
`Command` one round of `execute_pipeline`. `Posix` says, for the same
tree and the same sequence of returned statuses, which commands POSIX wants run;
it is written from the standard and not from the code.

**InitProcess.** `stage` and `at` are where `init_main` is; `children` is the
kernel's list, in the order in which processes became init's. Pids are given
again once reaped. **Xargs.** The batches (`compute_batches`), the fork loop,
`reap` and the statuses are actions of their own; commands end when they like.
**Tftp.** The client's loop, a server after RFC 1350, a network that loses,
repeats and delays, timeouts on both sides, block numbers modulo `Width`.
**Nbd.** Parts of the handshake and requests travel on streams; who reads a
part of another kind than is due takes its bytes for that, which is how
disagreement shows. Each connection's server is a process; they share the file,
which each opens once the handshake is over (`OpenFile`), if it can (`OpenFails`). A
read may find less than it should and is filled up (`cut`), a write may stop half-way
and is acknowledged (`torn`), and either may be answered with an error (`Refuse`).

### Files and text

**FileTools.** A tool is a `Plan`, a sequence of the system calls that it makes,
in its order and with what it does when one fails; two commands interleave
between any two. `Fault` fails a call, `Kill` kills. Names lead to inodes, so
unlinked files that are open still hold their data.
**FileTrees.** The walks of `cp`, `mv`, `rm` are stacks of directories with the
entries not yet looked at. `mv` copies by `stat`, removes by `lstat`.
**Find.** The arguments are parsed (`OrExpr` ... `Term`), `Process`, `OpenDir`,
`CloseDir` are the walk; trees vanish and the output goes away in between.
Expressions are generated as trees, written as arguments with as few
parentheses as possible, and must mean the same once parsed; names are
generated as patterns and must match what the pattern's items say.
**DiffPatch.** The table of common subsequences is a function; tracing back
is a line a step. `ApplyHunk` is one hunk with its search for a place; lines count as
equal when they are but for blanks at their ends (`Trimmed`), so the file may have
got blanks since the diff (`indented`), and context stays as the file has it. The
unified diff between them is made by an external definition.
**SedScript.** A parsed script, an action per command; a set of well-known
scripts, each with what it must write. **Screen.** The manager acts on what one `poll`
reported; clients attach, type, detach, are replaced. Users are numbered by the
order in which they attach, which loses nothing and saves half the states.

### Formats and languages

**Lzma.** Encoder and decoder take turns symbol by symbol; a symbol carries the
probabilities it is coded with, and both sides must name the same
(`InStep`). **RangeCoder.** Bits and contexts go in, bytes come out; widths are
parameters and small, carries run through waiting bytes. **Bzip2.** One action per
stage of a block, and back. **Lzw.** The decoder is one entry behind. **Zstd.** The
search for matches, one position a step; the three recent offsets on both sides. **Fse.**
Tables are counted, normalised, described, read and walked, backward by the
encoder, forward by the decoder. **Huffman**, **Inflate.** Decoders only: what
another program wrote is generated from the format's definition. **Archives.**
A tree is archived while files change, an archive is a sequence of records,
and the extractor counts what it skips. Reads and writes of either side may fail or
stop half-way, which neither tool notices: what follows may be out of step (`shifted`),
the entry not whole in the archive (`short`) or not on the disk (`lost`).

**Regex.** Parser, compiler and thread list; the reference is a backtracking
matcher over the syntax tree. **AwkExpr.** The recursive descent of
`parse_expr`; trees are written with the parentheses POSIX demands and must be
read back. **AwkRun.** `Interp` is a record that expressions and statements
transform; `Begin`, `OpenFile`, `Record`, `End` are the steps of a run.
Well-known programs must write what they are known for (`Expected`, in terms
of lines and words); programs made of assignments to fields must keep record and
fields together. Numbers are integers and regular expressions are words.

## 4. Runs

A run's behaviour chooses one part and runs it; the other parts stay in their
initial states. The bounds are in the `.cfg` files and at the INSTANCEs.

| Run | Question | Bounds, and why they are enough |
| --- | --- | --- |
| `abp_stores` | Do readers ever see half a rewrite? When a record appears, is it true? Does every command end? | *database*: two processes, one kill, every cut of an append; one path and one package, since records of two names do not meet and all rewrites of the index go through one file. *install*: three archives of which two are versions of one package, nine kinds of faults, two per behaviour, kills, every option |
| `install_clean` | Do files, index and records agree after any commands? Is everybody's property safe? | five archives of four packages with an upgrade, shared paths, a configuration file, a replacement, conflicts by name and by virtual name, one or two at once, one failed verification |
| `install_failing` | Does a failed installation leave nothing, and nobody without what he needs? | two faults of six kinds (one to fail, one in the undoing), two versions of a package, a dependent and its dependency |
| `abp_parts` | Is the resolver's order right, and the version order one? Is what was verified extracted? Do updates converge? Does the index find what is in it? Does the log roll back? Is the database enough for one process? | every combination of local, installed and available versions of three packages with cycles, a virtual name and a constraint that tells versions apart; all triples of 30 version strings; payloads of one to three members, eleven manifests, two disks; two repositories, two processes, four commands, one fault; indexes of up to four packages where four is what the widths allow; two transactions of two operations on two files; one process with two paths, two packages and three lines |
| `shell` | Do pipelines end and clean up, do scripts run the right commands? Does init keep its entries running? Does xargs hand on each item once? Do nbd's sides agree? | two lines of up to three commands with one failing call and pipes that hold one unit (a longer one only delays blocking); all lists of three commands, branches and loops two deep; tables of up to three entries and four pids; items of two sizes; two connections and three requests on a file of one block (blocks do not meet) or none; screen without keys |
| `tools` | Do file tools lose data, whatever fails? Are copies complete before the source goes? Do diff, patch and sed do what they are known for? Is a session parted out exactly? Does a transfer arrive? Does what was packed come back, and is damage noticed? Do patterns and awk programs mean what their grammars say? | every call of each command failing, one kill, two commands on one file; trees of up to five entries with links; files of up to three lines, and longer ones; two users and one `screen -d`; transfers of one, three and five blocks where numbers wrap after three; archives of five entries, with one failing read or write where all are readable and stay as they are (or one changes); inputs of three to seven symbols over small alphabets, so that runs, repeats and ends fall everywhere, and windows, blocks and code widths small enough to be exceeded; patterns of two and three operators and texts of up to four characters; expressions of three operators; files of up to three lines |
| `db_lost_update` (violation) | Does `unregister_files` keep other packages' lines with two processes? | two processes, no kill |
| `db_phantom` (violation) | Does `list_packages` tell the truth after a kill? | one process, one kill |
| `install_undo_upgrade` (violation) | Is a failed upgrade undone? | two versions, one fault |
| `install_rebuilt` (violation) | Can two packages own one path? | three archives, no fault |
| `shell_exit` (violation) | Does `sh` return what exit was given? | as `shell` |
| `xz_distance` (violation) | Does lzma restore every file? | as `tools`, with distances up to 128 |

What the passing runs show. Properties of several parts of one question are
conjoined in the MC modules, where each has its comment; their conjuncts are
named here.

- **Database** (`abp_stores`). `TargetsWhole`, `RenamesItsOwnData`, `TempFilesCleaned`: a
  record or rewritten index is whole in spite of other processes, kills and
  failed calls, and no temporary file outlives its call. `RecordsAreAtomic`: the
  records implement an atomic map (a put happens once, completely or never).
  `OneProcessSuffices` (`abp_parts`) is everything else, for a single process:
  `IndexIsARelation`, `RegisteredIsRecorded`, `UnregistersOnlyItsOwn`,
  `ListsInstalledOnly`.
- **Install.** `CommitIsComplete` (`abp_stores`): whatever failed before, a
  record appears only when each of its files is on disk with the package's bytes
  and registered; `TransactionsEnd`. When nothing fails but verification
  (`install_clean`): `StoresAgree`, `ExclusiveOwnership`, `OthersFilesAreSafe`,
  `ConflictsEnforced`; with failing steps (`install_failing`): `RollbackRestoresFresh`,
  `OwnersAreInstalled`, `DependenciesInstalled`.
- **Resolver and versions** (`abp_parts`). `DependenciesFirst`, `OrderedOnce`,
  `ResolutionEnds`; `SearchIsExact` = `OrderIsExact`, `ErrorsAreReal`;
  `VersionsAreOrdered` = `OrdinaryVersionsCompare`, `VersionsArePreordered`.
- **Other parts of abp** (`abp_parts`). `PayloadsAreAsVerified` =
  `InstallsWhatWasVerified`, `UndoneIsAsFound`, `ReportsExactlyTheChanged`;
  `RepositoriesAreAsCommanded` = `UpdatesConverge`, `ConfigurationIsAsCommanded`;
  `IndexIsFaithful` = `ReaderAcceptsBuilder`, `LookupIsAScan`;
  `RollbackRestoresFiles`.
- **Shell** (`shell`). `EndsBelongToTheirCommands` (nobody holds an end of a pipe
  he should not), `ForegroundIsOver` (every command was waited for, the status is
  the last one's), `RunsAsPosix`.
- **Beside the shell** (`shell`). `ChildrenAreKept` = `InitIsRight`
  (`StagesAreApart`, `OneProcessEach`) and `XargsIsRight` (`AtMostMaxProcs`,
  `EveryItemOnce`, `StatusIsOfACommand`); `NbdIsRight` = `HandshakeAgrees`,
  `ReadsSeeAcknowledgedWrites`. `AppletsGoOn` is the liveness of them all:
  `CommandsEnd`, `LineReturns`, `ShellReturns`, `ExitEnds`, `EntriesComeBack`, `ZombiesGo`,
  `ConsoleComesBack`, `XargsReturns`, `HandshakeEnds`, `RequestsAreAnswered`,
  and of screen `ClientsReturn`, `DetachDetaches`.
- **Files and text** (`tools`). `FilesAreKept` = `SuccessIsComplete`,
  `UnpacksAsPacked`, `NothingIsLost`, `EditedAsAWhole`, `BackupComesFirst`,
  `FailedMoveLeavesNoPart`, `RacesLoseNothing`, and of trees
  `MovedTreeIsKept`, `CopyIsComplete`, `RemovesOnlyItsOwn`, `RemovalIsComplete`,
  `EveryEntryOnce`, `InOrder`, `SuccessMeansAll`. `EditsAreAsMeant` =
  `ScriptIsRight`, `ScriptIsShortest`, `PatchIsTheEdit`, `PatchFindsItsPlace`,
  `IdiomsWork`. `SessionsAreKept` = `OutputIsPartedOut`, `InputIsAsTyped`.
  `TransfersAreWhole` = `GetIsWhole`, `PutIsWhole`.
- **Formats and languages** (`tools`). `ArchivesRestore`: each of Lzma,
  RangeCoder, Bzip2, Lzw, Zstd, Fse restores what it packed, with both sides in
  step; Huffman and Inflate read what others packed and notice what is missing;
  tar and cpio restore trees and keep to the others when one entry fails.
  `LanguagesAreRead`: a regular expression's match is the backtracking one;
  awk's expressions nest as the grammar says and well-known programs work.
  `Beyond = {"bzip2"}`, `{"zstd"}` or `{"fse"}` in place of the empty set adds
  the inputs of section 7 that do not come back, as `xz_distance` does for lzma.

Preconditions that are part of these statements, because the code breaks the
property without them: `RollbackRestoresFresh` is about packages that were not
installed, onto free paths; `RunsAsPosix` about lists that do not mix `&&` and
`||`, exits that end their list, and no single redirected program;
`EndsBelongToTheirCommands`, `ForegroundIsOver` and `CommandsEnd` about
pipelines whose pipe() and fork() succeed; `GetIsWhole` about packets that live
for less than a round of block numbers; `HandshakeEnds` about exports that are
not empty; `StatusIsOfACommand` about runs in which no fork failed and no
foreign child is reaped. Where a call fails and the code does not look at what it
returned, what that call spoilt is given up, and the property says that nothing else
is: `RepositoriesAreAsCommanded` gives up a repository whose record an update or a
kill cut short; `RollbackRestoresFiles` a file whose latest copy stopped half-way or
could not be written back; `RequestsAreAnswered` the requests to a server that could not open its
file; `ReadsSeeAcknowledgedWrites` a block whose latest write stopped half-way, and
reads that were filled up; `SuccessRestores` and `OthersAreRestored` a file with a
part missing, and what lies in the archive at or behind an entry cut short. Section 7
says what happens otherwise.

Deadlock is not checked where the system may stop: in `abp_parts`, `shell`
and `tools`, whose behaviours end when the command does. The database
and install runs check it.

## 5. Fairness

- `abp_stores`: weak fairness of `Work`, the install part's own steps. A process
  that is not stopped is scheduled; nothing in `Work` waits for anybody.
  Commands need not be given, faults and kills need not happen.
- `abp_parts`: weak fairness of the part's next step: `ResolutionEnds` is about
  one program that runs alone.
- `shell`: weak fairness of the shell's own calls and of each child's, each on
  its own: the kernel schedules every runnable process. A process that blocks in
  `read`, `write` or `waitpid` has no step enabled. Scripts: of the next step.
  init: of its own steps only, for other processes may run for ever; xargs: of
  its steps and of commands ending, since it cannot return before they do; nbd:
  of the steps of the connection in question, whatever the other one does: a server
  process and the client are runnable whenever there is something to read; whether
  FILE opens is left open, but open(2) returns.
  screen: of the manager (`Poll` returns after 100 ms at the latest,
  and what it reported is handled in the same round), of each client's receiving
  (it is woken by what is sent), and of `screen -d`, which waits for nobody.
  Typing, leaving and detaching are not fair.
- `tools`, `install_clean`, `install_failing` and the violation runs check safety only.
- Nowhere are faults, kills or timeouts fair: they need not happen.

## 6. Proofs

All are for every value of the constants under the modules' named assumptions
(requests of finitely many packages, marker values that are no data). Where a
theorem has a further hypothesis it is because the code breaks the property
without it; TLC's counterexample is named.

**AbpIndex** has its own lemmas. Appending and filtering yield an index; the owners after a
whole append on whole lines are the old ones and the new one, after any other
append at most those; after `WithoutOwner` and `WithoutPath` exactly the others;
`FileOwner` is one of the owners, and the only one when there is one. Everything
below cites these instead of looking into lines and tails.

**AbpDatabase_proofs**, any number of processes:
`TypeOK`, `TargetsWhole`, `RenamesItsOwnData`, and `RecordsAreAtomic` (the
refinement of `AbpRecordStore`). `TargetsWhole` is not inductive: `RenameTmp`
installs whatever the temporary file holds. The invariant therefore adds that a
process about to rename finds in its file what it prepared, and that what it
prepared fits its target (`DataFits`). The first needs the pid in the file's
name, the argument for which is `TmpSteps`. `TempFilesCleaned`
(`NoTempFileIsLeft`) and, without kills, `ListsInstalledOnly` (`NoPhantoms`): a
name is listed although not installed only between an open and a rename
(`Cleaned`); a kill there leaves it so (`db_phantom`).
*One process, whose appends are whole or not at all*: `AInv` says that the index
has no cut line and that what a rewrite was computed from is still what is there
(`UpToDate`) - just what a second process breaks (`db_lost_update`). With it
`UnregistersOnlyItsOwn`, `RegisteredIsRecorded`, and the refinement
`IndexIsARelation`; `OneProcessIsEnough` collects them.

**AbpInstall_proofs**, any packages, requests and number of faults:

| Theorem | Hypothesis | Inductive invariant |
| --- | --- | --- |
| `RecordsAreTrue`: `CommitIsComplete` | `AppendsWhole`: no append is torn, or what cleans up after it cannot fail and nothing is killed. Otherwise a torn line that nobody removed swallows the next registration, which is why `abp_stores` leaves `torn` to `install_failing` | `IInv`: what is extracted and not undone is on disk while `whole` holds (`Extracted`), still is when registration begins (`Written`), files no longer to be registered are in the index (`Registered`), lines are whole (`LinesWhole`) |
| `PathsHaveOneOwner`: `ExclusiveOwnership`; `NobodyElsesFiles`: `OthersFilesAreSafe` | `Orderly`: no `--force`; a rebuild of a version keeps its files (`install_rebuilt`); no upgrade or removal stops half-way, which leaves a record whose lines are gone (section 7) | `HInv`: the index is a function on its owners (`OneOwner`); what the queue will take is nobody else's (`Cleared`, which `Refused` establishes once for the whole request and later steps must not disturb); records own their files (`OwnRecords`, `RestIntact`, `Leaving`) |
| `StoresStayTogether`: `StoresAgree` | the same, and nothing fails but verification | `Held`: a package has lines only for what it may own at this stage (`MayOwn`) |
| `ConflictsStayOut`: `ConflictsEnforced` | `CompatibleRequests`: no two packages of one request conflict - they are never compared | `CInv`: the queue has nothing twice, its packages are compatible, and everything still queued is unopposed by what is installed |
| `OwnersCanBeRemoved`: `OwnersAreInstalled` | `Repaired`: not killed, and `unregister_files` does not fail | `OInv`: an owner is installed or just being registered, and a victim about to lose its record has no line |
| `RollbackLeavesNothing`: `RollbackRestoresFresh` | `Repaired` | `DInv`: while a fresh package is handled, the disk differs from the snapshot by exactly what the `Rollback` has noted (`Noted`), and files lie in directories that exist |
| `DependenciesStay`: `DependenciesInstalled` | `Plainly`: no `--force` or `--no-deps`; verification and removal do not fail; nothing is replaced, provided or only available - in each case the code lets a dependency pass that is not there | `EInv`: a package's dependencies are installed and stay, or come before it in the queue (`QueueInOrder`); victims take their dependents along |

`abp_stores`, `install_clean` and `install_failing` satisfy the hypotheses of the
properties they check, so the runs and the theorems are about the same thing.

**ShellPipeline_proofs**, pipelines of any length and number: `TypeOK`,
`EndsBelongToTheirCommands`, `ForegroundIsOver`. The invariant says what the shell
holds at each point of a round (`ShellEnds`: the end the next command reads and,
between pipe() and the closing, the two of the new pipe), that a child starts
with no more than it closes or uses (`ChildEnds`), and that the commands in front
of the one being waited for have been reaped (`Waited`).

**Tftp_proofs**, files of any length, any number of transfers at the server,
any width of block numbers, any number of faults: `TransfersAreWhole`. `IInv` is
`Typed`, and for a get (`GetInv`) that the client has the blocks that it has
acknowledged, while no transfer and no packet is ahead of it; for a put (`PutInv`)
that each transfer has the blocks up to its own, while no acknowledgement is ahead of
the transfer nor data more than a block. Since neither side compares more than the block's
number, the argument is that two blocks with one number that can be on the way
together are one block (`SameIsEqual`), and for that a packet must not live as
long as numbers take to come round: `Lifetime + 1 < Width`
(`TransferAssumption`), 65536 in the code. A longer delay is a hole that the code has
(section 7).

**AbpPackages_proofs.** Of `AbpResolver`, any packages, dependencies, versions and
worlds: `TypeOK`, `DependenciesFirst`, `OrderedOnce`, `SearchIsExact`. The
invariant says of each frame of the stack that its dependencies which are no
longer to do are met or resolved, that resolved names stand in the order
exactly once, and that no frame's name is resolved yet; `Return`, which
appends the frame's name, then keeps it. For `SearchIsExact` (`RInv`): a name is
reached when it is in every set that contains the request and that no edge
leaves, so the invariant says of each such set that it holds the names resolved
and on the stack (`AllReached`), and of each set that holds what a call needs
directly that it holds the calls below it (`Chained`) - the stack is a path, which
is what makes a cycle that is reported a cycle; names asked for are to come,
resolved, or the outermost call's (`Wanted`).
Of `AbpTransaction`, any files, operations and transactions:
`RollbackRestoresFiles`, with a backup directory that was empty at first. While
operations execute nobody writes (`Executing`), so a copy is the file as it was at
the start unless it stopped half-way (`short`), and completed operations have copies of
all that they remove (`BackedUp`); they are undone from the latest to the first
(`CountsDown`), whence a file is back for good, or known to be `lost`, once the first
operation that names it, one that removes it, has been undone (`Undone`).
Of `AbpRepo`, any repositories, indexes and processes:
`RepositoriesAreAsCommanded` (`RepositoriesStayAsCommanded`), under the hypothesis that the
directory lists the repositories in an order (`Repos` is a sequence). That configurations stay,
for what was not reconfigured during an update nor cut short (`Undisputed`): a wanted
repository has a record,
or somebody is just writing it, and another has none (`HasRecord`); commands are at
wanted ones only (`OnlyWanted`), so that rewriting a record brings nothing back; and
nobody but who adds one knows of it meanwhile (`AddedAlone`), so that an add that
fails leaves none. That
updates converge: of each package, the table has the version that the last wanted
repository lists, or some update owes it (`Settled`), that is, has it still to put
(`Owes`, `Remaining`); updates go on in the directory's order and miss no repository
(`Orderly`), so that whoever puts a version and owes none of that package any more has put
the last one. Records are unlinked one by one, and whoever unlinked one last still has
everything to put; an update whose
file was unlinked between open and write is not counted as owing that one: it is the
one that unlinked it who does. What failed calls, kills and other commands leave is
outside (`stale`, `Erring`), until an update has been alone from its beginning until it
cleared the table (`Alone`, `SoleInv`). Of `AbpPayload`, any archives, manifests and
files there before: `PayloadsAreAsVerified` (`PayloadsStayAsVerified`). The walker has no
memory but its position and pending overrides, so verification and extraction are two walks
of one graph (`Following`). Verification goes through places that are all sound (`PassedTo`:
each a meta entry, a directory or a file that some entry of the manifest lists first), and
what it has ticked off is met wherever a walk from the start ends (`WillMeet`: in every set
of places that no step leaves); extraction starts with all entries to be met, and each is still
to be met or on the disk (`Extracting`). Two spellings that verification takes for one name
are one file (`SameFile`). For undoing, all that was made is noted, directories after those
they are in (`Noted`, through `MkDirIs`, `ParentsAre`, `WriteFileIs`), so that each is
empty when its turn comes (`RemoveDirsIs`). Loops over a name or a list are recursive
functions, which `RoundsExist` and `RoundsAreUnique` unfold. The hypotheses are that headers
have sizes, that only they are meta entries, and that what is on disk is a tree
(`PackagesAssumption`); and that names are made of components, the empty one among them
(`ComponentsAssumption`). Of `AbpVersion`, any strings of ASCII
letters, digits and separators and any integer widths: `VersionsAreOrdered`
(`VersionOrderIsRight`) and what a resolver relies on, that a later version satisfies
every `>=` an earlier one does (`UpgradesSatisfy`). The recursion of
`compare_version_strings` is shown to be well defined by induction on what is left of
the first string, the induction being over sets of numbers (`LeastNumber`, from the
library's `NatLessThanWellFounded` and `WFMin`); each step decides by what stands there
(nothing, letters, a number), then by the two segments, then by the rest
(`StepByClass`), and each of the three is a preorder whose composition is one
(`ThenCoherent`). In ordinary versions the position behind a segment and its
lost character is where the next segment's separators go on (`Clean`), so that the
recursion meets exactly the segments (`OrdinarySegments`). Of `AbpPkgIndex`, any
packages and widths: `IndexIsFaithful` (`IndexIsRight`), under the hypothesis
`Representable` that the runs have too. An interned string keeps its place while
others are appended, and no width cuts its reference (`IsTable`, kept by
`InternIs`; `StringTableIs`, by induction over the packages). `Less` is a strict
total order on byte strings (`LessIsOrder`), so that a sorted list of positions
exists (`SortingExists`, by insertion) and the reader, which compares what
references resolve to, finds the names in order (`IndexIsSorted`). In a search all
names up to `low` are less than the sought one and all above `high` greater
(`Searching`).

**Processes_proofs.** For init, with inittabs of any length, any number of
processes, orphans and pids: `StagesAreApart` and `OneProcessEach`. Neither is
inductive: that an entry has no second process needs that `pidOf` is its child's
pid as long as that has not been reaped (`Noted`), that pids of living children
differ (`Told`), and that init, while a sysinit or wait entry runs, is inside
waitpid for just that (`Attended`, `InWaitpid`); a stage's entry runs only once
its turn came (`Started`). The one hypothesis is that tables are made of actions
and pids are positive. For xargs, with any items, options and budget:
`XargsIsRight`. `AtMostMaxProcs` needs how the three ways to run commands differ
(`Slots`); `EveryItemOnce` that the batches so far lie in a row up to the next one
(`Handing`) and that a batch has an item (`BatchHasItems`); `StatusIsOfACommand` that
a failure is in the status or in a child still to be waited for (`Failing`), that
no child is waited for twice (`EndedOnce`), and that the status is justified by
what was seen (`Justified`).

**Connections_proofs.** For nbd, with any connections to whichever servers, any size of the file and any
number of requests under way: `HandshakeAgrees` and `ReadsSeeAcknowledgedWrites`
(`NbdStaysRight`). During the handshake each kind of server leaves few
possibilities, which the invariant lists with exactly what is on both streams
(`OldServer`, `NewServer`, `OurServer`, `OtherServer`); that a text behind an error is
read is what keeps the list this short. Afterwards the stream to the server is cut
into requests that wait, each write followed by its data (`Frames`), every reply
on its way belongs to a request that waits (`Answers`), with a content that was
written, handles are of one request each (`Asked`), and a request is on its way
once, there or back (`AllOnce`) - so nothing is taken for anything else. With
`Acknowledged`, that no block was acknowledged beyond what was written, the floor a
read was sent with is below what it finds, whichever process wrote it, unless the read was
filled up (`cut`), as it is where the latest write stopped half-way (`torn`). The
hypothesis is that sizes are natural numbers.
For screen, with any users, any output and any input, and without a hypothesis:
`OutputIsPartedOut` and `InputIsAsTyped` (`SessionsStayRight`). That no two clients
get the same follows from all of it having left the pty, in order (`OutputFlows`:
the pty holds what comes next, and whoever is attached got everything since the
first thing it got); that a client which takes over starts with nothing, from
`NewcomersAreNew`: it was in the backlog once, and nobody writes to the backlog. That
keys are read in order, although a read may be of another client than the one
poll reported, is since an inbox holds exactly the keys after those read
(`InputFlows`) and a read takes all of one.

Model-checked only: everything about liveness (the proof system has no
ENABLED), what folds and the other recursive definitions compute (the codecs,
regular expressions, awk, diff, POSIX's reading of scripts), and the other parts'
properties, among them those of file tools, archives and editors.

## 7. Where code and documents disagree

With a run that shows it (quotations in PROJECT.json):

1. `db_lost_update`: two abp processes lose each other's index lines.
2. `db_phantom`: a killed `put_package` leaves a package that is not installed
   but listed.
3. `install_undo_upgrade`: an upgrade that fails leaves neither version, and
   the old record.
4. `install_rebuilt`: a rebuild of the installed version skips the ownership
   check.
5. `shell_exit`: `sh -c 'exit 3'` returns 0.
6. `xz_distance`: matches from 97 to 128 bytes back do not come back (xz.rs:887).

Met while modelling, without a run of their own:

- **abp.** After a failed upgrade the old record remains; a later `del` unlinks
  by it files that may be another package's by then (remove.rs:149). A line cut
  inside its name is nobody's, so `unregister_files` keeps it. Replaced packages
  are removed before the checks that may refuse the add (install.rs:120;
  documented there). `get_dependents` looks at names: the only provider of a
  virtual name may be removed (database.rs:791). A dependency that fails
  verification is skipped, its dependents are not (install.rs:260); a local
  package of any version satisfies a constraint (resolver.rs:84). `1.0a` and
  `1.0b` compare equal, for the comparison loses the character behind every
  segment (format.rs:789). Paths in a manifest are taken relative to the current
  directory at removal (remove.rs:137). A repository deleted while an update runs
  comes back. Positions in the binary index are 16 bits wide.
- **Shell.** `false && x || y` never runs y (execute.rs:240); exit does not stop
  the list it is in; a single redirected program is never run (execute.rs:391);
  a killed command's status is 0 (execute.rs:530); a pipe() or fork() that fails
  leaves ends open and children unwaited (execute.rs:437); an `if` or a loop that
  runs nothing leaves its condition's status; an alias that begins with its own
  name never ends.
- **Processes.** timeout has no handler for its alarm and is killed by it
  (timeout.rs:44). xargs: a killed command gives 123 where xargs.rs:38 says 125,
  a failed parallel fork drops its batch with status 0, `-P 0` is one at a time,
  without items the command's status is returned as it is, be it 1, and wait() may
  reap a child xargs did not start. init: a respawn entry whose
  fork failed is given up; after a failed fork the console's waitpid(-1) may wait
  for an orphan; on the console orphans are never reaped; ignored signals are
  inherited. screen: SIGPIPE ends the manager when output meets a client that
  just left, and clients ended by it leave the terminal raw; stale events make the
  manager read from, or close, the next client; a session of the same name takes
  the socket, and loses it when the first ends; Ctrl+A d split over two reads is
  not seen, and keys before it in one read are dropped; output left when the
  shell ends is lost.
- **Nobody looks at what a call returned.** `abp update` ignores `put_repo`'s
  result (repo.rs:193), which truncates the record before it writes
  (database.rs:623): a repository is lost, with status 0. `clear_available` and
  `put_available` likewise. The transaction log copies by `write_all` without
  looking at its result (transaction.rs:309, :336, :422), so that a short backup
  passes for whole, and a rollback that truncates a file succeeds. tar and cpio
  ignore it too, and take a failed read for an end (tar.rs:240, :436, :455, :599;
  cpio.rs:197, :347): cut archives and files come with status 0. nbd-server
  acknowledges short writes (nbd_server.rs:510). It also
  opens FILE only after the handshake (nbd_server.rs:425) and leaves when that fails,
  which it always does for a relative FILE once the daemon has gone to `/` (:228):
  the client has a device that answers nothing.
- **Network.** tftp does not compare the sender's port, does not answer
  duplicates, takes a failing read of the local file for its end, and does not
  look at write errors. nbd: an empty export leaves both sides waiting; error
  texts of 1024 bytes and more are not drained; `-c` is not implemented though
  nbd_server.rs:66 says that changes are not saved; short reads are
  padded with zeroes; ended children are reaped at the next accept
  only. telnet shows IAC sequences cut by the end of a read as text.
- **File tools.** Read errors are the end of the file for all but mv (cp.rs:37
  and sed.rs:1036 say otherwise). gzip, bzip2 and compress do not look at write
  errors and then unlink the source; patch, vi and dos2unix do not either, tee and
  split neither. gzip of an empty file writes no block, and gunzip rejects it.
  `mv -f f f` and `ln -f f f` remove the file. gzip cuts names at 255 bytes when it
  unlinks. xz and zstd check for the target and then create it. uncompress takes a
  truncated archive for a whole one; bunzip2 compares no sums. dd `seek=`
  truncates in front of it, and `noerror` on a pipe never ends (dd.rs:3); split
  `-b 0` makes files for ever, and beyond `zz` its names sort before.
- **Trees.** mv to another file system follows links: it empties a linked
  directory, and a link at the target that leads to a source file truncates it;
  dangling links and failed stats are skipped and then removed; errors of removal
  are not in the status; an error of getdents is the directory's end, after which
  the source goes; files added meanwhile are lost; `mv d d/x` does not end. `rm -f`
  is always 0. find takes `-depth` and `-maxdepth` also out of the arguments of
  `-exec`; a failing `-exec` makes the status 1. tar takes the size from stat, so
  that a file that shrinks or cannot be opened misaligns the archive, with status
  0; links are followed, names beyond 100 bytes cut, absolute names archived but
  refused at extraction, data of unknown types not skipped; a directory without
  write permission keeps its contents from being extracted; truncated archives
  extract with status 0. cpio: short reads from a pipe, unreadable files with
  status 0, links lost.
- **Text.** diff prints 1 for the other place of every pure addition or deletion;
  patch loses an empty last line, inserts hunks without context one line early,
  misses a hunk displaced by exactly five lines though it finds six, does not add a
  displacement to its offset, has no -N, and takes lines for equal that differ in
  blanks at their ends, all-blank ones included (patch.rs:557). sed (sed.rs:3): `a` text comes after
  a line read by n or N, `t`'s flag survives them, `s/a*/x/g` also replaces the
  empty match behind another, a range whose last line n or N jumped over still
  selects that line; a last line without newline is joined with the next file's.
  grep -w misses words when a thread begun inside a word takes another's program
  counter (`b.*` in "ab b"; regex.rs:776 says otherwise); `(|a)*` matches "a" where
  backtrackers match nothing. awk (awk.rs:3, :9): exit and next inside a function are
  swallowed, arrays passed by copy, redirections of print ignored, operands of
  `op=` and `++` evaluated twice, existing empty fields compare equal to 0,
  `++x^2` is `++(x^2)`, `print f(a > b)` is an error, a new RS takes effect at the
  next file, paragraph mode sees an empty record at a blank end and no newline as
  separator, `gsub(/a*/)` replaces the empty match behind another.
- **Formats.** xz: contexts of literals behind matches differ from LZMA's, so
  that archives are not exchanged with other implementations; lzma2 chunks keep
  neither dictionary nor state, and the upper bits of their size are not read;
  check values and index are not verified. bzip2: `zrle_encode` wraps for blocks
  with all 256 values (bzip2.rs:94; Cargo.toml:489 turns overflow checks off). zstd:
  the encoder starts every block with offsets 1, 4, 8 while the decoder goes on with
  the last ones, so files beyond 128 KiB may not come back (compress.rs:763 tests one
  block); `normalize_counts` misses the sum when rare codes prevail, and the encoder
  stops; a Huffman stream that ends early is read as if zeros followed; up to three bytes
  behind the last frame are not noticed. compress: codes wrap after 65 279 entries.

## 8. Not modelled

Breadth was traded for fidelity: what is modelled is modelled call by call.
Left out are, of about 400 applets, those that are one system call or the
formatting of what /proc says (ls, ps, top, netstat, login and their like), whose
state ends with the command; dispatch, which is a table; and data without
concurrent state that tests and the repository's fuzz targets reach better
(tokenizers, expansion, arithmetic, printf, hashes, signatures). In the parts
that are modelled:

- abp: file modes and symbolic links, the byte format of archives and records,
  cryptography, makepkg, listing, configuration; paths are abstract, so that two
  spellings of one file are not seen;
- shell: `case`, `source`, `eval`, aliases, variables, background jobs;
- init: rcS and mounts; nbd: LIST, ABORT, TRIM and FLUSH; tftp: ERROR packets;
- text: parsing of sed's scripts and awk's statements, awk's printf and
  mathematics; vi, ed;
- archives: what data are as a header when the place of a header is lost; failing
  reads of a name or of padding in cpio's extraction; ar, find's -newer, -size and -perm; FSE-compressed Huffman weights,
  predefined and repeated tables, dictionaries of zstd; attribute changers, dd,
  split, ls.
