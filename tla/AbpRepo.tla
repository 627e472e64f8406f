-------------------------------- MODULE AbpRepo --------------------------------
(***************************************************************************)
(* Repositories and the table of available packages of abp                 *)
(* (src/crates/abp/src/repo.rs, fetch.rs, database.rs): the commands       *)
(* `repo add', `repo del' and `update', given to several processes.        *)
(*                                                                         *)
(* Records of repositories and of available packages are written in place: *)
(* open() truncates the file, write() fills it, and in between readers     *)
(* find no record; nor do they ever when the process is killed there, or   *)
(* the write falls short, for a part of a record is none (from_bytes).     *)
(* `update' does not look at what any of these calls returns.              *)
(***************************************************************************)
EXTENDS Naturals, SequencesExt

CONSTANTS Repos,       \* names of repositories, a sequence: the directory's order
          Pkgs,        \* package names
          Offers,      \* Offers[r]: what the index of r lists, package to version
          Updaters,    \* processes
          Missing,     \* no such file
          Truncated,   \* a file opened for writing, and not written to its end
          MaxCommands, \* bound: commands in a behaviour
          MaxFaults    \* bound: failed calls and kills

RepoNames == ToSet(Repos)
Position(r) == CHOOSE i \in DOMAIN Repos : Repos[i] = r
Offer == [pkg : Pkgs, version : Nat]

ASSUME RepoAssumption ==
    /\ Repos \in Seq(RepoNames)
    /\ Offers \in [RepoNames -> Seq(Offer)]
    /\ Missing # Truncated /\ "record" \notin {Missing, Truncated}
    /\ MaxCommands \in Nat /\ MaxFaults \in Nat

VARIABLES
    repos,      \* repos[r]: the record of repository r
    available,  \* available[k]: the record of package k, a version
    cmd,        \* cmd[p]: the command process p is in
    commands,   \* how many commands were given
    faults,     \* how many calls failed and processes were killed
    wanted,     \* the repositories that the commands leave configured
    raced,      \* repositories reconfigured during another command, or whose record
                \* was cut short by a kill or a write of an update
    stale       \* something happened since the last clearing that it misses

rvars == <<repos, available, cmd, commands, faults, wanted, raced, stale>>

\* repo: the repository at hand; repos: those an update has listed and still has to come
\* to; left: what it still has to list or to unlink; pkgs: what it still has to put of the
\* repository at hand; fd: into a file that has a name; sole: the number of the command, if
\* none was running when it began, or 0.
NoCommand == [pc |-> "idle", repo |-> "none", repos |-> {}, left |-> {}, pkgs |-> <<>>,
              fd |-> FALSE, errors |-> FALSE, sole |-> 0]

RepoInit ==
    /\ repos = [r \in RepoNames |-> Missing]
    /\ available = [k \in Pkgs |-> Missing]
    /\ cmd = [p \in Updaters |-> NoCommand]
    /\ commands = 0 /\ faults = 0
    /\ wanted = {} /\ raced = {} /\ stale = FALSE

IsRepo(r) == repos[r] = "record"
Others(p) == {q \in Updaters \ {p} : cmd[q].pc # "idle"}
Become(p, c) == cmd' = [cmd EXCEPT ![p] = c]
Begins(p) == cmd[p].pc = "idle" /\ commands < MaxCommands /\ commands' = commands + 1
Fault == faults < MaxFaults /\ faults' = faults + 1

\* A command on the configuration that meets an update: an update puts back
\* the records it listed when it began.
Reconfigures(p, r) ==
    /\ raced' = IF Others(p) # {} THEN raced \cup {r} ELSE raced \ {r}
    /\ stale' = TRUE

-----------------------------------------------------------------------------
(* repo add, repo del                                                      *)

\* add_repo refuses a name that has a record; put_repo then truncates (unless open()
\* fails, which changes nothing) ...
Add(p, r) ==
    /\ Begins(p) /\ ~IsRepo(r)
    /\ repos' = [repos EXCEPT ![r] = Truncated]
    /\ Become(p, [NoCommand EXCEPT !.pc = "add", !.repo = r])
    /\ wanted' = wanted \cup {r}
    /\ Reconfigures(p, r)
    /\ UNCHANGED <<available, faults>>

\* ... and writes.  (A file that was unlinked meanwhile stays away.)
Filled(p) == repos' = [repos EXCEPT ![cmd[p].repo] = IF @ = Missing THEN @ ELSE "record"]

AddWrite(p) ==
    /\ cmd[p].pc = "add"
    /\ Filled(p)
    /\ Become(p, NoCommand)
    /\ UNCHANGED <<available, commands, faults, wanted, raced, stale>>

\* The write falls short: repo add reports it.  The file is no record, and can be added.
AddFails(p) ==
    /\ cmd[p].pc = "add" /\ Fault
    /\ Become(p, NoCommand)
    /\ wanted' = wanted \ {cmd[p].repo} /\ stale' = TRUE
    /\ UNCHANGED <<repos, available, commands, raced>>

Del(p, r) ==
    /\ Begins(p) /\ IsRepo(r)
    /\ repos' = [repos EXCEPT ![r] = Missing]
    /\ wanted' = wanted \ {r}
    /\ Reconfigures(p, r)
    /\ UNCHANGED <<available, cmd, faults>>

-----------------------------------------------------------------------------
(* update_repos                                                            *)

Update(p) ==
    /\ Begins(p)
    /\ Become(p, [NoCommand EXCEPT !.pc = "list", !.left = RepoNames,
                                   !.sole = IF Others(p) = {} THEN commands + 1 ELSE 0])
    /\ UNCHANGED <<repos, available, faults, wanted, raced, stale>>

\* list_repos reads one record after the other.  One that another update is just
\* rewriting is not listed.
List(p) ==
    /\ cmd[p].pc = "list"
    /\ \E r \in cmd[p].left :
        /\ \A s \in cmd[p].left : Position(r) <= Position(s)
        /\ Become(p, [cmd[p] EXCEPT !.left = @ \ {r},
                                    !.repos = IF IsRepo(r) THEN @ \cup {r} ELSE @])
    /\ UNCHANGED <<repos, available, commands, faults, wanted, raced, stale>>

\* Without a repository, nothing is cleared.
ListingDone(p) ==
    /\ cmd[p].pc = "list" /\ cmd[p].left = {}
    /\ IF cmd[p].repos = {} THEN Become(p, NoCommand) /\ UNCHANGED stale
       ELSE /\ Become(p, [cmd[p] EXCEPT !.pc = "clear", !.left = Pkgs])
            /\ stale' = (stale \/ cmd[p].repos # wanted)
    /\ UNCHANGED <<repos, available, commands, faults, wanted, raced>>

Fills(q, k) == cmd[q].pc = "write" /\ Head(cmd[q].pkgs).pkg = k

\* clear_available unlinks one record after the other, in whatever order, and those half
\* written by others as well.
Clear(p) ==
    /\ cmd[p].pc = "clear"
    /\ \E k \in cmd[p].left :
        /\ available' = [available EXCEPT ![k] = Missing]
        /\ cmd' = [q \in Updaters |-> IF q = p THEN [cmd[p] EXCEPT !.left = @ \ {k}]
                                      ELSE [cmd[q] EXCEPT !.fd = @ /\ ~Fills(q, k)]]
    /\ UNCHANGED <<repos, commands, faults, wanted, raced, stale>>

\* Nor does anybody see that a record could not be unlinked.
ClearFails(p) ==
    /\ cmd[p].pc = "clear" /\ Fault
    /\ \E k \in cmd[p].left : Become(p, [cmd[p] EXCEPT !.left = @ \ {k}, !.sole = 0])
    /\ stale' = TRUE
    /\ UNCHANGED <<repos, available, commands, wanted, raced>>

\* What other updates missed is repaired by one that was alone until here.
Cleared(p) ==
    /\ cmd[p].pc = "clear" /\ cmd[p].left = {}
    /\ Become(p, [cmd[p] EXCEPT !.pc = "fetch"])
    /\ stale' = (stale /\ ~(cmd[p].sole = commands /\ cmd[p].repos = wanted))
    /\ UNCHANGED <<repos, available, commands, faults, wanted, raced>>

\* The listing is worked off in the directory's order.
IsNext(p, r) == r \in cmd[p].repos /\ \A s \in cmd[p].repos : Position(r) <= Position(s)
Begun(p, r) ==
    Become(p, [cmd[p] EXCEPT !.pc = "put", !.repo = r, !.repos = @ \ {r}, !.pkgs = Offers[r]])

\* (mutant: each repository's packages replace those of the one before)
Fetch_Clears(p) ==
    /\ cmd[p].pc = "fetch"
    /\ available' = [k \in Pkgs |-> Missing]
    /\ \E r \in RepoNames : IsNext(p, r) /\ Begun(p, r)
    /\ UNCHANGED <<repos, commands, faults, wanted, raced, stale>>

Fetch(p) ==
    /\ cmd[p].pc = "fetch"
    /\ \E r \in RepoNames : IsNext(p, r) /\ Begun(p, r)
    /\ UNCHANGED <<repos, available, commands, faults, wanted, raced, stale>>

\* A repository whose index cannot be had is left out, and counted.
FetchFails(p) ==
    /\ cmd[p].pc = "fetch" /\ Fault
    /\ \E r \in RepoNames :
        IsNext(p, r) /\ Become(p, [cmd[p] EXCEPT !.repos = @ \ {r}, !.errors = TRUE])
    /\ UNCHANGED <<repos, available, commands, wanted, raced, stale>>

\* put_available: open truncates ...
Put(p) ==
    /\ cmd[p].pc = "put" /\ cmd[p].pkgs # <<>>
    /\ available' = [available EXCEPT ![Head(cmd[p].pkgs).pkg] = Truncated]
    /\ Become(p, [cmd[p] EXCEPT !.pc = "write", !.fd = TRUE])
    /\ UNCHANGED <<repos, commands, faults, wanted, raced, stale>>

\* ... and write fills the file, if a clearing has not unlinked it.
Write(p) ==
    LET k == Head(cmd[p].pkgs)
    IN  /\ cmd[p].pc = "write"
        /\ available' = IF cmd[p].fd THEN [available EXCEPT ![k.pkg] = k.version] ELSE available
        /\ Become(p, [cmd[p] EXCEPT !.pc = "put", !.pkgs = Tail(@), !.fd = FALSE])
        /\ UNCHANGED <<repos, commands, faults, wanted, raced, stale>>

\* The answers of put_available are not looked at.
PutFails(p) ==
    /\ cmd[p].pc \in {"put", "write"} /\ cmd[p].pkgs # <<>> /\ Fault
    /\ Become(p, [cmd[p] EXCEPT !.pc = "put", !.pkgs = Tail(@), !.fd = FALSE])
    /\ stale' = TRUE
    /\ UNCHANGED <<repos, available, commands, wanted, raced>>

\* The record with the new time: put_repo truncates, whether or not it is there.
Stamp(p) ==
    /\ cmd[p].pc = "put" /\ cmd[p].pkgs = <<>>
    /\ repos' = [repos EXCEPT ![cmd[p].repo] = Truncated]
    /\ Become(p, [cmd[p] EXCEPT !.pc = "stamp"])
    /\ UNCHANGED <<available, commands, faults, wanted, raced, stale>>

StampWrite(p) ==
    /\ cmd[p].pc = "stamp"
    /\ Filled(p)
    /\ Become(p, [cmd[p] EXCEPT !.pc = "fetch"])
    /\ UNCHANGED <<available, commands, faults, wanted, raced, stale>>

\* put_repo cannot open the record, which stays as it was ...
StampFails(p) ==
    /\ cmd[p].pc = "put" /\ cmd[p].pkgs = <<>> /\ Fault
    /\ Become(p, [cmd[p] EXCEPT !.pc = "fetch"])
    /\ UNCHANGED <<repos, available, commands, wanted, raced, stale>>

\* ... or not write it to its end: the repository is lost.  The update goes on and
\* succeeds.
StampStops(p) ==
    /\ cmd[p].pc = "stamp" /\ Fault
    /\ Become(p, [cmd[p] EXCEPT !.pc = "fetch"])
    /\ raced' = raced \cup {cmd[p].repo}
    /\ UNCHANGED <<repos, available, commands, wanted, stale>>

\* The status is 1 if errors were counted.
UpdateDone(p) ==
    /\ cmd[p].pc = "fetch" /\ cmd[p].repos = {}
    /\ Become(p, NoCommand)
    /\ stale' = (stale \/ cmd[p].errors)
    /\ UNCHANGED <<repos, available, commands, faults, wanted, raced>>

\* Killed: what it was writing stays truncated.
Kill(p) ==
    /\ cmd[p].pc # "idle" /\ Fault
    /\ Become(p, NoCommand)
    /\ stale' = TRUE
    /\ raced' = IF cmd[p].pc \in {"add", "stamp"} THEN raced \cup {cmd[p].repo} ELSE raced
    /\ UNCHANGED <<repos, available, commands, wanted>>

RepoStep(p) ==
    \/ \E r \in RepoNames : Add(p, r) \/ Del(p, r)
    \/ AddWrite(p) \/ AddFails(p)
    \/ Update(p) \/ List(p) \/ ListingDone(p) \/ Clear(p) \/ ClearFails(p) \/ Cleared(p)
    \/ Fetch(p) \/ FetchFails(p)
    \/ Put(p) \/ Write(p) \/ PutFails(p)
    \/ Stamp(p) \/ StampWrite(p) \/ StampFails(p) \/ StampStops(p) \/ UpdateDone(p)
    \/ Kill(p)

RepoNext == \E p \in Updaters : RepoStep(p)

RepoSpec == RepoInit /\ [][RepoNext]_rvars

-----------------------------------------------------------------------------
(* Properties                                                              *)

Quiet == \A p \in Updaters : cmd[p].pc = "idle"

\* What an undisturbed update leaves: each package in the version of the last
\* repository, in the directory's order, that lists it.
LastVersion(k) ==
    LET listing == {r \in wanted : \E i \in DOMAIN Offers[r] : Offers[r][i].pkg = k}
        last == CHOOSE s \in listing : \A t \in listing : Position(t) <= Position(s)
        at == {i \in DOMAIN Offers[last] : Offers[last][i].pkg = k}
        place == CHOOSE i \in at : \A j \in at : j <= i
    IN  IF listing = {} THEN Missing ELSE Offers[last][place].version

\* Updates clear first and fill later, record by record, and do so side by side without
\* a lock; still, once all have ended, the table is exactly what the repositories list:
\* whoever unlinked a record last has put everything after that, provided it listed every
\* repository (which it may miss while another update rewrites the record).
\* Kills, failed calls and new configurations are repaired by the next update that is
\* alone until it has cleared the table.
UpdatesConverge ==
    Quiet /\ ~stale => \A k \in Pkgs : available[k] = LastVersion(k)

\* An update rewrites the record of every repository it fetched; that neither
\* loses nor brings back one, as long as no `repo add' or `repo del' met it, it was
\* not killed at it, and it wrote the record to its end (repo.rs:194).  Nobody asks for
\* the last (:193): given up are repositories whose record fell short, which an
\* update loses with status 0 and the next `repo add' brings back.
ConfigurationIsAsCommanded ==
    Quiet => \A r \in RepoNames \ raced : IsRepo(r) <=> r \in wanted

\* Updates side by side leave what the repositories list, and neither lose nor bring
\* back a repository (update_repos, put_repo).
RepositoriesAreAsCommanded == UpdatesConverge /\ ConfigurationIsAsCommanded
=============================================================================
