---------------------------- MODULE AbpRecordStore ----------------------------
(***************************************************************************)
(* What abp's database promises its users.                                 *)
(*                                                                         *)
(* The package records are an atomic map from package names to records.  A *)
(* put is called, takes effect at one instant at most, and returns; a      *)
(* process that dies in between leaves either the old record or the new    *)
(* one.                                                                    *)
(*                                                                         *)
(* The index is a relation: which packages registered which paths.  A      *)
(* package's registrations all go at one instant, and nobody else's do.    *)
(*                                                                         *)
(* AbpDatabase implements the first with any number of processes, the      *)
(* second with one.                                                        *)
(***************************************************************************)
CONSTANTS Names, Paths, Versions, Procs, Absent

Record(n) == [name : {n}, version : Versions]
AnyRecord == [name : Names, version : Versions]

VARIABLES store,     \* store[n]: the record of package n, or Absent
          pending,   \* pending[p]: the record process p is putting, or Absent
          owners     \* the relation: a set of pairs <<path, package>>

vars == <<store, pending>>

Init == /\ store = [n \in Names |-> Absent]
        /\ pending = [p \in Procs |-> Absent]

Call(p) ==
    /\ pending[p] = Absent
    /\ \E r \in AnyRecord : pending' = [pending EXCEPT ![p] = r]
    /\ UNCHANGED store

TakeEffect(p) ==
    /\ pending[p] # Absent
    /\ store' = [store EXCEPT ![pending[p].name] = pending[p]]
    /\ pending' = [pending EXCEPT ![p] = Absent]

\* The call fails, or its process dies: as if it had never been made.
GiveUp(p) ==
    /\ pending[p] # Absent
    /\ pending' = [pending EXCEPT ![p] = Absent]
    /\ UNCHANGED store

Delete(n) ==
    /\ store[n] # Absent
    /\ store' = [store EXCEPT ![n] = Absent]
    /\ UNCHANGED pending

Next == \/ \E p \in Procs : Call(p) \/ TakeEffect(p) \/ GiveUp(p)
        \/ \E n \in Names : Delete(n)

Spec == Init /\ [][Next]_vars

-----------------------------------------------------------------------------
(* The relation                                                            *)

OwnersInit == owners = {}

Register(f, n) == owners' = owners \cup {<<f, n>>}
UnregisterFiles(n) == owners' = {o \in owners : o[2] # n}
UnregisterFile(f) == owners' = {o \in owners : o[1] # f}

OwnersNext == \/ \E f \in Paths, n \in Names : Register(f, n)
              \/ \E n \in Names : UnregisterFiles(n)
              \/ \E f \in Paths : UnregisterFile(f)

OwnersSpec == OwnersInit /\ [][OwnersNext]_owners
=============================================================================
