------------------------------ MODULE AbpResolver -----------------------------
(***************************************************************************)
(* Dependency resolution of abp (src/crates/abp/src/resolver.rs):          *)
(* resolve_with_local, a depth-first search whose recursion is the stack   *)
(* of frames here.  The order in which a package lists its dependencies,   *)
(* and in which packages/ lists providers, is left open.                   *)
(***************************************************************************)
EXTENDS Naturals, Sequences

CONSTANTS
    Names,              \* package names, virtual ones included
    Deps,               \* dependencies, each a name and a constraint
    Needs,              \* Needs[d]: the name in a dependency
    SatisfiedBy(_, _),  \* SatisfiedBy(d, version): Dependency::satisfied_by
    Versions,
    Worlds              \* what the resolver may be run on

(* A world: the packages given on the command line, the database and the   *)
(* repository index, and the names to resolve.                             *)
Package == [version : Versions, depends : SUBSET Deps, provides : SUBSET Names]
PartialFn(f, S) == DOMAIN f \subseteq Names /\ \A n \in DOMAIN f : f[n] \in S
IsWorld(w) ==
    /\ w.request \subseteq Names
    /\ PartialFn(w.local, SUBSET Deps)
    /\ PartialFn(w.installed, Package) /\ PartialFn(w.available, Package)

ASSUME ResolverAssumption ==
    /\ Needs \in [Deps -> Names]
    /\ \A d \in Deps : \A x \in Versions : SatisfiedBy(d, x) \in BOOLEAN
    /\ \A w \in Worlds : IsWorld(w)

VARIABLES
    world,      \* never changes
    todo,       \* requested names the outer loop has not come to
    frames,     \* the calls of resolve_package_local, innermost last
    seen,       \* names that are resolved
    resolved,   \* the same in installation order
    result      \* "running", "ok", or the error returned

vars == <<world, todo, frames, seen, resolved, result>>

Frame == [name : Names, left : SUBSET Deps]
Results == {"running", "ok", "circular", "not found", "unresolved"}

TypeOK ==
    /\ IsWorld(world)
    /\ todo \subseteq Names
    /\ frames \in Seq(Frame)
    /\ seen \subseteq Names
    /\ resolved \in Seq(Names)
    /\ result \in Results

Init ==
    /\ world \in Worlds
    /\ todo = world.request
    /\ frames = <<>> /\ seen = {} /\ resolved = <<>>
    /\ result = "running"

-----------------------------------------------------------------------------
IsLocal(n) == n \in DOMAIN world.local
IsInstalled(n) == n \in DOMAIN world.installed
IsAvailable(n) == n \in DOMAIN world.available

Known(n) == IsLocal(n) \/ IsAvailable(n) \/ IsInstalled(n)

\* Local packages first, then get_dependencies: index before database.
DependsOf(n) ==
    IF IsLocal(n) THEN world.local[n]
    ELSE IF IsAvailable(n) THEN world.available[n].depends
    ELSE world.installed[n].depends

\* A dependency that is met already.
Met(d) == IsInstalled(Needs[d]) /\ SatisfiedBy(d, world.installed[Needs[d]].version)

\* find_provider.
Providers(n) == {m \in Names : IsInstalled(m) /\ n \in world.installed[m].provides}

\* The names a dependency that is not met may be resolved to.  The version of
\* a local package is not looked at, nor that of a provider.
Targets(d) ==
    IF IsLocal(Needs[d]) THEN {Needs[d]}
    ELSE IF IsAvailable(Needs[d]) /\ SatisfiedBy(d, world.available[Needs[d]].version)
         THEN {Needs[d]}
    ELSE Providers(Needs[d])

OnStack == {frames[i].name : i \in DOMAIN frames}
Top == frames[Len(frames)]

\* (mutant: a name is marked when its turn comes, not when it is done)
Enter_MarksEarly(n, callers) ==
    \/ n \in seen /\ frames' = callers /\ UNCHANGED <<seen, result>>
    \/ /\ n \notin seen /\ Known(n)
       /\ frames' = Append(callers, [name |-> n, left |-> DependsOf(n)])
       /\ seen' = seen \cup {n} /\ UNCHANGED result

\* (mutant: no check for cycles; the bound keeps TLC's search finite)
Enter_NoStack(n, callers) ==
    /\ UNCHANGED <<seen, result>>
    /\ \/ n \in seen /\ frames' = callers
       \/ /\ n \notin seen /\ Known(n) /\ Len(frames) < 9
          /\ frames' = Append(callers, [name |-> n, left |-> DependsOf(n)])

\* (mutant: what is resolved already is resolved again)
Enter_NoSeen(n, callers) ==
    /\ UNCHANGED seen
    /\ \/ n \in OnStack /\ result' = "circular" /\ UNCHANGED frames
       \/ /\ n \notin OnStack /\ Known(n)
          /\ frames' = Append(callers, [name |-> n, left |-> DependsOf(n)])
          /\ UNCHANGED result
       \/ n \notin OnStack /\ ~Known(n) /\ result' = "not found" /\ UNCHANGED frames

\* (mutant: names never leave the stack)
Enter_StackKeeps(n, callers) ==
    /\ UNCHANGED seen
    /\ \/ n \in seen \cup OnStack /\ result' = "circular" /\ UNCHANGED frames
       \/ /\ n \notin seen \cup OnStack /\ Known(n)
          /\ frames' = Append(callers, [name |-> n, left |-> DependsOf(n)])
          /\ UNCHANGED result
       \/ n \notin seen \cup OnStack /\ ~Known(n) /\ result' = "not found" /\ UNCHANGED frames

\* (mutant: the frame holds names where dependencies belong)
Enter_Names(n, callers) ==
    /\ UNCHANGED <<seen, result>>
    /\ \/ n \in seen /\ frames' = callers
       \/ /\ n \notin seen \cup OnStack /\ Known(n)
          /\ frames' = Append(callers, [name |-> n, left |-> {Needs[d] : d \in DependsOf(n)}])

\* resolve_package_local called for n.
Enter(n, callers) ==
    /\ UNCHANGED seen
    /\ \/ n \in seen /\ frames' = callers /\ UNCHANGED result
       \/ n \notin seen /\ n \in OnStack /\ result' = "circular" /\ UNCHANGED frames
       \/ /\ n \notin seen \cup OnStack /\ Known(n)
          /\ frames' = Append(callers, [name |-> n, left |-> DependsOf(n)])
          /\ UNCHANGED result
       \/ n \notin seen \cup OnStack /\ ~Known(n) /\ result' = "not found" /\ UNCHANGED frames

\* The loop of resolve_with_local.
Request ==
    /\ result = "running" /\ frames = <<>>
    /\ \E n \in todo : Enter(n, <<>>) /\ todo' = todo \ {n}
    /\ UNCHANGED <<world, resolved>>

Finish ==
    /\ result = "running" /\ frames = <<>> /\ todo = {}
    /\ result' = "ok"
    /\ UNCHANGED <<world, todo, frames, seen, resolved>>

\* The loop of resolve_package_local, for its next dependency.
Advanced(d) == [frames EXCEPT ![Len(frames)].left = @ \ {d}]

SkipMet ==
    /\ result = "running" /\ frames # <<>>
    /\ \E d \in Top.left : Met(d) /\ frames' = Advanced(d)
    /\ UNCHANGED <<world, todo, seen, resolved, result>>

Descend ==
    /\ result = "running" /\ frames # <<>>
    /\ \E d \in Top.left : ~Met(d) /\ \E n \in Targets(d) : Enter(n, Advanced(d))
    /\ UNCHANGED <<world, todo, resolved>>

Unresolved ==
    /\ result = "running" /\ frames # <<>>
    /\ \E d \in Top.left : ~Met(d) /\ Targets(d) = {}
    /\ result' = "unresolved"
    /\ UNCHANGED <<world, todo, frames, seen, resolved>>

\* All dependencies are resolved: so is the package.
Return ==
    /\ result = "running" /\ frames # <<>> /\ Top.left = {}
    /\ frames' = SubSeq(frames, 1, Len(frames) - 1)
    /\ seen' = seen \cup {Top.name}
    /\ resolved' = Append(resolved, Top.name)
    /\ UNCHANGED <<world, todo, result>>

Next == Request \/ Finish \/ SkipMet \/ Descend \/ Unresolved \/ Return

Spec == Init /\ [][Next]_vars
FairSpec == Spec /\ WF_vars(Next)

-----------------------------------------------------------------------------
(* Properties                                                              *)

\* "Returns the packages in installation order (dependencies first)": at any
\* time, whatever a package in the order depends on is installed and good
\* enough, or one of the packages it resolves to stands before it.
DependenciesFirst ==
    \A i \in DOMAIN resolved : \A d \in DependsOf(resolved[i]) :
        Met(d) \/ \E j \in 1..(i - 1) : resolved[j] \in Targets(d)

\* No package is ordered twice.
OrderedOnce ==
    \A i, j \in DOMAIN resolved : i # j => resolved[i] # resolved[j]

\* What is needed, directly or not, by the packages asked for.
Edges == {e \in Names \X Names : Known(e[1]) /\
            \E d \in DependsOf(e[1]) : ~Met(d) /\ e[2] \in Targets(d)}
Reached(ns) ==
    LET edges == Edges
        closed == {S \in SUBSET Names : /\ ns \subseteq S
                                        /\ \A e \in edges : e[1] \in S => e[2] \in S}
    IN  {n \in Names : \A S \in closed : n \in S}

\* The order has all that was asked for and nothing that nobody needs.
OrderIsExact ==
    result = "ok" =>
        LET order == {resolved[i] : i \in DOMAIN resolved}
        IN  world.request \subseteq order /\ order \subseteq Reached(world.request)

\* An error is reported only for a reason the packages asked for reach: a
\* cycle that really is one, a dependency that really cannot be met.
ErrorsAreReal ==
    /\ result = "circular" =>
         \E n \in Reached(world.request) : n \in Reached({m \in Names : <<n, m>> \in Edges})
    /\ result = "unresolved" =>
         \E n \in Reached(world.request) : Known(n) /\
             \E d \in DependsOf(n) : ~Met(d) /\ Targets(d) = {}
    /\ result = "not found" => \E n \in Reached(world.request) : ~Known(n)

\* What the search answers is right.
SearchIsExact == OrderIsExact /\ ErrorsAreReal

\* The search ends: cycles do not trap it.
ResolutionEnds == <>(result # "running")
=============================================================================
