---------------------------- MODULE MC_AbpInstall ----------------------------
(***************************************************************************)
(* Package universes for AbpInstall: each run takes some of                *)
(*   a1, a2   two versions of a; a1 has f1 f2, a2 has f2 f3                *)
(*   a1r      a rebuild of a1 with the same version but f4 for f2          *)
(*   b1       has f3 (as a2 does) and the configuration file f4            *)
(*   c1       has f5, and may depend on a or conflict with b and v         *)
(*   d1       replaces and conflicts with b, provides v, has f2 f3         *)
(***************************************************************************)
EXTENDS AbpInstall, TLC

MCNameOf ==
    LET name == ("a1" :> "a") @@ ("a2" :> "a") @@ ("a1r" :> "a") @@ ("b1" :> "b") @@ ("c1" :> "c")
                @@ ("d1" :> "d")
    IN  [p \in Pkgs |-> name[p]]
MCVersionOf == [p \in Pkgs |-> IF p = "a2" THEN 2 ELSE 1]
MCFilesOf ==
    LET files == ("a1" :> {"f1", "f2"}) @@ ("a2" :> {"f2", "f3"}) @@ ("a1r" :> {"f1", "f4"})
                 @@ ("b1" :> {"f3", "f4"}) @@ ("c1" :> {"f5"}) @@ ("d1" :> {"f2", "f3"})
    IN  [p \in Pkgs |-> files[p]]
MCDirOf == [f \in Paths |-> IF f = "f4" THEN "etc" ELSE "bin"]

Only(p, ns) == [q \in Pkgs |-> IF q = p THEN ns ELSE {}]
Nothing == [p \in Pkgs |-> {}]
Depending == Only("c1", {"a"})
Providing == Only("d1", {"v"})
Replacing == Only("d1", {"b"})
Conflicting == [p \in Pkgs |-> CASE p = "c1" -> {"b", "v"} [] p = "d1" -> {"b"} [] OTHER -> {}]

Singles == {{p} : p \in Pkgs}
\* One or two packages at once; two that conflict would not be told apart.
UpToTwo ==
    LET Compatible(p, q) == ConflictsOf[p] \cap ({NameOf[q]} \cup ProvidesOf[q]) = {}
    IN  Singles \cup {{x[1], x[2]} : x \in {y \in Pkgs \X Pkgs :
            NameOf[y[1]] # NameOf[y[2]] /\ Compatible(y[1], y[2]) /\ Compatible(y[2], y[1])}}
=============================================================================
