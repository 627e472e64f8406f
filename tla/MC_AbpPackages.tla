---------------------------- MODULE MC_AbpPackages ----------------------------
(***************************************************************************)
(* The parts of abp that handle packages before and after they are on      *)
(* disk: the resolver (AbpResolver) with the versions of AbpVersion,       *)
(* payloads and their verification (AbpPayload), repositories (AbpRepo),   *)
(* the binary index (AbpPkgIndex), the transaction log (AbpTransaction)    *)
(* and the database used by a single process (AbpDatabase; MC_AbpStores    *)
(* has several).                                                           *)
(*                                                                         *)
(* A behaviour runs one part, the others being in their initial states.    *)
(***************************************************************************)
EXTENDS AbpResolver, AbpVersion, AbpPayload, AbpRepo, AbpTransaction, AbpPkgIndex, Integers, TLC

CONSTANT NoOwner   \* of AbpDatabase, whose Absent and Partial are AbpRepo's Missing and Truncated

-----------------------------------------------------------------------------
(* Every world of a small family.  Package p is local, q and r may be      *)
(* local, installed and available; v is a virtual name that r may provide. *)

CONSTANTS p, q, r, v

V1 == <<"1", ".", "9">>
V2 == <<"1", ".", "1", "0">>

\* q in any version, q >= 1.10, and the others in any version.
anyq == [name |-> q, op |-> "any", version |-> V1]
newq == [name |-> q, op |-> ">=", version |-> V2]
anyp == [name |-> p, op |-> "any", version |-> V1]
anyr == [name |-> r, op |-> "any", version |-> V1]
anyv == [name |-> v, op |-> "any", version |-> V1]
MCDeps == {anyq, newq, anyp, anyr, anyv}
MCNeeds == [d \in MCDeps |-> d.name]
MCVersions == {V1, V2}

\* Dependency::satisfied_by on these; the assumption has TLC compute it once.
MCSatisfiedBy(d, x) == d.op = "any" \/ x = V2
ASSUME MCSatisfiedByIsSatisfiedByVersion ==
    \A d \in MCDeps, x \in MCVersions :
        MCSatisfiedBy(d, x) = SatisfiedByVersion([op |-> d.op, version |-> d.version], x)

Pack(x, ds, ps) == [version |-> x, depends |-> ds, provides |-> ps]
\* The partial functions whose values come from `choices'.
Choose(choices) ==
    UNION {{f \in [ns -> UNION {choices[n] : n \in ns}] : \A n \in ns : f[n] \in choices[n]}
             : ns \in SUBSET DOMAIN choices}
Installs == Choose(p :> {Pack(V1, {anyq}, {v})}
                  @@ q :> {Pack(V1, {}, {}), Pack(V2, {anyr}, {})}
                  @@ r :> {Pack(V1, {}, {}), Pack(V1, {}, {v}), Pack(V1, {newq}, {v})})
Indexes == Choose(q :> {Pack(V2, {anyr}, {})} @@ r :> {Pack(V2, {anyq}, {})})

\* p is added, with others perhaps; or names are resolved without local packages.
MCWorlds ==
    {[request |-> DOMAIN l, local |-> l, installed |-> i, available |-> a] :
        l \in {f \in Choose(p :> SUBSET {newq, anyv}
                             @@ q :> {{}, {anyr}, {anyp}, {anyr, anyp}}
                             @@ r :> {{}, {anyv}, {anyp}}) : p \in DOMAIN f},
        i \in Installs, a \in Indexes}
    \cup {[request |-> ns, local |-> <<>>, installed |-> i, available |-> a] :
        ns \in {{q}, {q, r, v}}, i \in Installs, a \in Indexes}

-----------------------------------------------------------------------------
Plain == {<<>>, <<"1">>, <<"2">>, <<"1", "0">>, <<"9">>, <<"0", "1">>, <<"a">>, <<"b">>,
          <<"1", "a">>, <<"1", "b">>, <<"1", ".", "a">>, <<"1", ".", "b">>, <<"r", "c">>,
          <<"1", ".", "0">>, <<"1", ".", "1", "0">>, <<"1", ".", "9">>, <<"1", "_", "9">>,
          <<"1", ".", "r", "c", "1">>, <<"1", ".", "r", "c", "2">>, <<"1", "2", "3">>,
          <<"1", ".", "r", "c", ".", "1">>, <<"1", ".", "r", "c", ".", "2">>, <<".", "1">>}
Decorated == {<<"1", ":", "2">>, <<"a", ":", "2">>, <<"2", ":", "1", "-", "3">>,
              <<"1", "-", "1">>, <<"1", "-", "2">>, <<"1", "-", "r", "2">>,
              <<"1", "-", "2", "-", "1">>}
Strings == Plain \cup Decorated

\* A behaviour either resolves a world or looks at three versions.
NoWorld ==
    /\ world = [request |-> {}, local |-> <<>>, installed |-> <<>>, available |-> <<>>]
    /\ todo = {} /\ frames = <<>> /\ seen = {} /\ resolved = <<>> /\ result = "ok"
ResolverInit ==
    \/ Init /\ versions = <<>>
    \/ versions \in Strings \X Strings \X Strings /\ NoWorld

-----------------------------------------------------------------------------
VARIABLE part

-----------------------------------------------------------------------------
(* Payloads: names, and archives of one to three members.                  *)

a == <<"a">>          dotA == <<".", "a">>      absA == <<"", "a">>
inD == <<"d", "a">>   inDD == <<"d", "", "a">>  upA == <<"d", "..", "a">>
dirD == <<"d", "">>

MCComponents == STRING
One == <<[kind |-> "text", type |-> "none", name |-> <<"unset">>, size |-> -1]>>
Blk(kind, type, name, size) == <<[kind |-> kind, type |-> type, name |-> name, size |-> size]>>
Head2(type, name, size) == Blk("header", type, name, size)
Words(name, size) == Blk("text", "none", name, size)
Zero == <<ZeroBlock>>
\* A member that could be taken for one: data that looks like a header.
Sneaky == Head2("0", a, 0)
F(name, data) == Head2("0", name, Len(data)) \o data
Long(name) == Head2("L", <<"long">>, 1) \o Words(name, -1)
Pax(name, size) == Head2("x", <<"pax">>, 1) \o Words(name, size)

Members ==
    {F(x, One) : x \in {a, dotA, absA, inD, upA}}
    \cup {F(a, Sneaky), F(a, One \o One), F(inDD, <<>>), Head2("NUL", dirD, 0), Head2("5", dirD, 0),
          Head2("2", a, 0), F(<<"">>, <<>>),
          Long(inD) \o F(a, One), Pax(<<"unset">>, 1) \o Head2("0", a, 0) \o Sneaky,
          Pax(inD, -1) \o F(a, One), Head2("K", <<"link">>, 1) \o Words(inD, -1) \o F(a, One),
          Head2("g", <<"pax">>, 1) \o Words(inD, -1) \o F(a, One),
          Long(a) \o Pax(inD, 2) \o Head2("0", absA, 1) \o One \o One}
Seconds == {<<>>, Zero, F(inD, One), F(a, One \o One), Head2("5", dirD, 0),
            Zero \o F(inD, One), Head2("0", inD, 3) \o One, Long(inD)}
Payloads == {x \o y : x \in Members, y \in Seconds}

Entry(name, data) == [path |-> name, contents |-> data]
MCManifests ==
    {<<Entry(x, One)>> : x \in {a, absA, inDD, upA}}
    \cup {<<Entry(a, Sneaky)>>, <<Entry(a, One \o One)>>, <<Entry(dotA, <<>>)>>,
          <<Entry(a, One), Entry(inD, One)>>, <<Entry(inD, One), Entry(a, One \o One)>>,
          <<Entry(a, One), Entry(inDD, One)>>, <<Entry(inD, One \o One), Entry(inDD, <<>>)>>}
MCDisks == {[files |-> <<>>, dirs |-> {<<>>}],
            [files |-> (<<"d">> :> One), dirs |-> {<<>>}]}
Archives == {[payload |-> x, manifest |-> m, files |-> d.files, dirs |-> d.dirs] :
               x \in Payloads, m \in MCManifests, d \in MCDisks}
MCPackages == Archives   \* (TLC keeps the value of Archives)

-----------------------------------------------------------------------------
(* Two repositories that list one package in different versions, and two   *)
(* processes.                                                              *)

MCOffer(pack, version) == [pkg |-> pack, version |-> version]
MCOffers == "main" :> <<MCOffer("a", 1), MCOffer("b", 1)>> @@ "extra" :> <<MCOffer("b", 2)>>
MCRepos == <<"main", "extra">>

-----------------------------------------------------------------------------
(* Transactions of one or two operations over two files.                   *)

MCOperations == {[creates |-> c, removes |-> d] : c \in {<<>>, <<"f">>}, d \in {<<>>, <<"g", "f">>}}

-----------------------------------------------------------------------------
(* Indexes of up to four packages, where four is what the widths allow.    *)

IndexNames == {<<>>, <<1>>, <<2>>, <<1, 1>>, <<1, 2>>, <<2, 1>>}
Named == {<<1>>, <<2>>, <<1, 2>>, <<2, 1>>}
Lists == UNION {[1..k -> {<<m, u>> : m \in Named, u \in {<<1>>, <<>>}}] : k \in 0..3}
         \cup [1..4 -> {<<m, <<2>>>> : m \in Named}]
         \* Names and tables that do not fit.
         \cup {<<<<m, <<>>>>, <<o, <<>>>>>> : m \in {<<1, 1, 1, 1>>, <<1, 1, 1>>},
                                              o \in {<<1, 1, 2, 1>>, <<1, 1>>}}

-----------------------------------------------------------------------------
(* One process and its database; an append is complete or does not happen. *)

VARIABLES records, tmp, op, crashes

D == INSTANCE AbpDatabase WITH
        Paths <- {"/f", "/g"}, Names <- {"m", "n"}, Versions <- {1, 2}, Procs <- {"abp"},
        Absent <- Missing, Partial <- Truncated, CutsPossible <- {"nothing", "all"},
        MaxLines <- 3, MaxCrashes <- 0, disk <- records
dvars == <<records, tmp, op, crashes>>

-----------------------------------------------------------------------------
rest == <<vars, versions>>
PackagesInit ==
    /\ part \in {"resolver", "payload", "repositories", "transaction", "index", "database"}
    /\ PayloadInit /\ RepoInit /\ TransactionInit /\ IndexInit /\ D!Init
    /\ IF part = "resolver" THEN ResolverInit
       ELSE versions = <<>> /\ NoWorld

Resolve == part = "resolver" /\ Next /\ UNCHANGED versions
PackagesNext ==
    \/ Resolve /\ UNCHANGED <<part, pvars, rvars, tvars, ivars, dvars>>
    \/ part = "payload" /\ PayloadNext /\ UNCHANGED <<part, rest, rvars, tvars, ivars, dvars>>
    \/ part = "repositories" /\ RepoNext /\ UNCHANGED <<part, rest, pvars, tvars, ivars, dvars>>
    \/ part = "transaction" /\ TransactionNext /\ UNCHANGED <<part, rest, pvars, rvars, ivars, dvars>>
    \/ part = "database" /\ D!Next /\ UNCHANGED <<part, rest, pvars, rvars, tvars, ivars>>
    \/ part = "index" /\ IndexNext /\ UNCHANGED <<part, rest, pvars, rvars, tvars, dvars>>

allvars == <<part, rest, pvars, rvars, tvars, ivars, dvars>>
PackagesSpec == PackagesInit /\ [][PackagesNext]_allvars /\ WF_allvars(PackagesNext)

-----------------------------------------------------------------------------
\* The database of one process: exactly the installed packages are listed, a line
\* leaves the index only when its package or path is unregistered, register_file's
\* true means that the line is there, and a path has one owner (database.rs:443, 545).
OneProcessSuffices == D!OneProcessSuffices
=============================================================================
