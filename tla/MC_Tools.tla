------------------------------- MODULE MC_Tools -------------------------------
(***************************************************************************)
(* The applets that handle files and text by themselves (FileTools,        *)
(* FileTrees, DiffPatch, SedScript, Find), what a session of screen         *)
(* (Screen) never does wrong, and a transfer of tftp (Tftp).                *)
(*                                                                         *)
(* The compressed formats that armybox writes or reads: xz and lzma (Lzma, *)
(* RangeCoder), bzip2, zstd (Zstd, Fse, Huffman), gzip (Inflate) and        *)
(* compress (Lzw); tar and cpio (Archives).  The languages of regular       *)
(* expressions (Regex) and awk (AwkExpr, AwkRun).                          *)
(*                                                                         *)
(* A behaviour runs one part, the others being in one initial state.       *)
(* Beyond names formats whose inputs are those that they do not bring back *)
(* (README, section 7).                                                    *)
(***************************************************************************)
EXTENDS Tftp, TLC

CONSTANT Beyond

VARIABLE running

Words(bytes, n) == UNION {[1..k -> bytes] : k \in 0..n}
Repeated(byte, n) == [i \in 1..n |-> byte]
Ramp(n) == [i \in 1..n |-> i]
Cycle(s, n) == [i \in 1..n |-> s[((i - 1) % Len(s)) + 1]]

-----------------------------------------------------------------------------
(* Files of no, one and two blocks; one command, or two of a kind.         *)

VARIABLES request, name, held, proc, callFaults, kills

P(k) == [is |-> "plain", of |-> <<k>>]
Texts == {<<>>, <<P(1)>>, <<P(1), P(2)>>}
Tool(t) == [tool |-> t, from |-> "f", to |-> "g", force |-> FALSE, backup |-> FALSE,
            keep |-> FALSE, unpack |-> FALSE]
InPlace == {[Tool(t) EXCEPT !.to = "f", !.backup = b] : t \in {"sed", "patch"}, b \in BOOLEAN}
           \cup {[Tool(t) EXCEPT !.to = "f"] : t \in {"sort", "dos2unix", "vi"}}
Copiers == {[Tool(t) EXCEPT !.to = n, !.force = b] :
              t \in {"cp", "mv", "ln"}, n \in {"f", "g"}, b \in BOOLEAN}
Streamers == {"gzip", "compress", "bzip2"}
Pack == {[Tool(t) EXCEPT !.keep = b] : t \in Streamers, b \in BOOLEAN}
        \cup {[Tool(t) EXCEPT !.force = b] : t \in {"xz", "zstd"}, b \in BOOLEAN}
Unpack == {[c EXCEPT !.unpack = TRUE] : c \in Pack}

\* Whole archives, each for some of the tools, and short ones.
Magic == [is |-> "head", of |-> <<>>]
Archives == {<<P(1)>>} \cup {<<Magic>> \o d \o t : d \in Texts,
               t \in {<<>>, <<[is |-> "end", of |-> <<>>]>>} \cup {<<[is |-> "sum", of |-> x]>> : x \in Texts}}

U == INSTANCE FileTools WITH
        MaxFaults <- 1, MaxKills <- 1, scenario <- request, data <- held, faults <- callFaults,
        Scenarios <- [commands : {<<c>> : c \in InPlace \cup Pack}, f : Texts,
                      g : {"none", "another file"}]
                     \cup [commands : {<<c>> : c \in Copiers}, f : Texts,
                           g : {"none", "another file", "the same file"}]
                     \cup [commands : {<<c>> : c \in Unpack}, g : {"none", "another file"},
                           f : Archives]
                     \cup [commands : {<<c, c>> : c \in InPlace \cup Pack \cup {x \in Copiers : x.to = "g"}},
                           f : {<<P(1), P(2)>>}, g : {"none"}]
uvars == <<request, name, held, proc, callFaults, kills>>

-----------------------------------------------------------------------------
(* A directory s with a file, a directory, and links to a file and to a     *)
(* directory elsewhere and to nothing; d is on another file system, and may *)
(* be there already.                                                        *)

VARIABLES before, there, cmd, tphase, frames, failed, tfaults, unseen, added

File(k) == [kind |-> "file", of |-> <<k>>]
Link(p) == [kind |-> "link", of |-> p]
Dir == [kind |-> "dir", of |-> <<>>]
Forests ==
    {f @@ x @@ d :
        f \in {(<<>> :> Dir) @@ (<<"o">> :> Dir) @@ (<<"o", "f">> :> File("1")) @@ (<<"s">> :> Dir)
               @@ (<<"s", "a">> :> File("2")) @@ (<<"s", "x">> :> Dir) @@ (<<"s", "x", "b">> :> File("3"))},
        x \in {<<"s", "l">> :> Link(p) : p \in {<<"o">>, <<"o", "f">>, <<"none">>, <<"s", "a">>}},
        d \in {<<>>, <<"d">> :> File("4"), (<<"d">> :> Dir) @@ (<<"d", "a">> :> File("4"))}}
TreeCommand(t) == [tool |-> t, from |-> <<"s">>, to |-> <<"d">>, force |-> FALSE,
                   noDeref |-> FALSE, noClobber |-> FALSE]
TreeCommands == {TreeCommand("mv")}
    \cup {[TreeCommand("rm") EXCEPT !.force = b] : b \in BOOLEAN}
    \cup {[TreeCommand("cp") EXCEPT !.force = b, !.noDeref = c, !.noClobber = e] :
            b \in BOOLEAN, c \in BOOLEAN, e \in BOOLEAN}

T == INSTANCE FileTrees WITH
        MaxFaults <- 1, Commands <- TreeCommands, Trees <- Forests, fs <- there, phase <- tphase, faults <- tfaults
trvars == <<before, there, cmd, tphase, frames, failed, tfaults, unseen, added>>

-----------------------------------------------------------------------------
(* Every file of up to three lines of two kinds, and longer ones whose      *)
(* lines are distinct, or so but for blanks, or repeat.                     *)

VARIABLES old, new, oldAt, newAt, changes, shift, context, reverse, indented, dphase, hunks,
          lines, moved, failedHunks

D == INSTANCE DiffPatch WITH
        Files <- UNION {[1..k -> 0..1] : k \in 0..3}
                 \cup {<<1, 2, 3, 4, 5>>, <<1, 2, 9, 3, 4, 5>>, <<2, 3, 7, 4>>, <<6, 1, 2, 3, 54, 8>>,
                       <<1, 0, 1, 0, 1, 0, 1, 2>>, <<3, 3, 1, 0, 1, 0, 1, 0, 5, 1, 2>>},
        Empty <- 0, Strange <- 99, Shifts <- 0..5, Contexts <- 1..2,
        Indented <- LAMBDA line : line + 50, Trimmed <- LAMBDA line : line % 50,
        a <- old, b <- new, i <- oldAt, j <- newAt, phase <- dphase, offset <- moved
dvars == <<old, new, oldAt, newAt, changes, shift, context, reverse, indented, dphase, hunks,
           lines, moved, failedHunks>>

-----------------------------------------------------------------------------
VARIABLES shell, manager, events, caller, backlog, pc, ours, inbox, outbox, typed, shown,
          spoken, pty, heard

S == INSTANCE Screen WITH
        Users <- {1, 2}, Detacher <- 3, MaxOutput <- 1, MaxKeys <- 2, clientFd <- caller,
        seen <- shown,
        written <- spoken, got <- heard
svars == <<shell, manager, events, caller, backlog, pc, ours, inbox, outbox, typed, shown,
           spoken, pty, heard>>

-----------------------------------------------------------------------------
(* Up to three lines, empty, of a character that the scripts look for, and   *)
(* of several; four distinct ones.                                         *)

VARIABLES idiom, sedLines, read, ps, hold, cmdAt, active, tested, queue, ending, sedOut

V == INSTANCE SedScript WITH
        Inputs <- UNION {[1..n -> {<<>>, <<1>>, <<2>>, <<2, 1, 1>>}] : n \in 0..3}
                  \cup {<<<<1>>, <<2>>, <<3>>, <<4>>>>},
        lines <- sedLines, next <- read, pc <- cmdAt, out <- sedOut
vvars == <<idiom, sedLines, read, ps, hold, cmdAt, active, tested, queue, ending, sedOut>>

-----------------------------------------------------------------------------
(* Patterns with every kind of bracket; every expression of three tests and *)
(* actions; directories that cannot be opened, that vanish, and too deep.   *)

VARIABLES search, spelled, found, expr, stack, results, ended, abort, ffaults, yphase

Node(op, of) == [op |-> op, of |-> of, arg |-> <<>>]
Pred(op, arg) == [op |-> op, of |-> <<>>, arg |-> arg]
Shown == Node("-print", <<>>)
GlobItems == {<<42>>, <<63>>, <<97>>, <<98>>, <<91, 33, 97, 93>>, <<91, 97, 45, 98, 93>>}
Globs == LET s == UNION {[1..n -> GlobItems] : n \in 0..2} \cup [1..3 -> {<<42>>, <<97>>, <<91, 33, 97, 93>>}]
         IN  s \cup {Append(x, <<91>>) : x \in s}
Tests == {Pred("named", <<<<98>>, <<42>>>>), Shown, Pred("-prune", <<>>),
          Pred("-exec", <<"true">>), Pred("-exec", <<"false">>)}
Combined(ls, rs) == {Node(op, <<p, q>>) : op \in {"-a", "-o"}, p \in ls, q \in rs}
                  \cup {Node("!", <<p>>) : p \in ls}
Combinations == LET pairs == Combined(Tests, Tests)
                IN  Combined(pairs, Tests) \cup Combined(Tests, pairs)
FDir(path) == path :> "dir"
FFile(path) == path :> "file"
Few == FDir(<<>>) @@ FDir(<<<<97>>>>) @@ FFile(<<<<97>>, <<98>>>>) @@ FFile(<<<<98>>>>)
Many == Few @@ FDir(<<<<97>>, <<91>>>>) @@ FFile(<<<<97>>, <<91>>, <<98>>>>)
Search(t, e) == [tree |-> t, expr |-> e, sealed |-> {}, depthFirst |-> FALSE, maxDepth |-> 9, faults |-> 0]
Searches ==
    {Search(FDir(<<>>) @@ FFile(<<n>>), Pred("named", x)) :
       n \in UNION {[1..k -> {97, 98}] : k \in 1..3} \cup {<<91>>, <<97, 91>>, <<91, 98>>}, x \in Globs}
    \cup {Search(Few, e) : e \in Combinations}
    \cup {[Search(Many, e) EXCEPT !.sealed = s, !.depthFirst = d, !.maxDepth = m, !.faults = 1] :
             e \in {Node("true", <<>>), Pred("-type", <<"file">>),
                    Node("-o", <<Node("-a", <<Pred("named", <<<<97>>>>), Pred("-prune", <<>>)>>), Shown>>),
                    Node("-a", <<Pred("-exec", <<"false">>), Shown>>),
                    Node("-a", <<Shown, Pred("-exec", <<"true">>)>>)},
             s \in {{}, {<<<<97>>, <<91>>>>}}, d \in BOOLEAN, m \in {0, 2, 9}}

Y == INSTANCE Find WITH
        Scenarios <- Searches,
        scenario <- search, fs <- found, out <- results, faults <- ffaults, phase <- yphase,
        status <- ended
yvars == <<search, spelled, found, expr, stack, results, ended, abort, ffaults, yphase>>

-----------------------------------------------------------------------------
(* Lzma: words of two bytes; matches at distances on both sides of every   *)
(* slot's border; runs of every kind of length; each repeat.  xz files of   *)
(* several chunks.  Slot 13, distances 97 to 128, is beyond.               *)

VARIABLES lfile, container, lphase, base, pos, enc, symbols, chunks, next, dec, out, lout, inStep

Matches == {Ramp(d) \o <<1, 2, 9, 1, 2, 3, 8, 4, 5>> :
              d \in {3, 4, 5, 7, 9, 12, 17, 25, 33, 49, 66, 90, 130}}
Runs == {Repeated(7, k) : k \in {10, 11, 12, 18, 19, 20, 275, 280}}
Repeats == {Ramp(20) \o <<5, 6, 1, 9, 10, 2, 5, 6, 3, 9, 10, 4, 15, 16, 17, 18, 1, 2, 3>>}
LzmaInputs == IF "lzma" \in Beyond THEN {Ramp(97) \o <<1, 2>>, Ramp(112) \o <<1, 2>>}
              ELSE Words({0, 1}, 8) \cup Matches \cup Runs \cup Repeats
LzmaFiles == (LzmaInputs \X {"lzma"}) \cup (Words({0, 1}, 6) \X {"xz"})
L == INSTANCE Lzma WITH
        Files <- LzmaFiles,
        ChunkSize <- 3, DictSize <- 1000, MaxTries <- 1024, NumFullDistances <- 128,
        EndPosModelIndex <- 14,
        input <- lfile, format <- container, phase <- lphase, output <- lout
lvars == <<lfile, container, lphase, base, pos, enc, symbols, chunks, next, dec, out, lout, inStep>>

-----------------------------------------------------------------------------
(* Range coder: bytes of three bits; every short sequence of coded and     *)
(* direct bits, longer ones of one probability.                            *)

VARIABLES rin, rphase, rat, low, range, cache, cacheSize, bytes, eprobs, shifts, drange, code,
          rpos, dprobs, rdecoded

CodedBits == UNION {[1..n -> {0, 1} \X (0..2)] : n \in 0..4}
             \cup UNION {[1..n -> {0, 1} \X {1}] : n \in 5..10}
R == INSTANCE RangeCoder WITH
        ByteBits <- 3, RangeBytes <- 3, ProbBits <- 4, MoveBits <- 2,
        Inputs <- CodedBits,
        input <- rin, phase <- rphase, at <- rat, pos <- rpos, decoded <- rdecoded
rvars == <<rin, rphase, rat, low, range, cache, cacheSize, bytes, eprobs, shifts, drange, code,
           rpos, dprobs, rdecoded>>

-----------------------------------------------------------------------------
(* Bzip2: eight byte values, symbols three to a group.  A block with all   *)
(* byte values is beyond.                                                  *)

VARIABLES bin, rest, bphase, data, origin, map, groups, selectors, codeLen, bblocks, bout, fits

BzipInputs == IF "bzip2" \in Beyond THEN {<<1, 0, 2, 4, 3, 5, 7, 6>>}
              ELSE Words(0..1, 8) \cup Words(5..7, 5) \cup {Repeated(3, k) : k \in {10, 16, 24, 40}}
                   \cup {[i \in 1..k |-> (i \div 2) % 7] : k \in {16, 33}}
B == INSTANCE Bzip2 WITH
        ByteCount <- 8, GroupSize <- 3, BlockSize <- 16,
        Inputs <- BzipInputs,
        input <- bin, phase <- bphase, blocks <- bblocks, output <- bout
bvars == <<bin, rest, bphase, data, origin, map, groups, selectors, codeLen, bblocks, bout, fits>>

-----------------------------------------------------------------------------
(* Zstd: words, and repeats in and out of turn; a hash with collisions.    *)
(* A repeat in a second block is beyond.                                   *)

VARIABLES zin, zphase, from, at, litStart, offsets, hashes, sequences, literals, zblocks, recent,
          zout, actual

ZstdInputs ==
    IF "zstd" \in Beyond
    THEN {<<2, 3, 4, 5, 6, 7, 8, 9, 2, 3, 4, 5, 1, 2, 2, 2, 2, 2, 2, 2, 9>>}
    ELSE Words({0, 1}, 8)
         \cup {u \o Cycle(v, 8) \o w \o Cycle(v, 5) \o Cycle(u, 6) \o x :
                 u \in {<<2>>, <<3, 0, 1>>, <<2, 5, 2, 4>>},
                 v \in {<<0, 1>>, <<1>>, <<1, 0, 2, 3>>, <<6, 7, 8, 9, 0>>},
                 w \in {<<>>, <<3>>}, x \in Words({0, 1}, 3)}
Z == INSTANCE Zstd WITH
        Inputs <- ZstdInputs, MaxBlock <- IF "zstd" \in Beyond THEN 14 ELSE 100, MinMatch <- 3,
        HashLength <- 4, Buckets <- 0..2, Hash <- LAMBDA s : (s[1] + 2 * s[2] + s[3] + s[4]) % 3,
        input <- zin, phase <- zphase, blocks <- zblocks, output <- zout
zvars == <<zin, zphase, from, at, litStart, offsets, hashes, sequences, literals, zblocks, recent,
           zout, actual>>

-----------------------------------------------------------------------------
(* Fse: one to three sequences, and sections of 16 and 40, whose tables    *)
(* have codes with less than one state.  Many rare codes are beyond.       *)

VARIABLES section, fphase, tables, fk, states, updates, written, theirs, stream, fdecoded

Numbers(ll, of, ml) == ("ll" :> ll) @@ ("of" :> of) @@ ("ml" :> ml)
FewNumbers == {Numbers(0, 4, 3), Numbers(1, 1, 4), Numbers(5, 2, 10), Numbers(2, 7, 3),
               Numbers(11, 30, 8)}
Longer(n, r) == [i \in 1..n |-> Numbers((i * i) % r, 1 + (i % 11) * (i % 3),
                                        3 + (IF i % 40 = 5 THEN i % 9 ELSE 0))]
Rare == [i \in 1..96 |-> Numbers(IF i > 90 THEN i - 90 ELSE 7 + (i % 10), 1, 3)]
Table(codes) == [i \in 0..(Len(codes) - 1) |-> codes[i + 1]]
FseSections == IF "fse" \in Beyond THEN {Rare}
               ELSE UNION {[1..n -> FewNumbers] : n \in 1..3}
                    \cup {Longer(n, r) : n \in {16, 40}, r \in {2, 12}}
F == INSTANCE Fse WITH
        Sections <- FseSections,
        Least <- ("ll" :> IF "fse" \in Beyond THEN [i \in 0..16 |-> i]
                          ELSE Table(<<0, 1, 2, 3, 4, 6, 8>>))
                 @@ ("ml" :> Table(<<3, 4, 5, 6, 8>>)),
        Extra <- ("ll" :> IF "fse" \in Beyond THEN [i \in 0..16 |-> 0]
                          ELSE Table(<<0, 0, 0, 0, 1, 1, 2>>))
                 @@ ("ml" :> Table(<<0, 0, 0, 1, 2>>)),
        MaxLog <- Numbers(5, 5, 5), ByteBits <- 8,
        phase <- fphase, k <- fk, decoded <- fdecoded
fvars == <<section, fphase, tables, fk, states, updates, written, theirs, stream, fdecoded>>

-----------------------------------------------------------------------------
(* Inflate: blocks of the three types, alone and before those of another,  *)
(* whole or without their last bytes; code lengths with every kind of run.  *)

VARIABLES gblocks, cut, gbits, offset, gphase, final, counts, lengths, tree, distances, gout

Block(type, tokens, lit, dist) == [type |-> type, tokens |-> tokens, lit |-> lit, dist |-> dist]
B1(n) == <<n>>
Scarce == (1 :> 2) @@ (97 :> 2) @@ (98 :> 3) @@ (256 :> 4) @@ (257 :> 3) @@ (269 :> 4)
Even == [s \in (0..9) \cup {256} |-> 4]
Blocks ==
    {Block(0, t, <<>>, <<>>) : t \in {<<>>, <<B1(5), B1(6)>>}}
    \cup {Block(1, t, <<>>, <<>>) :
            t \in {<<B1(0), B1(143), B1(144), B1(255)>>,
                   <<B1(7), <<258, 1>>, <<4, 200>>, <<115, 33>>>>,
                   <<B1(1), B1(2), B1(3), <<10, 3>>, <<11, 2>>, <<130, 4>>>>, <<>>}}
    \cup {Block(2, t, Scarce, (0 :> 2) @@ (1 :> 2) @@ (3 :> 2) @@ (4 :> 3)) :
            t \in {<<B1(97), B1(98), <<3, 1>>>>,
                   <<B1(1), B1(97), <<21, 2>>, B1(98), <<3, 5>>>>, <<>>}}
    \cup {Block(2, <<B1(4), B1(9), B1(0)>>, Even, d) : d \in {2 :> 1, [s \in 0..7 |-> 4]}}
Gzipped == {<<x>> : x \in Blocks}
           \cup {<<x, y>> : x \in Blocks, y \in {z \in Blocks : z.type # 1}}
G == INSTANCE Inflate WITH
        Files <- Gzipped,
        Cuts <- 0..2,
        blocks <- gblocks, bits <- gbits, phase <- gphase, output <- gout
gvars == <<gblocks, cut, gbits, offset, gphase, final, counts, lengths, tree, distances, gout>>

-----------------------------------------------------------------------------
(* Huffman: weights that make a code and weights that do not; texts that   *)
(* fill no, some and all of the four streams.                              *)

VARIABLES weights, text, streams, hphase, table, hbits, writes, left, part, hout

H == INSTANCE Huffman WITH
        Weights <- Words(0..4, 3) \cup Words({1, 5}, 2) \cup {<<1, 1, 2, 3>>, <<0, 2, 1, 1>>, <<1, 1, 1, 1>>, <<3, 0, 0, 2>>},
        Texts <- {<<>>, <<0>>, <<0, 1, 2, 1, 0>>, <<1, 0, 2, 2, 3, 3, 3, 1, 0>>, <<4, 4, 0, 4, 3>>,
                  <<2, 1, 2, 2, 2, 2>>},
        Streams <- {1, 4}, MaxBits <- 4,
        phase <- hphase, bits <- hbits, output <- hout
hvars == <<weights, text, streams, hphase, table, hbits, writes, left, part, hout>>

-----------------------------------------------------------------------------
(* Two byte values; codes of two and three bits.  The last inputs need more *)
(* codes than there are.                                                   *)

VARIABLES winput, wphase, wat, current, wcodes, wtable, wnext, wbits, wstream, woutput, wrapped, wfits

LzwInputs == Words({0, 1}, 10) \cup {<<0, 1, 0, 0, 1, 1, 0, 1, 1, 0, 0, 0, 1, 0>>}
LzwStreams == [1..8 -> {0, 1}]
W == INSTANCE Lzw WITH
        Bytes <- {0, 1}, MinBits <- 2, MaxBits <- 3, ByteBits <- 2,
        Inputs <- LzwInputs, Streams <- LzwStreams,
        input <- winput, phase <- wphase, at <- wat, codes <- wcodes, table <- wtable, next <- wnext,
        bits <- wbits, stream <- wstream, output <- woutput, fits <- wfits
wvars == <<winput, wphase, wat, current, wcodes, wtable, wnext, wbits, wstream, woutput, wrapped, wfits>>

-----------------------------------------------------------------------------
(* tar and cpio: a tree of five entries, some of which cannot be read, must  *)
(* not be extracted, or change meanwhile; data of no, one and more blocks;  *)
(* and one call that fails, in a tree without unreadable or unsafe entries. *)

VARIABLES scenario, fs, aphase, anext, entry, got, archive, restored, status, awritten, changed,
          failures, shifted, short, lost

Plain(d) == [kind |-> "file", data |-> d]
Folder == [kind |-> "dir", data |-> <<>>]
AB == <<"d", "a">>
DEB == <<"d", "e", "b">>
Trees == {(<<"d">> :> Folder) @@ (AB :> Plain(x[1])) @@ (<<"d", "e">> :> Folder)
          @@ (DEB :> Plain(x[2])) @@ (<<"f">> :> z) :
            x \in {<<<<>>, <<4, 5>>>>, <<<<1, 2, 3>>, <<4, 5, 6, 7, 8>>>>},
            z \in {Plain(<<3>>), [kind |-> "link", data |-> <<1, 1>>]}}
Archivings ==
    LET All(readOnly, unsafe, unreadable, meanwhile, failing) ==
            [tool : {"tar", "cpio"}, tree : Trees, order : {<<<<"d">>, AB, <<"d", "e">>, DEB, <<"f">>>>},
             readOnly : readOnly, unsafe : unsafe, unreadable : unreadable, changes : meanwhile,
             failing : {failing}]
        ReadOnly == {{}, {<<"d", "e">>}}
    IN  All(ReadOnly, {{}}, {{}}, {{}}, 1) \cup All({{}}, {{}}, {{}}, {{AB}}, 1)
        \cup All(ReadOnly, {{AB}}, {{}, {AB}}, {{}}, 0) \cup All(ReadOnly, {{}}, {{AB}}, {{}}, 0)
        \cup All({{}}, {{}}, {{AB}}, {{AB}}, 0) \cup All({{}}, {{}}, {{}, {AB}}, {{<<"f">>, DEB}}, 0)
A == INSTANCE Archives WITH
        BlockSize <- 2, NameSize <- LAMBDA path : 2 * Len(path), Scenarios <- Archivings,
        phase <- aphase, next <- anext, written <- awritten
avars == <<scenario, fs, aphase, anext, entry, got, archive, restored, status, awritten, changed,
           failures, shifted, short, lost>>

-----------------------------------------------------------------------------
(* Patterns with every operator: loops over groups that can be empty, loops *)
(* in loops, anchors in branches.                                          *)

VARIABLES ast, prog, rtext, begin, rmode, epos, threads, pcs, matched, ephase

Re(op, arg, of) == [op |-> op, arg |-> arg, of |-> of]
Leaf(op) == Re(op, <<>>, <<>>)
Byte(k) == Re("lit", <<k>>, <<>>)
Group(n, x) == Re("group", <<n>>, <<x>>)
Star(x) == Re("star", <<>>, <<x>>)
Cat(x, y) == Re("cat", <<>>, <<x, y>>)
Alt(x, y) == Re("alt", <<>>, <<x, y>>)
Quantifiers(x) == {Star(x), Re("plus", <<>>, <<x>>), Re("quest", <<>>, <<x>>),
                   Re("repeat", <<1, 2>>, <<x>>), Re("repeat", <<2, -1>>, <<x>>)}
Simple == {Byte(1), Star(Byte(1)), Cat(Leaf("any"), Byte(2)), Alt(Byte(1), Byte(2)),
           Alt(Byte(1), Cat(Byte(1), Byte(2))), Alt(Leaf("empty"), Byte(1)),
           Alt(Star(Byte(1)), Byte(2)), Cat(Byte(1), Re("quest", <<>>, <<Byte(2)>>))}
Looped == UNION {Quantifiers(Group(1, x)) \cup {Group(1, x)} : x \in Simple}
Patterns ==
    Simple \cup Looped
    \cup {Cat(x, y) : x \in Looped, y \in {Byte(1), Star(Leaf("any"))}}
    \cup {Alt(Cat(Leaf("start"), x), Cat(y, Leaf("end"))) :
            x \in Quantifiers(Byte(1)), y \in Quantifiers(Byte(1))}
    \cup UNION {Quantifiers(Group(1, Cat(Star(Group(2, x)), y))) :
                  x \in Simple \ {Byte(1), Alt(Byte(1), Byte(2))}, y \in {Byte(2), Star(Byte(1))}}
    \cup {Re("repeat", <<1, 2>>, <<Star(Group(1, Alt(Cat(Leaf("start"), Byte(1)),
                                                    Cat(Byte(2), Leaf("end")))))>>)}

E == INSTANCE Regex WITH
        WordBytes <- {1, 2}, Froms <- 0..1,
        Texts <- {<<>>, <<1>>, <<1, 2>>, <<2, 1>>, <<1, 2, 1>>, <<1, 2, 3, 1>>, <<2, 1, 3, 1>>},
        mode <- rmode, from <- begin, text <- rtext, pos <- epos, seen <- pcs, phase <- ephase
evars == <<ast, prog, rtext, begin, rmode, epos, threads, pcs, matched, ephase>>

-----------------------------------------------------------------------------
(* Expressions of two operators, of three with one below, and arguments.   *)

VARIABLES awkTree, inPrint, unread

N(op, of) == [op |-> op, of |-> of]
Var == N("x", <<>>)
Assignable(es) == {e \in es : e.op \in {"x", "y", "$", "[]"}}
Above(es) ==
    {N(op, <<p, q>>) : op \in {"||", "&&", "~", "<", ">", "", "+", "-", "*", "^"}, p \in es, q \in es}
    \cup {N(op, <<p>>) : op \in {"!_", "-_", "$", "[]"}, p \in es}
    \cup {N(op, <<p>>) : op \in {"++_", "_++"}, p \in Assignable(es)}
    \cup {N("=", <<p, q>>) : p \in Assignable(es), q \in es}
    \cup {N("in", <<p, N("a", <<>>)>>) : p \in es}
    \cup {N("?", <<p, q, N("y", <<>>)>>) : p \in es, q \in es}
    \cup {N("?", <<N("y", <<>>), q, p>>) : p \in es, q \in es}
Flat == {Var, N("1", <<>>)} \cup Above({Var})
Expressions == Flat \cup Above(Flat) \cup {N("f", <<p, Var>>) : p \in Flat}

X == INSTANCE AwkExpr WITH tree <- awkTree, Trees <- Expressions, read <- unread
xvars == <<awkTree, inPrint, unread>>

-----------------------------------------------------------------------------
(* Files of up to three lines: empty, a word, numbers that look alike or    *)
(* not, fields with more than one blank between; two short files.          *)

VARIABLES program, edits, files, whole, kphase, file, records, interp

AwkLines == {<<>>, <<97>>, <<49>>, <<48, 49>>, <<32, 49, 32, 32, 97>>, <<97, 120, 32, 50, 97, 32, 49>>}
AwkFiles(n) == UNION {[1..k -> AwkLines] : k \in 0..n}
AwkInputs == {<<f>> : f \in AwkFiles(2) \cup [1..3 -> {<<>>, <<97>>, <<49>>, <<97, 120, 32, 50, 97, 32, 49>>}]} \cup {<<f, g>> : f \in AwkFiles(1), g \in AwkFiles(1)}
K == INSTANCE AwkRun WITH
        Inputs <- AwkInputs,
        MaxEdits <- 2, idiom <- program, phase <- kphase
kvars == <<program, edits, files, whole, kphase, file, records, interp>>

-----------------------------------------------------------------------------
Formats == {"lzma", "range", "bzip2", "zstd", "fse", "inflate", "huffman", "lzw", "archives",
            "regex", "expr", "awk"}
Tools == {"files", "trees", "diff", "screen", "tftp", "sed", "find"}
formatvars == <<lvars, rvars, bvars, zvars, fvars, gvars, hvars, wvars, avars, evars, xvars, kvars>>
toolvars == <<uvars, trvars, dvars, svars, tvars, vvars, yvars>>

\* One input of each format that does not run; then all of the one that runs.
SomeInput ==
    /\ (IF running = "lzma" THEN TRUE ELSE lfile = <<>> /\ container = "lzma" /\ L!Init)
    /\ (IF running = "range" THEN TRUE ELSE rin = <<>> /\ R!Init)
    /\ (IF running = "bzip2" THEN TRUE ELSE bin = <<1>> /\ B!Init)
    /\ (IF running = "zstd" THEN TRUE ELSE zin = <<1>> /\ Z!Init)
    /\ (IF running = "fse" THEN TRUE ELSE section = <<Numbers(0, 4, 3)>> /\ F!Init)
    /\ (IF running = "inflate" THEN TRUE ELSE gblocks = <<Block(0, <<>>, <<>>, <<>>)>> /\ cut = 0 /\ G!Init)
    /\ (IF running = "huffman" THEN TRUE ELSE weights = <<>> /\ text = <<>> /\ streams = 1 /\ H!Init)
    /\ (IF running = "lzw" THEN TRUE ELSE winput = <<0>> /\ W!Init)
    /\ (IF running = "archives" THEN TRUE ELSE scenario = (CHOOSE x \in Archivings : TRUE) /\ A!Init)
    /\ (IF running = "regex" THEN TRUE ELSE ast = Byte(1) /\ rtext = <<>> /\ rmode = "search" /\ E!Init)
    /\ (IF running = "expr" THEN TRUE ELSE awkTree = Var /\ inPrint = FALSE /\ X!Init)
    /\ (IF running = "awk" THEN TRUE ELSE program = "edits" /\ files = <<<<<<>>>>>> /\ edits = <<>> /\ whole = TRUE /\ K!Init)
    /\ CASE running = "lzma" -> L!Init [] running = "range" -> R!Init [] running = "bzip2" -> B!Init
         [] running = "zstd" -> Z!Init [] running = "fse" -> F!Init [] running = "inflate" -> G!Init
         [] running = "huffman" -> H!Init [] running = "lzw" -> W!Init [] running = "archives" -> A!Init
         [] running = "regex" -> E!Init [] running = "expr" -> X!Init [] running = "awk" -> K!Init
         [] OTHER -> TRUE


\* The same for the tools.
SomeRequest ==
    /\ (IF running = "files" THEN TRUE ELSE request = [commands |-> <<Tool("cp")>>, f |-> <<>>, g |-> "none"] /\ U!Init)
    /\ (IF running = "trees" THEN TRUE ELSE cmd = TreeCommand("mv") /\ there = (CHOOSE f \in Forests : TRUE) /\ T!Init)
    /\ (IF running = "diff" THEN TRUE ELSE old = <<0>> /\ new = <<0>> /\ D!Init)
    /\ (IF running = "tftp" THEN TRUE ELSE mode = "get" /\ length = 1 /\ Init)
    /\ (IF running = "sed" THEN TRUE ELSE idiom = "join" /\ sedLines = <<>> /\ V!Init)
    /\ (IF running = "find" THEN TRUE ELSE search = (CHOOSE x \in Searches : TRUE) /\ spelled = FALSE /\ Y!Init)
    /\ S!ScreenInit
    /\ CASE running = "files" -> U!Init [] running = "trees" -> T!Init [] running = "diff" -> D!Init
         [] running = "tftp" -> Init [] running = "sed" -> V!Init [] running = "find" -> Y!Init
         [] OTHER -> TRUE

ToolsInit ==       \* what is in one initial state first
    IF Beyond = {}
    THEN \/ running \in Formats /\ SomeRequest /\ SomeInput
         \/ running \in Tools /\ SomeInput /\ SomeRequest
    ELSE running \in Beyond /\ SomeRequest /\ SomeInput

FormatsNext ==
    \/ /\ running = "lzma" /\ L!Next
       /\ UNCHANGED <<rvars, bvars, zvars, fvars, gvars, hvars, wvars, avars, evars, xvars, kvars>>
    \/ /\ running = "range" /\ R!Next
       /\ UNCHANGED <<lvars, bvars, zvars, fvars, gvars, hvars, wvars, avars, evars, xvars, kvars>>
    \/ /\ running = "bzip2" /\ B!Next
       /\ UNCHANGED <<lvars, rvars, zvars, fvars, gvars, hvars, wvars, avars, evars, xvars, kvars>>
    \/ /\ running = "zstd" /\ Z!Next
       /\ UNCHANGED <<lvars, rvars, bvars, fvars, gvars, hvars, wvars, avars, evars, xvars, kvars>>
    \/ /\ running = "fse" /\ F!Next
       /\ UNCHANGED <<lvars, rvars, bvars, zvars, gvars, hvars, wvars, avars, evars, xvars, kvars>>
    \/ /\ running = "inflate" /\ G!Next
       /\ UNCHANGED <<lvars, rvars, bvars, zvars, fvars, hvars, wvars, avars, evars, xvars, kvars>>
    \/ /\ running = "huffman" /\ H!Next
       /\ UNCHANGED <<lvars, rvars, bvars, zvars, fvars, gvars, wvars, avars, evars, xvars, kvars>>
    \/ /\ running = "lzw" /\ W!Next
       /\ UNCHANGED <<lvars, rvars, bvars, zvars, fvars, gvars, hvars, avars, evars, xvars, kvars>>
    \/ /\ running = "archives" /\ A!Next
       /\ UNCHANGED <<lvars, rvars, bvars, zvars, fvars, gvars, hvars, wvars, evars, xvars, kvars>>
    \/ /\ running = "regex" /\ E!Next
       /\ UNCHANGED <<lvars, rvars, bvars, zvars, fvars, gvars, hvars, wvars, avars, xvars, kvars>>
    \/ /\ running = "expr" /\ X!Next
       /\ UNCHANGED <<lvars, rvars, bvars, zvars, fvars, gvars, hvars, wvars, avars, evars, kvars>>
    \/ /\ running = "awk" /\ K!Next
       /\ UNCHANGED <<lvars, rvars, bvars, zvars, fvars, gvars, hvars, wvars, avars, evars, xvars>>

ToolsNext ==
    \/ FormatsNext /\ UNCHANGED <<running, toolvars>>
    \/ /\ UNCHANGED <<running, formatvars>>
       /\ \/ running = "files" /\ U!Next /\ UNCHANGED <<trvars, dvars, svars, tvars, vvars, yvars>>
          \/ running = "trees" /\ T!Next /\ UNCHANGED <<uvars, dvars, svars, tvars, vvars, yvars>>
          \/ running = "diff" /\ D!Next /\ UNCHANGED <<uvars, trvars, svars, tvars, vvars, yvars>>
          \/ running = "screen" /\ S!ScreenNext /\ UNCHANGED <<uvars, trvars, dvars, tvars, vvars, yvars>>
          \/ running = "tftp" /\ Next /\ UNCHANGED <<uvars, trvars, dvars, svars, vvars, yvars>>
          \/ running = "sed" /\ V!Next /\ UNCHANGED <<uvars, trvars, dvars, svars, tvars, yvars>>
          \/ running = "find" /\ Y!Next /\ UNCHANGED <<uvars, trvars, dvars, svars, tvars, vvars>>

ToolsSpec == ToolsInit /\ [][ToolsNext]_<<running, formatvars, toolvars>>

-----------------------------------------------------------------------------
\* What was compressed comes back (xz.rs:1826).
LzmaRestores == running = "lzma" => L!Restores
\* So do the bits of the range coder (xz.rs:134); encoder and decoder are in the same
\* state at the same symbol (xz.rs:703) and have the same probabilities.
XzRestores ==
    /\ LzmaRestores /\ (running = "lzma" => L!InStep)
    /\ running = "range" => R!BitsComeBack /\ R!DecoderKeepsUp

\* decompress takes back what compress wrote (compress.rs:763): every sequence has an
\* offset (compress.rs:177), the last match's first (compress.rs:206); sequences come
\* back bit for bit (compress.rs:501), by tables that agree (fse.rs:127) and in which
\* one state leads from each code to each state (compress.rs:666); and literals are
\* those another compressor wrote (huff.rs:290), by codes that fill the table
\* (huff.rs:156).
ZstdRestores ==
    /\ running = "zstd" => Z!Restores /\ Z!EverySequenceHasAnOffset /\ Z!LastOffsetFirst
    /\ running = "fse" => F!SequencesComeBack /\ F!OneSourceEach /\ F!TablesAgree
    /\ running = "huffman" => H!LiteralsComeBack /\ H!TableIsFilled

\* uncompress and bunzip2 restore what compress and bzip2 wrote (compress.rs:101,
\* bzip2.rs:94): no symbol is wider than its code, the decoder's table and next code
\* follow the encoder's, and each block ends where it should.
PackersRestore ==
    /\ running = "lzw" => W!RoundTrip /\ W!CodesFit /\ W!TableInStep
    /\ running = "bzip2" => B!Restores /\ B!SymbolsFit

\* Whole files are inflated to what they mean (gzip.rs:375); files that lack bytes are
\* not taken for whole (gzip.rs:371).  tar and cpio restore what they archived; entries
\* that cannot be made, or changed meanwhile, keep others from it as little as they can
\* (tar.rs:550), and without them status 0 means that all was restored.
UnpackersRestore ==
    /\ running = "inflate" => G!InflatesToTheText /\ G!TruncationIsNoticed
    /\ running = "archives" => A!OthersAreRestored /\ A!SuccessRestores

\* The match, with its groups, is the one of a backtracking matcher for the pattern as
\* written (regex.rs:16, 138), though each program counter is in the thread list at
\* most once (regex.rs:21); grep -x finds every match of the whole line, and what
\* grep -w finds is a word (regex.rs:772).
SearchIsBacktracking ==
    running = "regex" =>
        /\ E!ParsesAsWritten /\ E!SearchIsBacktracking /\ E!OneThreadEach
        /\ E!WholeLineIsExact /\ E!WordsAreWords

\* Well-known programs of awk write what they are known for (awk.rs:3), an expression is
\* read as the grammar nests it (awk.rs:9), and $0, NF and the fields follow each other.
AwkIsPosix ==
    /\ running = "expr" => X!ReadAsMeant
    /\ running = "awk" => K!ProgramsWork /\ K!FieldsFollowRecord

\* What was packed comes back, from every packer and to every unpacker.
ArchivesRestore == XzRestores /\ ZstdRestores /\ PackersRestore /\ UnpackersRestore

\* Patterns and programs mean what their grammars say.
LanguagesAreRead == SearchIsBacktracking /\ AwkIsPosix

\* A command that ends well made all of its file (mv.rs:28), and unpackers restore what
\* packers wrote.
SuccessIsComplete == running = "files" => U!SuccessIsComplete /\ U!UnpacksAsPacked

\* The data outlive failed calls and kills: sed -i leaves the old text or the new one
\* (sed.rs:1036) and backs it up before (sed.rs:1024), a failed mv leaves the source and
\* no tool at the target (mv.rs:236), and two commands on one file lose nothing.
FilesSurvive ==
    running = "files" =>
        /\ U!NothingIsLost /\ U!EditedAsAWhole /\ U!BackupComesFirst
        /\ U!FailedMoveLeavesNoPart /\ U!RacesLoseNothing

\* A tree that mv takes to another file system is in the source or in the copy
\* (mv.rs:192); status 0 means a complete copy (mv.rs:28) or a tree that is gone
\* (rm.rs:25); and removal stays within the tree (rm.rs:126).  find looks at each entry
\* once, a directory before what is in it or after (find_cmd.rs:156), and status 0 means
\* that it saw everything.
TreesAreWhole ==
    /\ running = "trees" =>
         T!MovedTreeIsKept /\ T!CopyIsComplete /\ T!RemovesOnlyItsOwn /\ T!RemovalIsComplete
    /\ running = "find" => Y!EveryEntryOnce /\ Y!InOrder /\ Y!SuccessMeansAll

\* What diff prints leads from the first file to the second (diff.rs:93) and keeps as
\* many lines as it can (diff.rs:79); patch makes the second file of the first, with -R
\* the other way (patch.rs:168), also when lines came in front (patch.rs:442); well-known
\* scripts of sed write what they are known for (sed.rs:3).
EditsAreAsMeant ==
    /\ running = "diff" =>
         D!ScriptIsRight /\ D!ScriptIsShortest /\ D!PatchIsTheEdit /\ D!PatchFindsItsPlace
    /\ running = "sed" => V!IdiomsWork

\* Files and trees are kept, and success is what it says, whichever tool had them.
FilesAreKept == SuccessIsComplete /\ FilesSurvive /\ TreesAreWhole

\* Attached clients of screen see gapless, disjoint parts of the output (screen.rs:575),
\* and the shell reads each user's keys in order, once, and not DETACH (screen.rs:583).
SessionsAreKept == S!OutputIsPartedOut /\ S!InputIsAsTyped
=============================================================================
