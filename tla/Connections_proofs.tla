-------------------------- MODULE Connections_proofs --------------------------
(***************************************************************************)
(* What goes over connections arrives.                                     *)
(*                                                                         *)
(* Client and server of a network block device agree, and reads see what   *)
(* was acknowledged (Nbd): for any number of connections, served by        *)
(* whichever kind of server, any size of the file and any number of        *)
(* requests that are on their way at once.                                 *)
(*                                                                         *)
(* What the shell of a session of screen writes is shown once and without  *)
(* a gap, and what is typed is read once and in order (Screen): for any    *)
(* number of users that come and go, any output and any input.             *)
(***************************************************************************)
EXTENDS Nbd, Screen, SequenceTheorems, TLAPS

Requests == [kind : {"request"}, cmd : {"read", "write"}, block : Nat, handle : Nat, floor : Nat]
Data == Part("data")
Disc == Request("disconnect", 0, 0, 0)
Replies == [kind : {"reply"}, handle : Nat, error : BOOLEAN, content : Nat, cut : BOOLEAN]

Domains == /\ DOMAIN client = Conns /\ DOMAIN server = Conns /\ DOMAIN zeroes = Conns
           /\ DOMAIN export = Conns /\ DOMAIN up = Conns /\ DOMAIN down = Conns
           /\ DOMAIN waiting = Conns
Typed ==
    /\ size \in Nat /\ readOnly \in BOOLEAN /\ requests \in Nat
    /\ blocks \in [1..size -> Nat] /\ acked \in [1..size -> Nat]
    /\ Domains

-----------------------------------------------------------------------------
(* The invariant.                                                          *)

\* How far the handshake is: what was agreed on is what is on its way.
At(c, cl, sv, u, d) ==
    client[c] = cl /\ server[c] = sv /\ up[c] = u /\ down[c] = d
Info == [kind |-> "info", export |-> Export]
Exported == [kind |-> "export", export |-> Export]
Refusal(c) ==
    IF style[c] = "refuses_with_text"
    THEN <<[kind |-> "error", text |-> TRUE], Part("text")>> ELSE <<[kind |-> "error", text |-> FALSE]>>

OldServer(c) ==
    /\ Old(c)
    /\ \/ At(c, "greeting", "requests", <<>>, Greeting(c))
       \/ At(c, "ready", "requests", <<>>, <<>>) /\ export[c] = Export
NewServer(c) ==
    /\ ~Old(c)
    /\ \/ At(c, "greeting", "flags", <<>>, Greeting(c))
       \/ At(c, "go", "flags", <<Part("flags"), Part("go")>>, <<>>) /\ zeroes[c] = ~Ours(c)
       \/ At(c, "go", "options", <<Part("go")>>, <<>>) /\ zeroes[c] = ~Ours(c)
\* Our server past its options, whether or not it could open the file.
Opened == {"opening", "requests", "failed"}
OurServer(c) ==
    /\ Ours(c) /\ server[c] \in Opened
    /\ \/ At(c, "go", server[c], <<>>, <<Info, Part("ack")>>)
       \/ At(c, "go", server[c], <<>>, <<Part("ack")>>) /\ export[c] = Export
       \/ At(c, "export", server[c], <<Part("export_name")>>, <<>>)
       \/ At(c, "failed", "failed", <<Part("export_name")>>, <<>>)
OtherServer(c) ==
    /\ ~Old(c) /\ ~Ours(c) /\ zeroes[c]
    /\ \/ At(c, "go", "options", <<>>, Refusal(c))
       \/ At(c, "export", "options", <<Part("export_name")>>, <<>>)
       \/ At(c, "export", "requests", <<>>, <<Exported, Part("zeroes")>>)
       \/ At(c, "ready", "requests", <<>>, <<>>) /\ export[c] = Export
Handshaking(c) ==
    /\ waiting[c] = {}
    /\ OldServer(c) \/ NewServer(c) \/ OurServer(c) \/ OtherServer(c)

\* On the way to the server (u) are requests that wait, each write with its data,
\* and at last that the client disconnects ...
Frames(u, wait, state) ==
    /\ u \in Seq(Requests \cup {Data, Disc})
    /\ \A i \in DOMAIN u :
        \/ u[i] \in wait /\ u[i].cmd = "read"
        \/ u[i] \in wait /\ u[i].cmd = "write" /\ i + 1 \in DOMAIN u /\ u[i + 1] = Data
        \/ u[i] = Data /\ i - 1 \in DOMAIN u /\ u[i - 1] \in wait /\ u[i - 1].cmd = "write"
        \/ u[i] = Disc /\ state = "disconnected"

\* ... and on the way back (d) are replies to what is waiting, with contents no
\* older than it asked for, and of writes that were done.
Answers(r, m, file) ==
    /\ r.handle = m.handle
    /\ m.cmd = "read" /\ ~r.error /\ ~r.cut => r.content >= m.floor
    /\ m.cmd = "write" /\ ~r.error => r.content <= file[m.block]
AllAnswer(d, wait, file) ==
    /\ d \in Seq(Replies)
    /\ \A i \in DOMAIN d : \E m \in wait : Answers(d[i], m, file)

\* Each request is on its way once, there or back.
AllOnce(u, d) ==
    /\ \A i, j \in DOMAIN u : u[i] = u[j] /\ u[i] \in Requests => i = j
    /\ \A i, j \in DOMAIN d : d[i].handle = d[j].handle => i = j
    /\ \A i \in DOMAIN d, j \in DOMAIN u : u[j] \in Requests => d[i].handle # u[j].handle

Framed(c) == Frames(up[c], waiting[c], client[c])
Answered(c) == AllAnswer(down[c], waiting[c], blocks)
Once(c) == AllOnce(up[c], down[c])

\* Requests that wait have handles of their own.
Asked(c) ==
    /\ waiting[c] \subseteq Requests
    /\ \A m \in waiting[c] :
        m.handle \in 1..requests /\ m.block \in 1..size /\ m.floor <= blocks[m.block]
    /\ \A m, n \in waiting[c] : m.handle = n.handle => m = n

\* The device is in use, or was given up with nothing outstanding.
InUse(c) ==
    \/ client[c] = "ready" /\ server[c] \in Opened
    \/ /\ client[c] = "disconnected" /\ server[c] \in Opened \cup {"closed"}
       /\ waiting[c] = {} /\ (up[c] = <<>> \/ up[c] = <<Disc>>)
Serving(c) ==
    Ours(c) /\ export[c] = Export /\ InUse(c) /\ Framed(c) /\ Answered(c) /\ Asked(c) /\ Once(c)

\* What was acknowledged was written.
Acknowledged == \A b \in 1..size : acked[b] <= blocks[b]

NInv == Typed /\ Acknowledged /\ \A c \in Conns : Handshaking(c) \/ Serving(c)

-----------------------------------------------------------------------------
(* Sequences of one and of two parts.                                      *)

LEMMA One ==
    ASSUME NEW a
    PROVE  /\ Len(<<a>>) = 1 /\ <<a>> # <<>> /\ <<a>>[1] = a /\ SubSeq(<<a>>, 2, 1) = <<>>
           /\ <<>> \o <<a>> = <<a>> /\ <<a>> \o <<>> = <<a>>
<1>1. <<a>> \in Seq({a}) /\ Len(<<a>>) = 1 /\ <<a>>[1] = a /\ <<a>> # <<>>
  OBVIOUS
<1>2. SubSeq(<<a>>, 2, 1) = <<>>
  BY SubSeqEmpty
<1>3. <<>> \o <<a>> = <<a>> /\ <<a>> \o <<>> = <<a>>
  BY <1>1, ConcatEmptySeq
<1> QED BY <1>1, <1>2, <1>3

LEMMA Two ==
    ASSUME NEW a, NEW b
    PROVE  /\ Len(<<a, b>>) = 2 /\ <<a, b>> # <<>> /\ <<a, b>>[1] = a /\ <<a, b>>[2] = b
           /\ SubSeq(<<a, b>>, 3, 2) = <<>> /\ SubSeq(<<a, b>>, 2, 2) = <<b>>
           /\ <<>> \o <<a, b>> = <<a, b>> /\ <<a>> \o <<b>> = <<a, b>>
<1>1. <<a>> \in Seq({a, b}) /\ <<b>> \in Seq({a, b})
      /\ Len(<<a, b>>) = 2 /\ <<a, b>>[1] = a /\ <<a, b>>[2] = b /\ <<a, b>> # <<>>
      /\ Len(<<a>>) = 1 /\ <<a>>[1] = a
  OBVIOUS
<1>2. <<a, b>> \in Seq({a, b})
  <2>1. \A S : \A x, y \in S : <<x, y>> \in Seq(S)
    OBVIOUS
  <2> QED BY <2>1
<1>3. SubSeq(<<a, b>>, 3, 2) = <<>>
  BY SubSeqEmpty
<1>4. SubSeq(<<a, b>>, 2, 2) = <<b>>
  <2>1. Tail(<<a, b>>) = SubSeq(<<a, b>>, 2, Len(<<a, b>>))
    BY <1>1, <1>2, TailIsSubSeq
  <2>2. Tail(<<a, b>>) = <<b>>
    OBVIOUS
  <2> QED BY <1>1, <2>1, <2>2
<1>5. <<>> \o <<a, b>> = <<a, b>>
  BY <1>2, ConcatEmptySeq
<1>6. <<a>> \o <<b>> = <<a, b>>
  <2> DEFINE s == Append(<<a>>, b)
  <2>1. s = <<a>> \o <<b>>
    BY <1>1, AppendIsConcat
  <2>2. s \in Seq({a, b}) /\ Len(s) = 2 /\ s[1] = a /\ s[2] = b
    BY <1>1, AppendProperties
  <2> HIDE DEF s
  <2>3. s = <<a, b>>
    BY <1>1, <1>2, <2>2, SeqEqual
  <2> QED BY <2>1, <2>3
<1> QED BY <1>1, <1>3, <1>4, <1>5, <1>6

\* What is read is taken off the front.
LEMMA Taken ==
    ASSUME Domains, NEW c \in Conns
    PROVE  /\ Skip(c, 1) => down'[c] = SubSeq(down[c], 2, Len(down[c]))
           /\ Skip(c, 2) => down'[c] = SubSeq(down[c], 3, Len(down[c]))
           /\ Rest(c, 1) => up'[c] = SubSeq(up[c], 2, Len(up[c]))
           /\ Rest(c, 2) => up'[c] = SubSeq(up[c], 3, Len(up[c]))
<1>1. 1 + 1 = 2 /\ 2 + 1 = 3
  OBVIOUS
<1> QED BY <1>1 DEF Skip, Rest, Domains

-----------------------------------------------------------------------------
(* A step is one connection's.                                             *)

Only(c) == \A d \in Conns \ {c} :
    /\ client'[d] = client[d] /\ server'[d] = server[d] /\ zeroes'[d] = zeroes[d]
    /\ export'[d] = export[d] /\ up'[d] = up[d] /\ down'[d] = down[d]
    /\ waiting'[d] = waiting[d]
LEMMA OfOneConnection ==
    ASSUME Domains, NEW c \in Conns,
           \/ Step(c) \/ Disconnect(c)
           \/ \E cmd \in {"read", "write"}, b \in 1..size : Ask(c, cmd, b)
    PROVE  Only(c) /\ Domains' /\ UNCHANGED <<style, size, readOnly>>
<1> USE DEF Domains, Only, Served, Traffic, File, ClientGoes, ServerGoes, Send, Skip, Learn, Rest, Answer
<1>1. CASE OldHandshake(c)
  BY <1>1 DEF OldHandshake
<1>2. CASE NewHandshake(c)
  BY <1>2 DEF NewHandshake
<1>3. CASE GoInfo(c)
  BY <1>3 DEF GoInfo
<1>4. CASE GoAck(c)
  BY <1>4 DEF GoAck
<1>5. CASE GoRefused(c)
  BY <1>5 DEF GoRefused
<1>6. CASE ExportName(c)
  BY <1>6 DEF ExportName
<1>7. CASE HandshakeFails(c)
  BY <1>7 DEF HandshakeFails
<1>8. CASE ReadFlags(c)
  BY <1>8 DEF ReadFlags
<1>9. CASE OptGo(c)
  BY <1>9 DEF OptGo
<1>10. CASE OptExportName(c)
  BY <1>10 DEF OptExportName
<1>11. CASE Read(c)
  BY <1>11 DEF Read
<1>12. CASE Write(c)
  BY <1>12 DEF Write
<1>13. CASE Hangup(c)
  BY <1>13 DEF Hangup
<1>14. CASE TakeReply(c)
  BY <1>14 DEF TakeReply
<1>15. CASE Disconnect(c)
  BY <1>15 DEF Disconnect
<1>16. CASE \E cmd \in {"read", "write"}, b \in 1..size : Ask(c, cmd, b)
  BY <1>16 DEF Ask
<1>17. CASE OpenFile(c)
  BY <1>17 DEF OpenFile
<1>18. CASE OpenFails(c)
  BY <1>18 DEF OpenFails
<1>19. CASE Refuse(c)
  BY <1>19 DEF Refuse
<1> QED
  BY <1>1, <1>2, <1>3, <1>4, <1>5, <1>6, <1>7, <1>8, <1>9, <1>10, <1>11, <1>12, <1>13, <1>14,
     <1>15, <1>16, <1>17, <1>18, <1>19 DEF Step

\* What a reply answers it still answers when more was written.
LEMMA Grown ==
    ASSUME NInv, NEW m, m.block \in 1..size, NEW d \in Seq(Replies), NEW i \in DOMAIN d,
           Answers(d[i], m, blocks),
           \A b \in 1..size : blocks'[b] \in Nat /\ blocks'[b] >= blocks[b]
    PROVE  Answers(d[i], m, blocks')
<1>1. blocks[m.block] \in Nat /\ blocks'[m.block] \in Nat /\ blocks'[m.block] >= blocks[m.block]
  BY DEF NInv, Typed
<1>2. d[i] \in Replies
  BY LenProperties, ElementOfSeq
<1>3. d[i].content \in Nat
  BY <1>2 DEF Replies
<1>4. d[i].content <= blocks[m.block] => d[i].content <= blocks'[m.block]
  BY <1>1, <1>3
<1> QED BY <1>4 DEF Answers

\* What other connections do leaves a connection as it is.
LEMMA OthersKeep ==
    ASSUME NInv, NEW c, NEW d \in Conns \ {c}, Only(c), UNCHANGED <<style, size, readOnly>>,
           requests' \in Nat, requests' >= requests,
           \A b \in 1..size : blocks'[b] \in Nat /\ blocks'[b] >= blocks[b]
    PROVE  (Handshaking(d) \/ Serving(d))'
<1>1. /\ client'[d] = client[d] /\ server'[d] = server[d] /\ zeroes'[d] = zeroes[d]
      /\ export'[d] = export[d] /\ up'[d] = up[d] /\ down'[d] = down[d] /\ waiting'[d] = waiting[d]
  BY DEF Only
<1>2. Export' = Export /\ Ours(d)' = Ours(d) /\ Old(d)' = Old(d)
  BY DEF Export, Ours, Old
<1>3. CASE Handshaking(d)
  <2>1. OldServer(d)' = OldServer(d)
    BY <1>1, <1>2 DEF OldServer, At, Greeting
  <2>2. NewServer(d)' = NewServer(d)
    BY <1>1, <1>2 DEF NewServer, At, Greeting
  <2>3. OurServer(d)' = OurServer(d)
    BY <1>1, <1>2 DEF OurServer, At, Info
  <2>4. OtherServer(d)' = OtherServer(d)
    BY <1>1, <1>2 DEF OtherServer, At, Refusal, Exported
  <2> QED BY <1>1, <1>3, <2>1, <2>2, <2>3, <2>4 DEF Handshaking
<1>4. CASE Serving(d)
  <2>1. InUse(d)' /\ Framed(d)' /\ Once(d)'
    BY <1>1, <1>4 DEF Serving, InUse, Framed, Once
  <2>2. Asked(d)'
    <3>1. \A m \in waiting[d] : m.handle \in 1..requests' /\ m.floor <= blocks'[m.block]
      <4> SUFFICES ASSUME NEW m \in waiting[d]
                   PROVE  m.handle \in 1..requests' /\ m.floor <= blocks'[m.block]
        OBVIOUS
      <4>1. m.handle \in 1..requests /\ m.block \in 1..size /\ m.floor <= blocks[m.block]
            /\ m.floor \in Nat
        BY <1>4 DEF Serving, Asked, Requests
      <4>2. blocks[m.block] \in Nat /\ requests \in Nat
        BY <4>1 DEF NInv, Typed
      <4>3. blocks'[m.block] \in Nat /\ blocks'[m.block] >= blocks[m.block]
        BY <4>1
      <4> QED BY <4>1, <4>2, <4>3
    <3> QED BY <1>1, <1>4, <3>1 DEF Serving, Asked
  <2>3. Answered(d)'
    <3>1. AllAnswer(down[d], waiting[d], blocks)
      BY <1>4 DEF Serving, Answered
    <3>2. ASSUME NEW i \in DOMAIN down[d], NEW m \in waiting[d], Answers(down[d][i], m, blocks)
          PROVE  Answers(down[d][i], m, blocks')
      <4>1. m.block \in 1..size /\ down[d] \in Seq(Replies)
        BY <1>4, <3>1 DEF Serving, Asked, AllAnswer
      <4> QED BY <3>2, <4>1, Grown
    <3>3. AllAnswer(down[d], waiting[d], blocks')
      BY <3>1, <3>2 DEF AllAnswer
    <3> QED BY <1>1, <3>3 DEF Answered
  <2> QED BY <1>1, <1>2, <1>4, <2>1, <2>2, <2>3 DEF Serving
<1> QED BY <1>3, <1>4 DEF NInv

-----------------------------------------------------------------------------
(* The handshake.  Its steps are taken while Handshaking holds, the others *)
(* while Serving does.                                                     *)

LEMMA HandshakesHandshake ==
    ASSUME NInv, NEW c \in Conns,
           \/ client[c] \in {"greeting", "go", "export"}
           \/ server[c] \in {"flags", "options"}
    PROVE  Handshaking(c)
BY DEF NInv, Serving, InUse, Opened

LEMMA OldHandshakeKeeps ==
    ASSUME NInv, NEW c \in Conns, OldHandshake(c)
    PROVE  Handshaking(c)'
<1>1. client[c] = "greeting" /\ AtClient(c, "old")
  BY DEF OldHandshake
<1>2. Handshaking(c)
  BY <1>1, HandshakesHandshake
<1>3. down[c] = Greeting(c) /\ up[c] = <<>> /\ waiting[c] = {}
      /\ server[c] = IF Old(c) THEN "requests" ELSE "flags"
  BY <1>1, <1>2 DEF Handshaking, OldServer, NewServer, OurServer, OtherServer, At
<1>4. Old(c)
  <2>1. CASE ~Old(c)
    <3>1. down[c][1] = Part("new")
      BY <1>3, <2>1, One, Two DEF Greeting
    <3> QED BY <1>1, <3>1 DEF AtClient, Part
  <2> QED BY <2>1
<1>5. down[c] = <<[kind |-> "old", export |-> Export], Part("zeroes")>>
  BY <1>3, <1>4 DEF Greeting
<1>6. down'[c] = <<>>
  <2>1. down'[c] = SubSeq(down[c], 3, Len(down[c]))
    BY DEF OldHandshake, Skip, NInv, Typed, Domains
  <2> QED BY <1>5, <2>1, One, Two
<1>7. export'[c] = Export
  <2>1. down[c][1].export = Export
    BY <1>5, One, Two
  <2> QED BY <2>1 DEF OldHandshake, Learn, NInv, Typed, Domains
<1>8. client'[c] = "ready" /\ server' = server /\ up' = up /\ waiting' = waiting
  BY DEF OldHandshake, ClientGoes, Traffic, NInv, Typed, Domains
<1>9. Export' = Export /\ Old(c)'
  BY <1>4 DEF OldHandshake, Served, Export, Old
<1> QED BY <1>3, <1>4, <1>6, <1>7, <1>8, <1>9 DEF Handshaking, OldServer, At

LEMMA NewHandshakeKeeps ==
    ASSUME NInv, NEW c \in Conns, NewHandshake(c)
    PROVE  Handshaking(c)'
<1>1. client[c] = "greeting" /\ AtClient(c, "new")
  BY DEF NewHandshake
<1>2. Handshaking(c)
  BY <1>1, HandshakesHandshake
<1>3. down[c] = Greeting(c) /\ up[c] = <<>> /\ waiting[c] = {}
      /\ server[c] = IF Old(c) THEN "requests" ELSE "flags"
  BY <1>1, <1>2 DEF Handshaking, OldServer, NewServer, OurServer, OtherServer, At
<1>4. ~Old(c)
  <2>1. CASE Old(c)
    <3>1. down[c][1] = [kind |-> "old", export |-> Export]
      BY <1>3, <2>1, One, Two DEF Greeting
    <3>2. down[c][1].kind = "old"
      BY <3>1
    <3> QED BY <1>1, <3>2 DEF AtClient
  <2> QED BY <2>1
<1>5. down'[c] = <<>>
  <2>1. down'[c] = SubSeq(down[c], 2, Len(down[c]))
    BY DEF NewHandshake, Skip, NInv, Typed, Domains
  <2>2. down[c] = <<Part("new")>>
    BY <1>3, <1>4 DEF Greeting
  <2> QED BY <2>1, <2>2, One, Two
<1>6. up'[c] = <<Part("flags"), Part("go")>>
  <2>1. up'[c] = up[c] \o <<Part("flags"), Part("go")>>
    BY DEF NewHandshake, Send, NInv, Typed, Domains
  <2> QED BY <1>3, <2>1, One, Two
<1>7. client'[c] = "go" /\ zeroes'[c] = ~Ours(c) /\ server' = server /\ waiting' = waiting
  BY DEF NewHandshake, ClientGoes, Traffic, NInv, Typed, Domains
<1>8. ~Old(c)' /\ Ours(c)' = Ours(c)
  BY <1>4 DEF NewHandshake, Served, Old, Ours
<1> QED BY <1>3, <1>4, <1>5, <1>6, <1>7, <1>8 DEF Handshaking, NewServer, At

LEMMA GoInfoKeeps ==
    ASSUME NInv, NEW c \in Conns, GoInfo(c)
    PROVE  Handshaking(c)'
<1>1. client[c] = "go" /\ AtClient(c, "info")
  BY DEF GoInfo
<1>2. Handshaking(c) /\ down[c] # <<>>
  BY <1>1, HandshakesHandshake DEF AtClient
<1>3. down[c] # <<Part("ack")>> /\ down[c] # Refusal(c)
  <2>1. CASE down[c] = <<Part("ack")>>
    BY <1>1, <2>1, One, Two DEF AtClient, Part
  <2>2. CASE down[c] = Refusal(c)
    <3>1. CASE style[c] = "refuses_with_text"
      <4>1. down[c] = <<[kind |-> "error", text |-> TRUE], Part("text")>>
        BY <2>2, <3>1 DEF Refusal
      <4>2. down[c][1] = [kind |-> "error", text |-> TRUE]
        BY <4>1, Two
      <4> QED BY <1>1, <4>2 DEF AtClient
    <3>2. CASE style[c] # "refuses_with_text"
      <4>1. down[c] = <<[kind |-> "error", text |-> FALSE]>>
        BY <2>2, <3>2 DEF Refusal
      <4>2. down[c][1] = [kind |-> "error", text |-> FALSE]
        BY <4>1, One
      <4> QED BY <1>1, <4>2 DEF AtClient
    <3> QED BY <3>1, <3>2
  <2> QED BY <2>1, <2>2
<1>4. /\ Ours(c) /\ server[c] \in Opened /\ up[c] = <<>> /\ down[c] = <<Info, Part("ack")>>
      /\ waiting[c] = {}
  BY <1>1, <1>2, <1>3 DEF Handshaking, OldServer, NewServer, OurServer, OtherServer, At
<1>5. down'[c] = <<Part("ack")>>
  <2>1. down'[c] = SubSeq(down[c], 2, Len(down[c]))
    BY Taken DEF GoInfo, NInv, Typed
  <2>2. Len(<<Info, Part("ack")>>) = 2 /\ SubSeq(<<Info, Part("ack")>>, 2, 2) = <<Part("ack")>>
    BY One, Two
  <2> QED BY <1>4, <2>1, <2>2
<1>6. export'[c] = Export
  <2>1. down[c][1].export = Export
    BY <1>4, One, Two DEF Info
  <2> QED BY <2>1 DEF GoInfo, Learn, NInv, Typed, Domains
<1>7. UNCHANGED <<client, server, up, waiting>>
  BY DEF GoInfo, Traffic
<1>8. Export' = Export /\ Ours(c)'
  BY <1>4 DEF GoInfo, Served, Export, Ours
<1> QED BY <1>1, <1>4, <1>5, <1>6, <1>7, <1>8 DEF Handshaking, OurServer, At

LEMMA GoRefusedKeeps ==
    ASSUME NInv, NEW c \in Conns, GoRefused(c)
    PROVE  Handshaking(c)'
<1>1. client[c] = "go" /\ AtClient(c, "error")
  BY DEF GoRefused
<1>2. Handshaking(c) /\ down[c] # <<>>
  BY <1>1, HandshakesHandshake DEF AtClient
<1>3. down[c] # <<Part("ack")>> /\ down[c] # <<Info, Part("ack")>>
  <2>1. CASE down[c] = <<Part("ack")>>
    BY <1>1, <2>1, One, Two DEF AtClient, Part
  <2>2. CASE down[c] = <<Info, Part("ack")>>
    <3>1. down[c][1].kind = "info"
      BY <2>2, One, Two DEF Info
    <3> QED BY <1>1, <3>1 DEF AtClient
  <2> QED BY <2>1, <2>2
<1>4. ~Old(c) /\ ~Ours(c) /\ zeroes[c] /\ server[c] = "options" /\ up[c] = <<>> /\ down[c] = Refusal(c)
      /\ waiting[c] = {}
  BY <1>1, <1>2, <1>3 DEF Handshaking, OldServer, NewServer, OurServer, OtherServer, At
<1>5. down'[c] = <<>>
  <2>1. down'[c] = SubSeq(down[c], (IF down[c][1].text THEN 2 ELSE 1) + 1, Len(down[c]))
    BY DEF GoRefused, Skip, NInv, Typed, Domains
  <2>2. CASE style[c] = "refuses_with_text"
    <3>1. down[c] = <<[kind |-> "error", text |-> TRUE], Part("text")>>
      BY <1>4, <2>2 DEF Refusal
    <3>2. down[c][1].text
      BY <3>1, One, Two
    <3>3. down'[c] = SubSeq(down[c], 3, Len(down[c]))
      BY <2>1, <3>2
    <3> QED BY <3>1, <3>3, One, Two
  <2>3. CASE style[c] # "refuses_with_text"
    <3>1. down[c] = <<[kind |-> "error", text |-> FALSE]>>
      BY <1>4, <2>3 DEF Refusal
    <3>2. ~down[c][1].text
      BY <3>1, One, Two
    <3>3. down'[c] = SubSeq(down[c], 2, Len(down[c]))
      BY <2>1, <3>2
    <3> QED BY <3>1, <3>3, One, Two
  <2> QED BY <2>2, <2>3
<1>6. up'[c] = <<Part("export_name")>>
  <2>1. up'[c] = up[c] \o <<Part("export_name")>>
    BY DEF GoRefused, Send, NInv, Typed, Domains
  <2> QED BY <1>4, <2>1, One, Two
<1>7. client'[c] = "export" /\ UNCHANGED <<zeroes, server, waiting>>
  BY DEF GoRefused, ClientGoes, Traffic, NInv, Typed, Domains
<1>8. ~Old(c)' /\ ~Ours(c)'
  BY <1>4 DEF GoRefused, Served, Old, Ours
<1> QED BY <1>4, <1>5, <1>6, <1>7, <1>8 DEF Handshaking, OtherServer, At

LEMMA ExportNameKeeps ==
    ASSUME NInv, NEW c \in Conns, ExportName(c)
    PROVE  Handshaking(c)'
<1>1. client[c] = "export" /\ down[c] # <<>>
  BY DEF ExportName
<1>2. Handshaking(c)
  BY <1>1, HandshakesHandshake
<1>3. ~Old(c) /\ ~Ours(c) /\ zeroes[c] /\ server[c] = "requests" /\ up[c] = <<>>
      /\ down[c] = <<Exported, Part("zeroes")>> /\ waiting[c] = {}
  BY <1>1, <1>2 DEF Handshaking, OldServer, NewServer, OurServer, OtherServer, At
<1>4. down'[c] = <<>>
  <2>1. down'[c] = SubSeq(down[c], 3, Len(down[c]))
    BY <1>3 DEF ExportName, Skip, NInv, Typed, Domains
  <2> QED BY <1>3, <2>1, One, Two
<1>5. export'[c] = Export
  <2>1. down[c][1].export = Export /\ AtClient(c, "export")
    BY <1>1, <1>3, One, Two DEF Exported, AtClient
  <2> QED BY <2>1 DEF ExportName, Learn, NInv, Typed, Domains
<1>6. client'[c] = "ready" /\ UNCHANGED <<zeroes, server, up, waiting>>
  BY DEF ExportName, ClientGoes, Traffic, NInv, Typed, Domains
<1>7. ~Old(c)' /\ ~Ours(c)' /\ Export' = Export
  BY <1>3 DEF ExportName, Served, Old, Ours, Export
<1> QED BY <1>3, <1>4, <1>5, <1>6, <1>7 DEF Handshaking, OtherServer, At

\* The stream ends where something is due only after our server could not open an
\* empty file.
LEMMA HandshakeFailsKeeps ==
    ASSUME NInv, NEW c \in Conns, HandshakeFails(c)
    PROVE  Handshaking(c)'
<1>1. /\ client[c] \in {"greeting", "go", "export"} /\ down[c] = <<>>
      /\ server[c] \in {"closed", "failed"}
  BY DEF HandshakeFails
<1>2. Handshaking(c)
  BY <1>1, HandshakesHandshake
<1>3. <<Info, Part("ack")>> # <<>> /\ <<Part("ack")>> # <<>>
  BY One, Two
<1>4. /\ Ours(c) /\ server[c] = "failed" /\ up[c] = <<Part("export_name")>> /\ waiting[c] = {}
  BY <1>1, <1>2, <1>3 DEF Handshaking, OldServer, NewServer, OurServer, OtherServer, At, Opened
<1>5. client'[c] = "failed" /\ UNCHANGED <<server, up, down, waiting>> /\ Ours(c)'
  BY <1>4 DEF HandshakeFails, ClientGoes, Served, Ours, Traffic, NInv, Typed, Domains
<1> QED BY <1>1, <1>4, <1>5 DEF Handshaking, OurServer, At, Opened

LEMMA ReadFlagsKeeps ==
    ASSUME NInv, NEW c \in Conns, ReadFlags(c)
    PROVE  Handshaking(c)'
<1>1. server[c] = "flags" /\ AtServer(c, "flags")
  BY DEF ReadFlags
<1>2. Handshaking(c) /\ up[c] # <<>>
  BY <1>1, HandshakesHandshake DEF AtServer
<1>3. ~Old(c) /\ client[c] = "go" /\ up[c] = <<Part("flags"), Part("go")>> /\ down[c] = <<>>
      /\ zeroes[c] = ~Ours(c) /\ waiting[c] = {}
  BY <1>1, <1>2 DEF Handshaking, OldServer, NewServer, OurServer, OtherServer, At, Opened
<1>4. up'[c] = <<Part("go")>>
  <2>1. up'[c] = SubSeq(up[c], 2, Len(up[c]))
    BY Taken DEF ReadFlags, NInv, Typed
  <2>2. /\ Len(<<Part("flags"), Part("go")>>) = 2
        /\ SubSeq(<<Part("flags"), Part("go")>>, 2, 2) = <<Part("go")>>
    BY One, Two
  <2> QED BY <1>3, <2>1, <2>2
<1>5. server'[c] = "options" /\ UNCHANGED <<client, zeroes, down, waiting>>
  BY DEF ReadFlags, ServerGoes, Traffic, NInv, Typed, Domains
<1>6. ~Old(c)' /\ Ours(c)' = Ours(c)
  BY <1>3 DEF ReadFlags, Served, Old, Ours
<1> QED BY <1>3, <1>4, <1>5, <1>6 DEF Handshaking, NewServer, At

LEMMA OptGoKeeps ==
    ASSUME NInv, NEW c \in Conns, OptGo(c)
    PROVE  Handshaking(c)'
<1>1. server[c] = "options" /\ AtServer(c, "go")
  BY DEF OptGo
<1>2. Handshaking(c) /\ up[c] # <<>>
  BY <1>1, HandshakesHandshake DEF AtServer
<1>3. up[c] # <<Part("export_name")>>
  <2>1. CASE up[c] = <<Part("export_name")>>
    <3>1. up[c][1] = Part("export_name")
      BY <2>1, One
    <3>2. up[c][1].kind = "export_name"
      BY <3>1 DEF Part
    <3> QED BY <1>1, <3>2 DEF AtServer
  <2> QED BY <2>1
<1>4. ~Old(c) /\ client[c] = "go" /\ up[c] = <<Part("go")>> /\ down[c] = <<>>
      /\ zeroes[c] = ~Ours(c) /\ waiting[c] = {}
  BY <1>1, <1>2, <1>3 DEF Handshaking, OldServer, NewServer, OurServer, OtherServer, At, Opened
<1>5. up'[c] = <<>>
  <2>1. up'[c] = SubSeq(up[c], 2, Len(up[c]))
    BY Taken DEF OptGo, NInv, Typed
  <2> QED BY <1>4, <2>1, One, Two
<1>6. UNCHANGED <<client, zeroes, waiting>>
  BY DEF OptGo, Traffic
<1>7. Old(c)' = Old(c) /\ Ours(c)' = Ours(c) /\ Info' = Info /\ Refusal(c)' = Refusal(c)
  BY DEF OptGo, Served, Old, Ours, Info, Export, Refusal
<1>8. CASE Ours(c)
  <2>1. down'[c] = <<Info, Part("ack")>>
    <3>1. down'[c] = down[c] \o <<Info, Part("ack")>>
      BY <1>8 DEF OptGo, Answer, Info, NInv, Typed, Domains
    <3> QED BY <1>4, <3>1, One, Two
  <2>2. server'[c] = "opening"
    BY <1>8 DEF OptGo, ServerGoes, NInv, Typed, Domains
  <2> QED BY <1>4, <1>5, <1>6, <1>7, <1>8, <2>1, <2>2 DEF Handshaking, OurServer, At, Opened
<1>9. CASE ~Ours(c)
  <2>1. down'[c] = Refusal(c)
    <3> DEFINE text == style[c] = "refuses_with_text"
               e == [kind |-> "error", text |-> text]
    <3>1. down'[c] = down[c] \o (<<e>> \o (IF text THEN <<Part("text")>> ELSE <<>>))
      BY <1>9 DEF OptGo, Answer, NInv, Typed, Domains
    <3>2. CASE text
      <4>1. e = [kind |-> "error", text |-> TRUE]
        BY <3>2
      <4>2. <<e>> \o (IF text THEN <<Part("text")>> ELSE <<>>) = <<e, Part("text")>>
        BY <3>2, One, Two
      <4>3. down'[c] = <<>> \o <<e, Part("text")>>
        BY <1>4, <3>1, <4>2
      <4>4. down'[c] = <<e, Part("text")>>
        BY <4>3, Two
      <4> QED BY <3>2, <4>1, <4>4 DEF Refusal
    <3>3. CASE ~text
      <4>1. e = [kind |-> "error", text |-> FALSE]
        BY <3>3
      <4>2. <<e>> \o (IF text THEN <<Part("text")>> ELSE <<>>) = <<e>>
        BY <3>3, One, Two
      <4>3. down'[c] = <<e>>
        BY <1>4, <3>1, <4>2, One
      <4> QED BY <3>3, <4>1, <4>3 DEF Refusal
    <3> QED BY <3>2, <3>3
  <2>2. server' = server
    BY <1>9 DEF OptGo
  <2>3. zeroes'[c] /\ ~Old(c)' /\ ~Ours(c)'
    BY <1>4, <1>6, <1>7, <1>9
  <2> QED BY <1>1, <1>4, <1>5, <1>6, <1>7, <2>1, <2>2, <2>3 DEF Handshaking, OtherServer, At
<1> QED BY <1>8, <1>9

LEMMA OptExportNameKeeps ==
    ASSUME NInv, NEW c \in Conns, OptExportName(c)
    PROVE  Handshaking(c)'
<1>1. server[c] = "options" /\ AtServer(c, "export_name")
  BY DEF OptExportName
<1>2. Handshaking(c) /\ up[c] # <<>>
  BY <1>1, HandshakesHandshake DEF AtServer
<1>3. up[c] # <<Part("go")>>
  <2>1. CASE up[c] = <<Part("go")>>
    <3>1. up[c][1] = Part("go")
      BY <2>1, One
    <3> QED BY <1>1, <3>1 DEF AtServer, Part
  <2> QED BY <2>1
<1>4. ~Old(c) /\ ~Ours(c) /\ zeroes[c] /\ client[c] = "export" /\ up[c] = <<Part("export_name")>>
      /\ down[c] = <<>> /\ waiting[c] = {}
  BY <1>1, <1>2, <1>3 DEF Handshaking, OldServer, NewServer, OurServer, OtherServer, At, Opened
<1>5. up'[c] = <<>>
  <2>1. up'[c] = SubSeq(up[c], 2, Len(up[c]))
    BY Taken DEF OptExportName, NInv, Typed
  <2> QED BY <1>4, <2>1, One
<1>6. down'[c] = <<Exported, Part("zeroes")>>
  <2>1. down'[c] = down[c] \o (<<Exported>> \o <<Part("zeroes")>>)
    BY <1>4 DEF OptExportName, Answer, Exported, NInv, Typed, Domains
  <2>2. <<Exported>> \o <<Part("zeroes")>> = <<Exported, Part("zeroes")>>
    BY Two
  <2>3. down'[c] = <<>> \o <<Exported, Part("zeroes")>>
    BY <1>4, <2>1, <2>2
  <2> QED BY <2>3, Two
<1>7. server'[c] = "requests" /\ UNCHANGED <<client, zeroes, waiting>>
  BY <1>4 DEF OptExportName, ServerGoes, Traffic, NInv, Typed, Domains
<1>8. ~Old(c)' /\ ~Ours(c)' /\ Exported' = Exported
  BY <1>4 DEF OptExportName, Served, Old, Ours, Exported, Export
<1> QED BY <1>4, <1>5, <1>6, <1>7, <1>8 DEF Handshaking, OtherServer, At

\* The file is opened, or not, whatever the client does meanwhile.
LEMMA OpeningKeeps ==
    ASSUME NInv, NEW c \in Conns, OpenFile(c) \/ OpenFails(c)
    PROVE  (Handshaking(c) \/ Serving(c))'
<1>1. server[c] = "opening" /\ server'[c] \in Opened
  BY DEF OpenFile, OpenFails, ServerGoes, Opened, NInv, Typed, Domains
<1>2. UNCHANGED <<style, size, readOnly, client, zeroes, export, up, down, blocks, requests, waiting>>
  BY DEF OpenFile, OpenFails, Served, Traffic, File
<1>3. CASE Handshaking(c)
  <2>1. OurServer(c) /\ client[c] # "failed" /\ waiting[c] = {}
    BY <1>1, <1>3 DEF Handshaking, OldServer, NewServer, OurServer, OtherServer, At
  <2>2. OurServer(c)'
    BY <1>1, <1>2, <2>1 DEF OurServer, At, Ours, Info, Export
  <2> QED BY <1>2, <2>1, <2>2 DEF Handshaking
<1>4. CASE Serving(c)
  <2>1. Framed(c)' /\ Answered(c)' /\ Asked(c)' /\ Once(c)'
    BY <1>2, <1>4 DEF Serving, Framed, Answered, Asked, Once
  <2>2. Ours(c)' /\ export'[c] = Export' /\ InUse(c)'
    BY <1>1, <1>2, <1>4 DEF Serving, InUse, Ours, Export
  <2> QED BY <2>1, <2>2 DEF Serving
<1> QED BY <1>3, <1>4 DEF NInv

\* The device is ready when our server's answer was not of size 0.
LEMMA GoAckKeeps ==
    ASSUME NInv, NEW c \in Conns, GoAck(c)
    PROVE  (Handshaking(c) \/ Serving(c))'
<1>1. client[c] = "go" /\ AtClient(c, "ack")
  BY DEF GoAck
<1>2. Handshaking(c) /\ down[c] # <<>>
  BY <1>1, HandshakesHandshake DEF AtClient
<1>3. down[c] # <<Info, Part("ack")>> /\ down[c] # Refusal(c)
  <2>1. CASE down[c] = <<Info, Part("ack")>>
    <3>1. down[c][1].kind = "info"
      BY <2>1, One, Two DEF Info
    <3> QED BY <1>1, <3>1 DEF AtClient
  <2>2. CASE down[c] = Refusal(c)
    <3>1. CASE style[c] = "refuses_with_text"
      <4>1. down[c] = <<[kind |-> "error", text |-> TRUE], Part("text")>>
        BY <2>2, <3>1 DEF Refusal
      <4>2. down[c][1] = [kind |-> "error", text |-> TRUE]
        BY <4>1, Two
      <4> QED BY <1>1, <4>2 DEF AtClient
    <3>2. CASE style[c] # "refuses_with_text"
      <4>1. down[c] = <<[kind |-> "error", text |-> FALSE]>>
        BY <2>2, <3>2 DEF Refusal
      <4>2. down[c][1] = [kind |-> "error", text |-> FALSE]
        BY <4>1, One
      <4> QED BY <1>1, <4>2 DEF AtClient
    <3> QED BY <3>1, <3>2
  <2> QED BY <2>1, <2>2
<1>4. Ours(c) /\ server[c] \in Opened /\ up[c] = <<>> /\ down[c] = <<Part("ack")>>
      /\ export[c] = Export /\ waiting[c] = {}
  BY <1>1, <1>2, <1>3 DEF Handshaking, OldServer, NewServer, OurServer, OtherServer, At
<1>5. down'[c] = <<>>
  <2>1. down'[c] = SubSeq(down[c], 2, Len(down[c]))
    BY Taken DEF GoAck, NInv, Typed
  <2> QED BY <1>4, <2>1, One, Two
<1>6. UNCHANGED <<server, export, waiting>> /\ Export' = Export /\ Ours(c)'
  BY <1>4 DEF GoAck, Traffic, Served, Export, Ours
<1>7. CASE export[c].size > 0
  <2>1. client'[c] = "ready" /\ up' = up
    BY <1>7 DEF GoAck, ClientGoes, NInv, Typed, Domains
  <2>2. \A S : <<>> \in Seq(S)
    BY EmptySeq
  <2>3. DOMAIN <<>> = {}
    OBVIOUS
  <2>4. Framed(c)' /\ Answered(c)' /\ Asked(c)' /\ Once(c)'
    BY <1>4, <1>5, <1>6, <2>1, <2>2, <2>3 DEF Framed, Answered, Asked, Once, Frames, AllAnswer, AllOnce
  <2> QED BY <1>4, <1>6, <2>1, <2>4 DEF Serving, InUse
<1>8. CASE ~(export[c].size > 0)
  <2>1. client'[c] = "export"
    BY <1>8 DEF GoAck, ClientGoes, NInv, Typed, Domains
  <2>2. up'[c] = up[c] \o <<Part("export_name")>>
    BY <1>8 DEF GoAck, Send, NInv, Typed, Domains
  <2>3. up'[c] = <<Part("export_name")>>
    BY <1>4, <2>2, One, Two
  <2> QED BY <1>4, <1>5, <1>6, <2>1, <2>3 DEF Handshaking, OurServer, At
<1> QED BY <1>7, <1>8

-----------------------------------------------------------------------------
(* Requests, on the way there and back.                                    *)

LEMMA Kinds ==
    /\ \A m \in Requests : /\ m.kind = "request" /\ m.cmd \in {"read", "write"}
                           /\ m.block \in Nat /\ m.handle \in Nat /\ m.floor \in Nat
    /\ Data.kind = "data" /\ Disc.kind = "request" /\ Disc.cmd = "disconnect"
    /\ Data \notin Requests /\ Disc \notin Requests
<1>1. \A m \in Requests : /\ m.kind = "request" /\ m.cmd \in {"read", "write"}
                          /\ m.block \in Nat /\ m.handle \in Nat /\ m.floor \in Nat
  BY DEF Requests
<1>2. Data.kind = "data" /\ Disc.kind = "request" /\ Disc.cmd = "disconnect"
  BY DEF Data, Part, Disc, Request
<1> QED BY <1>1, <1>2

\* What is left when the first k parts were read.
LEMMA Dropped ==
    ASSUME NEW S, NEW s \in Seq(S), NEW k \in 1..Len(s)
    PROVE  /\ SubSeq(s, k + 1, Len(s)) \in Seq(S)
           /\ DOMAIN SubSeq(s, k + 1, Len(s)) = 1..(Len(s) - k)
           /\ \A i \in 1..(Len(s) - k) : i + k \in DOMAIN s /\ SubSeq(s, k + 1, Len(s))[i] = s[i + k]
<1> DEFINE t == SubSeq(s, k + 1, Len(s))
<1>1. Len(s) \in Nat /\ DOMAIN s = 1..Len(s) /\ \A i \in (k + 1)..Len(s) : s[i] \in S
  BY LenProperties, ElementOfSeq
<1>2. /\ t \in Seq(S) /\ Len(t) = IF k + 1 <= Len(s) THEN Len(s) - (k + 1) + 1 ELSE 0
      /\ \A i \in 1..(Len(s) - (k + 1) + 1) : t[i] = s[(k + 1) + i - 1]
  BY <1>1, SubSeqProperties
<1> HIDE DEF t
<1>3. Len(t) = Len(s) - k
  <2>1. CASE k + 1 <= Len(s)
    <3>1. Len(t) = Len(s) - (k + 1) + 1
      BY <1>2, <2>1
    <3>2. Len(s) - (k + 1) + 1 = Len(s) - k
      BY <1>1
    <3> QED BY <3>1, <3>2
  <2>2. CASE ~(k + 1 <= Len(s))
    <3>1. Len(t) = 0
      BY <1>2, <2>2
    <3>2. \A x \in Nat : \A y \in 1..x : ~(y + 1 <= x) => x - y = 0
      OBVIOUS
    <3>3. Len(s) - k = 0
      BY <1>1, <2>2, <3>2
    <3> QED BY <3>1, <3>3
  <2> QED BY <2>1, <2>2
<1>4. ASSUME NEW i \in 1..(Len(s) - k)
      PROVE  i + k \in DOMAIN s /\ t[i] = s[i + k]
  <2>1. i \in 1..(Len(s) - (k + 1) + 1) /\ (k + 1) + i - 1 = i + k /\ i + k \in 1..Len(s)
    BY <1>1
  <2>2. t[i] = s[(k + 1) + i - 1]
    BY <1>2, <2>1
  <2> QED BY <1>1, <2>1, <2>2
<1>5. DOMAIN t = 1..(Len(s) - k)
  BY <1>2, <1>3, LenProperties
<1> QED BY <1>2, <1>4, <1>5 DEF t

\* A part more.
LEMMA Appended ==
    ASSUME NEW S, NEW s \in Seq(S), NEW e \in S
    PROVE  /\ s \o <<e>> \in Seq(S) /\ Len(s) \in Nat /\ DOMAIN s = 1..Len(s)
           /\ DOMAIN (s \o <<e>>) = 1..(Len(s) + 1)
           /\ \A i \in 1..(Len(s) + 1) : (s \o <<e>>)[i] = IF i <= Len(s) THEN s[i] ELSE e
<1>1. s \o <<e>> = Append(s, e)
  BY AppendIsConcat
<1>2. Len(s) \in Nat /\ DOMAIN s = 1..Len(s)
  BY LenProperties
<1>3. /\ Append(s, e) \in Seq(S) /\ Len(Append(s, e)) = Len(s) + 1
      /\ \A i \in 1..Len(s) : Append(s, e)[i] = s[i]
      /\ Append(s, e)[Len(s) + 1] = e
  BY AppendProperties
<1>4. DOMAIN Append(s, e) = 1..(Len(s) + 1)
  BY <1>3, LenProperties
<1> QED BY <1>1, <1>2, <1>3, <1>4

LEMMA FramesRest ==
    ASSUME NEW u, NEW wait, NEW state, Frames(u, wait, state), wait \subseteq Requests,
           NEW k \in 1..Len(u), k + 1 \in DOMAIN u => u[k + 1] # Data
    PROVE  Frames(SubSeq(u, k + 1, Len(u)), wait, state)
<1> DEFINE v == SubSeq(u, k + 1, Len(u))
           n == Len(u) - k
<1>1. u \in Seq(Requests \cup {Data, Disc}) /\ Len(u) \in Nat /\ DOMAIN u = 1..Len(u)
  BY LenProperties DEF Frames
<1>2. /\ v \in Seq(Requests \cup {Data, Disc}) /\ DOMAIN v = 1..n
      /\ \A i \in 1..n : i + k \in DOMAIN u /\ v[i] = u[i + k]
  BY <1>1, Dropped
<1> HIDE DEF v
<1>3. ASSUME NEW i \in DOMAIN v
      PROVE  \/ v[i] \in wait /\ v[i].cmd = "read"
             \/ v[i] \in wait /\ v[i].cmd = "write" /\ i + 1 \in DOMAIN v /\ v[i + 1] = Data
             \/ v[i] = Data /\ i - 1 \in DOMAIN v /\ v[i - 1] \in wait /\ v[i - 1].cmd = "write"
             \/ v[i] = Disc /\ state = "disconnected"
  <2>1. i \in 1..n /\ n \in Int /\ i + k \in DOMAIN u /\ v[i] = u[i + k]
    BY <1>1, <1>2, <1>3
  <2>2. CASE u[i + k] \in wait /\ u[i + k].cmd = "write" /\ (i + k) + 1 \in DOMAIN u /\ u[(i + k) + 1] = Data
    <3>1. i + 1 \in 1..n /\ (i + 1) + k = (i + k) + 1
      BY <1>1, <2>1, <2>2
    <3>2. v[i + 1] = u[(i + k) + 1]
      BY <1>2, <3>1
    <3> QED BY <1>2, <2>1, <2>2, <3>1, <3>2
  <2>3. CASE u[i + k] = Data /\ (i + k) - 1 \in DOMAIN u /\ u[(i + k) - 1] \in wait /\ u[(i + k) - 1].cmd = "write"
    <3>1. i # 1
      <4>1. CASE i = 1
        <5>1. i + k = k + 1
          BY <4>1
        <5> QED BY <2>1, <2>3, <5>1
      <4> QED BY <4>1
    <3>2. i - 1 \in 1..n /\ (i - 1) + k = (i + k) - 1
      BY <2>1, <3>1
    <3>3. v[i - 1] = u[(i + k) - 1]
      BY <1>2, <3>2
    <3> QED BY <1>2, <2>1, <2>3, <3>2, <3>3
  <2> QED BY <2>1, <2>2, <2>3 DEF Frames
<1> QED BY <1>2, <1>3 DEF Frames, v

\* A request that is answered is not on its way any more.
LEMMA OnceServed ==
    ASSUME NEW u, NEW d, NEW wait, NEW state, Frames(u, wait, state), AllOnce(u, d),
           \A m, n \in wait : m.handle = n.handle => m = n,
           d \in Seq(Replies), NEW k \in 1..Len(u), u[1] \in Requests, u[1] \in wait,
           NEW r \in Replies, r.handle = u[1].handle
    PROVE  AllOnce(SubSeq(u, k + 1, Len(u)), d \o <<r>>)
<1> DEFINE v == SubSeq(u, k + 1, Len(u))
           e == d \o <<r>>
           n == Len(u) - k
<1>1. u \in Seq(Requests \cup {Data, Disc}) /\ Len(u) \in Nat /\ DOMAIN u = 1..Len(u)
  BY LenProperties DEF Frames
<1>2. DOMAIN v = 1..n /\ \A i \in 1..n : i + k \in DOMAIN u /\ v[i] = u[i + k]
  BY <1>1, Dropped
<1>3. /\ Len(d) \in Nat /\ DOMAIN d = 1..Len(d) /\ DOMAIN e = 1..(Len(d) + 1)
      /\ \A i \in 1..(Len(d) + 1) : e[i] = IF i <= Len(d) THEN d[i] ELSE r
  BY Appended
<1> HIDE DEF v, e
<1>4. ASSUME NEW i \in DOMAIN v, NEW j \in DOMAIN v, v[i] = v[j], v[i] \in Requests
      PROVE  i = j
  <2>1. i + k = j + k
    BY <1>2, <1>4 DEF AllOnce
  <2> QED BY <1>1, <1>2, <2>1
<1>5. \A i \in DOMAIN d : d[i].handle # r.handle
  BY <1>1 DEF AllOnce
<1>6. ASSUME NEW i \in DOMAIN e, NEW j \in DOMAIN e, e[i].handle = e[j].handle
      PROVE  i = j
  <2>1. CASE i <= Len(d) /\ j <= Len(d)
    BY <1>3, <1>6, <2>1 DEF AllOnce
  <2>2. CASE i <= Len(d) /\ j > Len(d)
    <3>1. i \in DOMAIN d /\ e[i] = d[i] /\ e[j] = r
      BY <1>3, <2>2
    <3> QED BY <1>5, <1>6, <3>1
  <2>3. CASE i > Len(d) /\ j <= Len(d)
    <3>1. j \in DOMAIN d /\ e[j] = d[j] /\ e[i] = r
      BY <1>3, <2>3
    <3> QED BY <1>5, <1>6, <3>1
  <2>4. CASE i > Len(d) /\ j > Len(d)
    BY <1>3, <2>4
  <2> QED BY <1>3, <2>1, <2>2, <2>3, <2>4
<1>7. ASSUME NEW i \in DOMAIN e, NEW j \in DOMAIN v, v[j] \in Requests
      PROVE  e[i].handle # v[j].handle
  <2>1. j + k \in DOMAIN u /\ v[j] = u[j + k]
    BY <1>2
  <2>2. CASE i <= Len(d)
    <3>1. i \in DOMAIN d /\ e[i] = d[i]
      BY <1>3, <2>2
    <3> QED BY <1>7, <2>1, <3>1 DEF AllOnce
  <2>3. CASE i > Len(d)
    <3>1. e[i] = r
      BY <1>3, <2>3
    <3>2. u[j + k] \in wait
      BY <1>7, <2>1, Kinds DEF Frames
    <3>3. v[j].handle = r.handle => u[j + k] = u[1]
      BY <2>1, <3>2
    <3>4. u[j + k] = u[1] => j + k = 1
      BY <1>1, <1>7, <2>1 DEF AllOnce
    <3>5. j + k # 1
      BY <1>1, <1>2
    <3> QED BY <3>1, <3>3, <3>4, <3>5
  <2> QED BY <1>3, <2>2, <2>3
<1> QED BY <1>4, <1>6, <1>7 DEF AllOnce, v, e

\* The first part that a server finds, when it serves: a request that waits.
LEMMA Found ==
    ASSUME NInv, NEW c \in Conns, server[c] = "requests", AtServer(c, "request"),
           NEW cmd \in {"read", "write"}, up[c][1].cmd = cmd
    PROVE  /\ Serving(c) /\ client[c] = "ready" /\ 1 \in 1..Len(up[c]) /\ Len(up[c]) \in Nat
           /\ up[c][1] \in waiting[c] /\ up[c][1] \in Requests
           /\ cmd = "read" => (2 \in DOMAIN up[c] => up[c][2] # Data)
           /\ cmd = "write" => 2 \in 1..Len(up[c]) /\ (3 \in DOMAIN up[c] => up[c][3] # Data)
<1>1. ~Handshaking(c)
  <2>1. SUFFICES ASSUME Handshaking(c) PROVE FALSE
    OBVIOUS
  <2>2. up[c] # <<>> /\ up[c][1].kind = "request"
    BY DEF AtServer
  <2>3. up[c] = <<Part("export_name")>>
    BY <2>1, <2>2 DEF Handshaking, OldServer, NewServer, OurServer, OtherServer, At
  <2>4. up[c][1] = Part("export_name")
    BY <2>3, One
  <2> QED BY <2>2, <2>4 DEF Part
<1>2. Serving(c)
  BY <1>1 DEF NInv
<1>3. /\ up[c] \in Seq(Requests \cup {Data, Disc}) /\ waiting[c] \subseteq Requests
      /\ Frames(up[c], waiting[c], client[c])
  BY <1>2 DEF Serving, Framed, Frames, Asked
<1>4. Len(up[c]) \in Nat /\ DOMAIN up[c] = 1..Len(up[c]) /\ up[c] # <<>>
  BY <1>3, LenProperties DEF AtServer
<1>5. 1 \in 1..Len(up[c])
  <2>1. Len(up[c]) # 0
    BY <1>3, <1>4, EmptySeq
  <2> QED BY <1>4, <2>1
<1>6. up[c][1] # Data /\ up[c][1] # Disc
  BY Kinds DEF AtServer
<1>7. up[c][1] \in waiting[c] /\ up[c][1] \in Requests
  BY <1>3, <1>4, <1>5, <1>6 DEF Frames
<1>8. client[c] = "ready"
  BY <1>2, <1>7 DEF Serving, InUse
<1>9. ASSUME cmd = "read", 2 \in DOMAIN up[c], up[c][2] = Data
      PROVE  FALSE
  <2>1. 2 - 1 = 1
    OBVIOUS
  <2>2. up[c][2] \notin Requests /\ up[c][2] # Disc
    BY <1>9, Kinds
  <2>3. up[c][2 - 1].cmd = "write"
    BY <1>3, <1>9, <2>2 DEF Frames
  <2> QED BY <1>9, <2>1, <2>3
<1>10. ASSUME cmd = "write"
       PROVE  2 \in 1..Len(up[c]) /\ (3 \in DOMAIN up[c] => up[c][3] # Data)
  <2>1. 1 + 1 = 2 /\ 3 - 1 = 2
    OBVIOUS
  <2>2. 1 + 1 \in DOMAIN up[c] /\ up[c][1 + 1] = Data
    BY <1>3, <1>4, <1>5, <1>6, <1>10 DEF Frames
  <2>3. ASSUME 3 \in DOMAIN up[c], up[c][3] = Data
        PROVE  FALSE
    <3>1. up[c][3] \notin Requests /\ up[c][3] # Disc
      BY <2>3, Kinds
    <3>2. up[c][3 - 1] \in waiting[c]
      BY <1>3, <2>3, <3>1 DEF Frames
    <3> QED BY <1>3, <2>1, <2>2, <3>2, Kinds
  <2> QED BY <1>4, <2>1, <2>2, <2>3
<1> QED BY <1>2, <1>4, <1>5, <1>7, <1>8, <1>9, <1>10

\* A reply is sent for a request that is read with its data.
LEMMA ReplyKeeps ==
    ASSUME NInv, NEW c \in Conns, Serving(c), client[c] = "ready",
           NEW k \in 1..Len(up[c]), k + 1 \in DOMAIN up[c] => up[c][k + 1] # Data,
           up[c][1] \in waiting[c], up[c][1] \in Requests,
           NEW r \in Replies, Answers(r, up[c][1], blocks'),
           up'[c] = SubSeq(up[c], k + 1, Len(up[c])), down'[c] = down[c] \o <<r>>,
           \A b \in 1..size : blocks'[b] \in Nat /\ blocks'[b] >= blocks[b],
           UNCHANGED <<style, size, readOnly, client, server, export, requests, waiting>>
    PROVE  Serving(c)'
<1>1. /\ Frames(up[c], waiting[c], client[c]) /\ waiting[c] \subseteq Requests
      /\ AllAnswer(down[c], waiting[c], blocks) /\ AllOnce(up[c], down[c])
      /\ \A m, n \in waiting[c] : m.handle = n.handle => m = n
      /\ \A m \in waiting[c] :
            m.handle \in 1..requests /\ m.block \in 1..size /\ m.floor <= blocks[m.block]
  BY DEF Serving, Framed, Answered, Once, Asked
<1>2. down[c] \in Seq(Replies)
  BY <1>1 DEF AllAnswer
<1>3. Framed(c)'
  BY <1>1, FramesRest DEF Framed
<1>4. Once(c)'
  <2>1. r.handle = up[c][1].handle
    BY DEF Answers
  <2>2. AllOnce(SubSeq(up[c], k + 1, Len(up[c])), down[c] \o <<r>>)
    BY <1>1, <1>2, <2>1, OnceServed
  <2> QED BY <2>2 DEF Once
<1>5. Asked(c)'
  <2>1. ASSUME NEW m \in waiting[c]
        PROVE  m.floor <= blocks'[m.block]
    <3>1. m.block \in 1..size /\ m.floor <= blocks[m.block] /\ m.floor \in Nat
      BY <1>1, Kinds
    <3>2. blocks[m.block] \in Nat /\ blocks'[m.block] \in Nat /\ blocks'[m.block] >= blocks[m.block]
      BY <3>1 DEF NInv, Typed
    <3> QED BY <3>1, <3>2
  <2> QED BY <1>1, <2>1 DEF Asked
<1>6. Answered(c)'
  <2> DEFINE e == down[c] \o <<r>>
  <2>1. /\ Len(down[c]) \in Nat /\ DOMAIN down[c] = 1..Len(down[c]) /\ e \in Seq(Replies)
        /\ DOMAIN e = 1..(Len(down[c]) + 1)
        /\ \A i \in 1..(Len(down[c]) + 1) : e[i] = IF i <= Len(down[c]) THEN down[c][i] ELSE r
    BY <1>2, Appended
  <2> HIDE DEF e
  <2>2. ASSUME NEW i \in DOMAIN e
        PROVE  \E m \in waiting[c] : Answers(e[i], m, blocks')
    <3>1. CASE i <= Len(down[c])
      <4>1. i \in DOMAIN down[c] /\ e[i] = down[c][i]
        BY <2>1, <3>1
      <4>2. PICK m \in waiting[c] : Answers(down[c][i], m, blocks)
        BY <1>1, <4>1 DEF AllAnswer
      <4>3. Answers(down[c][i], m, blocks')
        BY <1>1, <1>2, <4>1, <4>2, Grown
      <4> QED BY <4>1, <4>3
    <3>2. CASE i > Len(down[c])
      <4>1. e[i] = r
        BY <2>1, <3>2
      <4> QED BY <4>1
    <3> QED BY <2>1, <3>1, <3>2
  <2>3. AllAnswer(e, waiting[c], blocks')
    BY <2>1, <2>2 DEF AllAnswer
  <2> QED BY <2>3 DEF Answered, e
<1>7. Ours(c)' /\ export'[c] = Export' /\ InUse(c)'
  BY <1>1 DEF Serving, InUse, Ours, Export
<1> QED BY <1>3, <1>4, <1>5, <1>6, <1>7 DEF Serving

LEMMA ReadKeeps ==
    ASSUME NInv, NEW c \in Conns, Read(c)
    PROVE  Serving(c)'
<1> DEFINE m == up[c][1]
<1>1. PICK cut \in BOOLEAN : Answer(c, <<Reply(m, FALSE, IF cut THEN 0 ELSE blocks[m.block], cut)>>)
  BY DEF Read
<1> DEFINE r == Reply(m, FALSE, IF cut THEN 0 ELSE blocks[m.block], cut)
<1>2. Due(c, "read") /\ Rest(c, 1)
      /\ UNCHANGED <<style, size, readOnly, client, server, export, requests, waiting, blocks>>
  BY DEF Read, Served, File
<1>3. /\ Serving(c) /\ client[c] = "ready" /\ 1 \in 1..Len(up[c]) /\ m \in waiting[c]
      /\ m \in Requests /\ (1 + 1 \in DOMAIN up[c] => up[c][1 + 1] # Data)
  <2>1. 1 + 1 = 2
    OBVIOUS
  <2> QED BY <1>2, <2>1, Found DEF Due
<1>4. m.block \in 1..size /\ m.handle \in Nat /\ m.floor <= blocks[m.block] /\ m.floor \in Nat
  BY <1>3, Kinds DEF Serving, Asked
<1>5. blocks[m.block] \in Nat /\ \A b \in 1..size : blocks[b] \in Nat
  BY <1>4 DEF NInv, Typed
<1>6. r.handle = m.handle /\ r.cut = cut /\ (~cut => r.content = blocks[m.block])
  BY DEF Reply
<1>7. r \in Replies
  <2>1. (IF cut THEN 0 ELSE blocks[m.block]) \in Nat
    BY <1>5
  <2> QED BY <1>4, <2>1 DEF Replies, Reply
<1>8. Answers(r, m, blocks')
  <2>1. ~r.cut => r.content >= m.floor
    BY <1>4, <1>5, <1>6
  <2>2. m.cmd = "read"
    BY <1>2 DEF Due
  <2> QED BY <1>6, <2>1, <2>2 DEF Answers
<1>9. up'[c] = SubSeq(up[c], 1 + 1, Len(up[c])) /\ down'[c] = down[c] \o <<r>>
  BY <1>1, <1>2 DEF Rest, Answer, NInv, Typed, Domains
<1>10. \A b \in 1..size : blocks'[b] \in Nat /\ blocks'[b] >= blocks[b]
  BY <1>2, <1>5
<1> HIDE DEF m, r
<1> QED BY <1>2, <1>3, <1>7, <1>8, <1>9, <1>10, ReplyKeeps DEF m

\* A write adds to one block.
LEMMA WriteWrites ==
    ASSUME NInv, NEW c \in Conns, Write(c)
    PROVE  /\ blocks' \in [1..size -> Nat]
           /\ \A b \in 1..size : blocks'[b] \in Nat /\ blocks'[b] >= blocks[b]
           /\ blocks'[up[c][1].block] = blocks[up[c][1].block] + 1
<1> DEFINE m == up[c][1]
<1>1. Due(c, "write") /\ blocks' = [blocks EXCEPT ![m.block] = @ + 1]
  BY DEF Write
<1>2. m \in waiting[c] /\ Serving(c)
  BY <1>1, Found DEF Due
<1>3. m.block \in 1..size
  BY <1>2 DEF Serving, Asked
<1>4. blocks \in [1..size -> Nat] /\ size \in Nat
  BY DEF NInv, Typed
<1> HIDE DEF m
<1>5. blocks' = [blocks EXCEPT ![m.block] = blocks[m.block] + 1]
  BY <1>1
<1>6. blocks'[m.block] = blocks[m.block] + 1 /\ \A b \in 1..size : b # m.block => blocks'[b] = blocks[b]
  BY <1>3, <1>4, <1>5
<1>7. blocks' \in [1..size -> Nat]
  BY <1>3, <1>4, <1>5
<1>8. \A b \in 1..size : blocks'[b] >= blocks[b]
  BY <1>3, <1>4, <1>6
<1> QED BY <1>6, <1>7, <1>8 DEF m

LEMMA WriteKeeps ==
    ASSUME NInv, NEW c \in Conns, Write(c)
    PROVE  Serving(c)'
<1> DEFINE m == up[c][1]
           r == Reply(m, FALSE, blocks[m.block] + 1, FALSE)
<1>1. Due(c, "write") /\ Rest(c, 2) /\ Answer(c, <<r>>)
      /\ UNCHANGED <<style, size, readOnly, client, server, export, requests, waiting>>
  BY DEF Write, Served
<1>2. /\ Serving(c) /\ client[c] = "ready" /\ 2 \in 1..Len(up[c]) /\ m \in waiting[c]
      /\ m \in Requests /\ (2 + 1 \in DOMAIN up[c] => up[c][2 + 1] # Data)
  <2>1. 2 + 1 = 3
    OBVIOUS
  <2> QED BY <1>1, <2>1, Found DEF Due
<1>3. m.block \in 1..size /\ m.handle \in Nat
  BY <1>2, Kinds DEF Serving, Asked
<1>4. blocks[m.block] \in Nat
  BY <1>3 DEF NInv, Typed
<1>5. r \in Replies
  BY <1>3, <1>4 DEF Replies, Reply
<1>6. m.cmd = "write"
  BY <1>1 DEF Due
<1>7. Answers(r, m, blocks')
  <2>1. r.handle = m.handle /\ r.content = blocks[m.block] + 1
    BY DEF Reply
  <2>2. blocks'[m.block] = blocks[m.block] + 1
    BY WriteWrites
  <2>3. blocks[m.block] + 1 <= blocks'[m.block]
    BY <1>4, <2>2
  <2>4. r.content <= blocks'[m.block]
    BY <2>1, <2>3
  <2> QED BY <1>6, <2>1, <2>4 DEF Answers
<1>8. up'[c] = SubSeq(up[c], 2 + 1, Len(up[c])) /\ down'[c] = down[c] \o <<r>>
  BY <1>1 DEF Rest, Answer, NInv, Typed, Domains
<1>9. \A b \in 1..size : blocks'[b] \in Nat /\ blocks'[b] >= blocks[b]
  BY WriteWrites
<1> HIDE DEF m, r
<1> QED BY <1>1, <1>2, <1>5, <1>7, <1>8, <1>9, ReplyKeeps DEF m

\* An error is a reply as well, and takes the data with it.
LEMMA RefuseKeeps ==
    ASSUME NInv, NEW c \in Conns, Refuse(c)
    PROVE  Serving(c)'
<1> DEFINE m == up[c][1]
           r == Reply(m, TRUE, 0, FALSE)
<1>1. /\ Due(c, "read") \/ Due(c, "write")
      /\ Rest(c, IF m.cmd = "write" THEN 2 ELSE 1) /\ Answer(c, <<r>>)
      /\ UNCHANGED <<style, size, readOnly, client, server, export, requests, waiting, blocks>>
  BY DEF Refuse, Served, File
<1>2. server[c] = "requests" /\ AtServer(c, "request") /\ m.cmd \in {"read", "write"}
  BY <1>1 DEF Due
<1>3. PICK k \in {1, 2} : k = IF m.cmd = "write" THEN 2 ELSE 1
  OBVIOUS
<1>4. /\ Serving(c) /\ client[c] = "ready" /\ k \in 1..Len(up[c]) /\ m \in waiting[c]
      /\ m \in Requests /\ (k + 1 \in DOMAIN up[c] => up[c][k + 1] # Data)
  <2>1. 1 + 1 = 2 /\ 2 + 1 = 3
    OBVIOUS
  <2>2. CASE m.cmd = "read"
    <3>1. k = 1
      BY <1>3, <2>2
    <3> QED BY <1>2, <2>1, <2>2, <3>1, Found
  <2>3. CASE m.cmd = "write"
    <3>1. k = 2
      BY <1>3, <2>3
    <3> QED BY <1>2, <2>1, <2>3, <3>1, Found
  <2> QED BY <1>2, <2>2, <2>3
<1>5. m.handle \in Nat
  BY <1>4, Kinds
<1>6. r \in Replies /\ r.handle = m.handle /\ r.error
  BY <1>5 DEF Replies, Reply
<1>7. Answers(r, m, blocks')
  BY <1>6 DEF Answers
<1>8. up'[c] = SubSeq(up[c], k + 1, Len(up[c])) /\ down'[c] = down[c] \o <<r>>
  BY <1>1, <1>3 DEF Rest, Answer, NInv, Typed, Domains
<1>9. \A b \in 1..size : blocks'[b] \in Nat /\ blocks'[b] >= blocks[b]
  BY <1>1 DEF NInv, Typed
<1> HIDE DEF m, r
<1> QED BY <1>1, <1>4, <1>6, <1>7, <1>8, <1>9, ReplyKeeps DEF m

LEMMA HangupKeeps ==
    ASSUME NInv, NEW c \in Conns, Hangup(c)
    PROVE  Serving(c)'
<1>1. server[c] = "requests" /\ Ours(c) /\ up[c] # <<>> /\ up[c][1].kind \in {"data", "request"}
      /\ (up[c][1].kind = "request" => up[c][1].cmd = "disconnect")
  BY DEF Hangup, AtServer
<1>2. ~Handshaking(c)
  <2>1. SUFFICES ASSUME Handshaking(c) PROVE FALSE
    OBVIOUS
  <2>2. up[c] = <<Part("export_name")>>
    BY <1>1, <2>1 DEF Handshaking, OldServer, NewServer, OurServer, OtherServer, At, Old, Ours
  <2>3. up[c][1] = Part("export_name")
    BY <2>2, One
  <2> QED BY <1>1, <2>3 DEF Part
<1>3. Serving(c)
  BY <1>2 DEF NInv
<1>4. Frames(up[c], waiting[c], client[c]) /\ waiting[c] \subseteq Requests
      /\ up[c] \in Seq(Requests \cup {Data, Disc})
  BY <1>3 DEF Serving, Framed, Frames, Asked
<1>5. 1 \in DOMAIN up[c] /\ 1 - 1 \notin DOMAIN up[c]
  <2>1. Len(up[c]) \in Nat /\ DOMAIN up[c] = 1..Len(up[c])
    BY <1>4, LenProperties
  <2>2. Len(up[c]) # 0
    BY <1>1, <1>4, EmptySeq
  <2> QED BY <2>1, <2>2
<1>6. up[c][1] \notin waiting[c]
  <2>1. CASE up[c][1] \in waiting[c]
    <3>1. up[c][1].kind = "request" /\ up[c][1].cmd \in {"read", "write"}
      BY <1>4, <2>1, Kinds
    <3> QED BY <1>1, <3>1
  <2> QED BY <2>1
<1>7. client[c] = "disconnected" /\ waiting[c] = {}
  <2>1. client[c] = "disconnected"
    BY <1>4, <1>5, <1>6 DEF Frames
  <2> QED BY <1>3, <2>1 DEF Serving, InUse
<1>8. server'[c] = "closed" /\ up'[c] = <<>>
  <2>1. up'[c] = SubSeq(up[c], Len(up[c]) + 1, Len(up[c]))
    BY DEF Hangup, Rest, NInv, Typed, Domains
  <2>2. SubSeq(up[c], Len(up[c]) + 1, Len(up[c])) = <<>>
    <3>1. Len(up[c]) \in Nat
      BY <1>4, LenProperties
    <3> QED BY <3>1, SubSeqEmpty
  <2>3. server'[c] = "closed"
    BY DEF Hangup, ServerGoes, NInv, Typed, Domains
  <2> QED BY <2>1, <2>2, <2>3
<1>9. UNCHANGED <<style, size, readOnly, client, export, down, blocks, requests, waiting>>
  BY DEF Hangup, Served, Traffic, File
<1>10. Framed(c)' /\ Once(c)'
  <2>1. \A S : <<>> \in Seq(S)
    BY EmptySeq
  <2>2. DOMAIN <<>> = {}
    OBVIOUS
  <2>3. Frames(<<>>, waiting[c], client[c])
    BY <2>1, <2>2 DEF Frames
  <2>4. AllOnce(<<>>, down[c])
    BY <1>3, <2>2 DEF Serving, Once, AllOnce
  <2> QED BY <1>8, <1>9, <2>3, <2>4 DEF Framed, Once
<1>11. Answered(c)' /\ Asked(c)'
  BY <1>3, <1>9 DEF Serving, Answered, Asked
<1>12. Ours(c)' /\ export'[c] = Export' /\ InUse(c)'
  BY <1>3, <1>7, <1>8, <1>9 DEF Serving, InUse, Ours, Export
<1> QED BY <1>10, <1>11, <1>12 DEF Serving

\* A reply is of exactly one request that waits.
LEMMA Matched ==
    ASSUME NInv, NEW c \in Conns, Serving(c), NEW i \in DOMAIN down[c]
    PROVE  \E m \in waiting[c] :
              /\ Answers(down[c][i], m, blocks)
              /\ m = CHOOSE x \in waiting[c] : x.handle = down[c][i].handle
<1>1. PICK m \in waiting[c] : Answers(down[c][i], m, blocks)
  BY DEF Serving, Answered, AllAnswer
<1> DEFINE h == down[c][i].handle
           n == CHOOSE x \in waiting[c] : x.handle = h
<1>2. m.handle = h
  BY <1>1 DEF Answers
<1>3. n \in waiting[c] /\ n.handle = h
  BY <1>2
<1> HIDE DEF n, h
<1>4. m = n
  BY <1>2, <1>3 DEF Serving, Asked
<1> QED BY <1>1, <1>4 DEF n, h

\* What is acknowledged was written.
LEMMA TakeReplyTakes ==
    ASSUME NInv, NEW c \in Conns, TakeReply(c)
    PROVE  /\ Serving(c) /\ client[c] = "ready" /\ down[c] # <<>> /\ 1 \in DOMAIN down[c]
           /\ \E m \in waiting[c] : /\ Answers(down[c][1], m, blocks)
                                    /\ waiting'[c] = waiting[c] \ {m}
           /\ acked' \in [1..size -> Nat] /\ \A b \in 1..size : acked'[b] <= blocks[b]
<1>1. AtClient(c, "reply") /\ waiting[c] # {} /\ down[c] # <<>>
  BY DEF TakeReply, AtClient
<1>2. Serving(c)
  BY <1>1 DEF NInv, Handshaking
<1>3. down[c] \in Seq(Replies)
  BY <1>2 DEF Serving, Answered, AllAnswer
<1>4. 1 \in DOMAIN down[c] /\ down[c][1] \in Replies
  <2>1. Len(down[c]) \in Nat /\ DOMAIN down[c] = 1..Len(down[c])
    BY <1>3, LenProperties
  <2>2. Len(down[c]) # 0
    BY <1>1, <1>3, EmptySeq
  <2> QED BY <1>3, <2>1, <2>2, ElementOfSeq
<1>5. PICK m \in waiting[c] :
         /\ Answers(down[c][1], m, blocks)
         /\ m = CHOOSE x \in waiting[c] : x.handle = down[c][1].handle
  BY <1>2, <1>4, Matched
<1>6. waiting'[c] = waiting[c] \ {m}
  BY <1>5 DEF TakeReply, NInv, Typed, Domains
<1>7. acked' = IF m.cmd = "write" /\ ~down[c][1].error /\ down[c][1].content > acked[m.block]
               THEN [acked EXCEPT ![m.block] = down[c][1].content] ELSE acked
  BY <1>5 DEF TakeReply
<1>8. client[c] = "ready"
  BY <1>1, <1>2 DEF Serving, InUse
<1>9. acked' \in [1..size -> Nat] /\ \A b \in 1..size : acked'[b] <= blocks[b]
  <2>1. acked \in [1..size -> Nat] /\ \A b \in 1..size : acked[b] <= blocks[b]
    BY DEF NInv, Typed, Acknowledged
  <2>2. m.block \in 1..size /\ down[c][1].content \in Nat
    BY <1>2, <1>4 DEF Serving, Asked, Replies
  <2>3. CASE m.cmd = "write" /\ ~down[c][1].error /\ down[c][1].content > acked[m.block]
    <3>1. acked' = [acked EXCEPT ![m.block] = down[c][1].content]
      BY <1>7, <2>3
    <3>2. down[c][1].content <= blocks[m.block]
      BY <1>5, <2>3 DEF Answers
    <3> QED BY <2>1, <2>2, <3>1, <3>2
  <2>4. CASE ~(m.cmd = "write" /\ ~down[c][1].error /\ down[c][1].content > acked[m.block])
    <3>1. acked' = acked
      BY <1>7, <2>4
    <3> QED BY <2>1, <3>1
  <2> QED BY <2>3, <2>4
<1> QED BY <1>1, <1>2, <1>4, <1>5, <1>6, <1>8, <1>9

LEMMA TakeReplyKeeps ==
    ASSUME NInv, NEW c \in Conns, TakeReply(c)
    PROVE  Serving(c)'
<1> DEFINE d == down[c]
           e == SubSeq(d, 2, Len(d))
<1>1. Serving(c) /\ client[c] = "ready" /\ d # <<>> /\ 1 \in DOMAIN d
  BY TakeReplyTakes
<1>2. PICK m \in waiting[c] : Answers(d[1], m, blocks) /\ waiting'[c] = waiting[c] \ {m}
  BY TakeReplyTakes
<1>3. down'[c] = e
  BY Taken DEF TakeReply, NInv, Typed
<1>4. UNCHANGED <<style, size, readOnly, client, server, export, up, blocks, requests>>
  BY DEF TakeReply, Served, File
<1>5. /\ Frames(up[c], waiting[c], client[c]) /\ waiting[c] \subseteq Requests
      /\ AllAnswer(d, waiting[c], blocks) /\ AllOnce(up[c], d) /\ d \in Seq(Replies)
  BY <1>1 DEF Serving, Framed, Answered, Once, Asked, AllAnswer
<1>6. /\ Len(d) \in Nat /\ DOMAIN d = 1..Len(d) /\ e \in Seq(Replies) /\ DOMAIN e = 1..(Len(d) - 1)
      /\ \A i \in 1..(Len(d) - 1) : i + 1 \in DOMAIN d /\ e[i] = d[i + 1]
  <2>1. Len(d) \in Nat /\ DOMAIN d = 1..Len(d)
    BY <1>5, LenProperties
  <2>2. 1 \in 1..Len(d)
    BY <1>1, <2>1
  <2>3. 1 + 1 = 2
    OBVIOUS
  <2> HIDE DEF d
  <2>4. /\ SubSeq(d, 1 + 1, Len(d)) \in Seq(Replies)
        /\ DOMAIN SubSeq(d, 1 + 1, Len(d)) = 1..(Len(d) - 1)
        /\ \A i \in 1..(Len(d) - 1) : i + 1 \in DOMAIN d /\ SubSeq(d, 1 + 1, Len(d))[i] = d[i + 1]
    BY <1>5, <2>2, Dropped
  <2> QED BY <2>1, <2>3, <2>4
<1> HIDE DEF e
<1>7. Once(c)'
  <2>1. ASSUME NEW i \in DOMAIN e, NEW j \in DOMAIN e, e[i].handle = e[j].handle
        PROVE  i = j
    <3>1. i + 1 \in DOMAIN d /\ j + 1 \in DOMAIN d /\ d[i + 1].handle = d[j + 1].handle
      BY <1>6, <2>1
    <3>2. i + 1 = j + 1
      BY <1>5, <3>1 DEF AllOnce
    <3> QED BY <1>6, <3>2
  <2>2. ASSUME NEW i \in DOMAIN e, NEW j \in DOMAIN up[c], up[c][j] \in Requests
        PROVE  e[i].handle # up[c][j].handle
    <3>1. i + 1 \in DOMAIN d /\ e[i] = d[i + 1]
      BY <1>6, <2>2
    <3> QED BY <1>5, <2>2, <3>1 DEF AllOnce
  <2>3. AllOnce(up[c], e)
    BY <1>5, <2>1, <2>2 DEF AllOnce
  <2> QED BY <1>3, <1>4, <2>3 DEF Once
<1>8. \A j \in DOMAIN up[c] : up[c][j] # m
  <2>1. m \in Requests /\ d[1].handle = m.handle
    BY <1>2, <1>5 DEF Answers
  <2> QED BY <1>1, <1>5, <2>1 DEF AllOnce
<1>9. Framed(c)'
  <2>1. Frames(up[c], waiting[c] \ {m}, client[c])
    BY <1>5, <1>8 DEF Frames
  <2> QED BY <1>2, <1>4, <2>1 DEF Framed
<1>10. Answered(c)'
  <2>1. ASSUME NEW i \in DOMAIN e
        PROVE  \E n \in waiting[c] \ {m} : Answers(e[i], n, blocks)
    <3>1. i + 1 \in DOMAIN d /\ e[i] = d[i + 1] /\ i + 1 # 1
      BY <1>6
    <3>2. PICK n \in waiting[c] : Answers(d[i + 1], n, blocks)
      BY <1>5, <3>1 DEF AllAnswer
    <3>3. n # m
      <4>1. d[i + 1].handle # d[1].handle
        BY <1>1, <1>5, <3>1 DEF AllOnce
      <4> QED BY <1>2, <3>2, <4>1 DEF Answers
    <3> QED BY <3>1, <3>2, <3>3
  <2>2. AllAnswer(e, waiting[c] \ {m}, blocks)
    BY <1>6, <2>1 DEF AllAnswer
  <2> QED BY <1>2, <1>3, <1>4, <2>2 DEF Answered
<1>11. Asked(c)'
  BY <1>1, <1>2, <1>4 DEF Serving, Asked
<1>12. Ours(c)' /\ export'[c] = Export' /\ InUse(c)'
  BY <1>1, <1>4 DEF Serving, InUse, Ours, Export
<1> QED BY <1>7, <1>9, <1>10, <1>11, <1>12 DEF Serving

\* The kernel asks: the request is sent, with its data, and waits.
LEMMA FramesAsk ==
    ASSUME NEW u, NEW wait, NEW state, Frames(u, wait, state), NEW m \in Requests,
           NEW more, \/ m.cmd = "read" /\ more = <<m>>
                     \/ m.cmd = "write" /\ more = <<m, Data>>
    PROVE  Frames(u \o more, wait \cup {m}, state)
<1> DEFINE S == Requests \cup {Data, Disc}
           v == u \o more
<1>1. u \in Seq(S) /\ Len(u) \in Nat /\ DOMAIN u = 1..Len(u)
  BY LenProperties DEF Frames
<1>2. /\ more \in Seq(S) /\ Len(more) \in 1..2 /\ more[1] = m
      /\ m.cmd = "write" => Len(more) = 2 /\ more[2] = Data
      /\ m.cmd = "read" => Len(more) = 1
  <2>1. \A x, y \in S : <<x>> \in Seq(S) /\ <<x, y>> \in Seq(S)
    OBVIOUS
  <2>2. m \in S /\ Data \in S
    OBVIOUS
  <2>3. CASE m.cmd = "read" /\ more = <<m>>
    BY <2>1, <2>2, <2>3, One
  <2>4. CASE m.cmd = "write" /\ more = <<m, Data>>
    BY <2>1, <2>2, <2>4, Two
  <2> QED BY <2>3, <2>4
<1>3. /\ v \in Seq(S) /\ Len(v) = Len(u) + Len(more)
      /\ \A i \in 1..(Len(u) + Len(more)) : v[i] = IF i <= Len(u) THEN u[i] ELSE more[i - Len(u)]
  BY <1>1, <1>2, ConcatProperties
<1>4. DOMAIN v = 1..(Len(u) + Len(more))
  BY <1>3, LenProperties
<1> HIDE DEF v, S
<1>5. \A i \in DOMAIN u : i \in DOMAIN v /\ v[i] = u[i]
  BY <1>1, <1>2, <1>3, <1>4
<1>6. ASSUME NEW i \in DOMAIN v
      PROVE  \/ v[i] \in wait \cup {m} /\ v[i].cmd = "read"
             \/ v[i] \in wait \cup {m} /\ v[i].cmd = "write" /\ i + 1 \in DOMAIN v /\ v[i + 1] = Data
             \/ v[i] = Data /\ i - 1 \in DOMAIN v /\ v[i - 1] \in wait \cup {m} /\ v[i - 1].cmd = "write"
             \/ v[i] = Disc /\ state = "disconnected"
  <2>1. CASE i <= Len(u)
    <3>1. i \in DOMAIN u /\ v[i] = u[i]
      BY <1>1, <1>3, <1>4, <2>1
    <3>2. i + 1 \in DOMAIN u => i + 1 \in DOMAIN v /\ v[i + 1] = u[i + 1]
      BY <1>5
    <3>3. i - 1 \in DOMAIN u => i - 1 \in DOMAIN v /\ v[i - 1] = u[i - 1]
      BY <1>5
    <3> QED BY <3>1, <3>2, <3>3 DEF Frames
  <2>2. CASE i = Len(u) + 1
    <3>1. v[i] = m
      <4>1. ~(i <= Len(u)) /\ i - Len(u) = 1
        BY <1>1, <2>2
      <4> QED BY <1>2, <1>3, <1>4, <4>1
    <3>2. ASSUME m.cmd = "write"
          PROVE  i + 1 \in DOMAIN v /\ v[i + 1] = Data
      <4>1. ~(i + 1 <= Len(u)) /\ (i + 1) - Len(u) = 2 /\ i + 1 \in 1..(Len(u) + Len(more))
        <5>1. Len(more) = 2
          BY <1>2, <3>2
        <5> QED BY <1>1, <2>2, <5>1
      <4> QED BY <1>2, <1>3, <1>4, <3>2, <4>1
    <3> QED BY <3>1, <3>2
  <2>3. CASE i > Len(u) + 1
    <3>1. i = Len(u) + 2 /\ Len(more) = 2
      <4>1. \A x \in Nat, y \in 1..2 : \A z \in 1..(x + y) : z > x + 1 => z = x + 2 /\ y = 2
        OBVIOUS
      <4> QED BY <1>1, <1>2, <1>4, <2>3, <4>1
    <3>2. m.cmd = "write"
      BY <1>2, <3>1
    <3>3. v[i] = Data
      <4>1. ~(i <= Len(u)) /\ i - Len(u) = 2
        BY <1>1, <3>1
      <4> QED BY <1>2, <1>3, <1>4, <3>2, <4>1
    <3>4. i - 1 \in DOMAIN v /\ v[i - 1] = m
      <4>1. ~(i - 1 <= Len(u)) /\ (i - 1) - Len(u) = 1 /\ i - 1 \in 1..(Len(u) + Len(more))
        BY <1>1, <3>1
      <4> QED BY <1>2, <1>3, <1>4, <4>1
    <3> QED BY <3>2, <3>3, <3>4
  <2> QED BY <1>1, <1>2, <1>4, <2>1, <2>2, <2>3
<1> QED BY <1>3, <1>6 DEF Frames, v, S

\* The part at place i of u \o more, m being a request that u does not have.
LEMMA OnceAsk ==
    ASSUME NEW u, NEW d, NEW wait, NEW state, Frames(u, wait, state), AllOnce(u, d),
           NEW m \in Requests, \A n \in wait : n.handle # m.handle,
           \A i \in DOMAIN d : d[i].handle # m.handle,
           NEW more, \/ m.cmd = "read" /\ more = <<m>>
                     \/ m.cmd = "write" /\ more = <<m, Data>>
    PROVE  AllOnce(u \o more, d)
<1> DEFINE S == Requests \cup {Data, Disc}
           v == u \o more
<1>1. u \in Seq(S) /\ Len(u) \in Nat /\ DOMAIN u = 1..Len(u)
  BY LenProperties DEF Frames
<1>2. more \in Seq(S) /\ Len(more) \in 1..2 /\ more[1] = m /\ (Len(more) = 2 => more[2] = Data)
  <2>1. \A x, y \in S : <<x>> \in Seq(S) /\ <<x, y>> \in Seq(S)
    OBVIOUS
  <2>2. m \in S /\ Data \in S
    OBVIOUS
  <2>3. CASE more = <<m>>
    BY <2>1, <2>2, <2>3, One
  <2>4. CASE more = <<m, Data>>
    BY <2>1, <2>2, <2>4, Two
  <2> QED BY <2>3, <2>4
<1>3. /\ v \in Seq(S) /\ Len(v) = Len(u) + Len(more)
      /\ \A i \in 1..(Len(u) + Len(more)) : v[i] = IF i <= Len(u) THEN u[i] ELSE more[i - Len(u)]
  BY <1>1, <1>2, ConcatProperties
<1>4. DOMAIN v = 1..(Len(u) + Len(more))
  BY <1>3, LenProperties
<1> HIDE DEF v, S
<1>5. ASSUME NEW i \in DOMAIN v, v[i] \in Requests
      PROVE  \/ i \in DOMAIN u /\ v[i] = u[i] /\ u[i] \in wait
             \/ i = Len(u) + 1 /\ v[i] = m
  <2>1. CASE i <= Len(u)
    <3>1. i \in DOMAIN u /\ v[i] = u[i]
      BY <1>1, <1>3, <1>4, <2>1
    <3> QED BY <1>5, <3>1, Kinds DEF Frames
  <2>2. CASE i = Len(u) + 1
    <3>1. ~(i <= Len(u)) /\ i - Len(u) = 1
      BY <1>1, <2>2
    <3> QED BY <1>2, <1>3, <1>4, <2>2, <3>1
  <2>3. CASE i > Len(u) + 1
    <3>1. ~(i <= Len(u)) /\ i - Len(u) = 2 /\ Len(more) = 2
      <4>1. \A x \in Nat, y \in 1..2 : \A z \in 1..(x + y) :
                z > x + 1 => ~(z <= x) /\ z - x = 2 /\ y = 2
        OBVIOUS
      <4> QED BY <1>1, <1>2, <1>4, <2>3, <4>1
    <3>2. v[i] = Data
      BY <1>2, <1>3, <1>4, <3>1
    <3> QED BY <1>5, <3>2, Kinds
  <2> QED BY <1>1, <1>4, <2>1, <2>2, <2>3
<1>6. ASSUME NEW i \in DOMAIN v, NEW j \in DOMAIN v, v[i] = v[j], v[i] \in Requests
      PROVE  i = j
  <2>1. \/ i \in DOMAIN u /\ v[i] = u[i] /\ u[i] \in wait
        \/ i = Len(u) + 1 /\ v[i] = m
    BY <1>5, <1>6
  <2>2. v[j] \in Requests
    BY <1>6
  <2>3. \/ j \in DOMAIN u /\ v[j] = u[j] /\ u[j] \in wait
        \/ j = Len(u) + 1 /\ v[j] = m
    BY <1>5, <2>2
  <2> QED BY <1>6, <2>1, <2>3 DEF AllOnce
<1>7. ASSUME NEW i \in DOMAIN d, NEW j \in DOMAIN v, v[j] \in Requests
      PROVE  d[i].handle # v[j].handle
  <2>1. (j \in DOMAIN u /\ v[j] = u[j]) \/ v[j] = m
    BY <1>5, <1>7
  <2> QED BY <1>7, <2>1 DEF AllOnce
<1> QED BY <1>6, <1>7 DEF AllOnce, v

LEMMA AskKeeps ==
    ASSUME NInv, NEW c \in Conns, NEW cmd \in {"read", "write"}, NEW b \in 1..size, Ask(c, cmd, b)
    PROVE  Serving(c)'
<1> DEFINE m == Request(cmd, b, requests + 1, acked[b])
           more == IF cmd = "write" THEN <<m, Data>> ELSE <<m>>
<1>1. /\ client[c] = "ready" /\ Ours(c) /\ requests' = requests + 1
      /\ Send(c, more) /\ waiting' = [waiting EXCEPT ![c] = @ \cup {m}]
      /\ UNCHANGED <<style, size, readOnly, client, server, export, down, blocks, acked>>
  BY DEF Ask, Served, Data, File
<1>2. Serving(c) /\ server[c] \in Opened
  <2>1. ~Handshaking(c)
    BY <1>1 DEF Handshaking, OldServer, NewServer, OurServer, OtherServer, At, Old, Ours
  <2>2. Serving(c)
    BY <2>1 DEF NInv
  <2> QED BY <1>1, <2>2 DEF Serving, InUse
<1>3. acked[b] \in Nat /\ acked[b] <= blocks[b] /\ requests \in Nat /\ b \in Nat
  BY DEF NInv, Typed, Acknowledged
<1>4. /\ m \in Requests /\ m.cmd = cmd /\ m.handle = requests + 1 /\ m.block = b
      /\ m.floor = acked[b]
  BY <1>3 DEF Requests, Request
<1>5. \/ m.cmd = "read" /\ more = <<m>>
      \/ m.cmd = "write" /\ more = <<m, Data>>
  BY <1>4
<1>6. up'[c] = up[c] \o more /\ waiting'[c] = waiting[c] \cup {m}
  BY <1>1 DEF Send, NInv, Typed, Domains
<1> HIDE DEF m, more
<1>7. /\ Frames(up[c], waiting[c], client[c]) /\ waiting[c] \subseteq Requests
      /\ AllAnswer(down[c], waiting[c], blocks) /\ AllOnce(up[c], down[c])
  BY <1>2 DEF Serving, Framed, Answered, Once, Asked
<1>8. \A n \in waiting[c] : n.handle \in 1..requests /\ n.handle # m.handle
  <2>1. \A n \in waiting[c] : n.handle \in 1..requests
    BY <1>2 DEF Serving, Asked
  <2> QED BY <1>3, <1>4, <2>1
<1>9. \A i \in DOMAIN down[c] : down[c][i].handle # m.handle
  BY <1>7, <1>8 DEF AllAnswer, Answers
<1>10. Framed(c)'
  <2>1. Frames(up[c] \o more, waiting[c] \cup {m}, client[c])
    BY <1>4, <1>5, <1>7, FramesAsk
  <2> QED BY <1>1, <1>6, <2>1 DEF Framed
<1>11. Once(c)'
  <2>1. AllOnce(up[c] \o more, down[c])
    BY <1>4, <1>5, <1>7, <1>8, <1>9, OnceAsk
  <2> QED BY <1>1, <1>6, <2>1 DEF Once
<1>12. Answered(c)'
  <2>1. AllAnswer(down[c], waiting[c] \cup {m}, blocks)
    BY <1>7 DEF AllAnswer
  <2> QED BY <1>1, <1>6, <2>1 DEF Answered
<1>13. Asked(c)'
  <2>1. ASSUME NEW n \in waiting[c] \cup {m}
        PROVE  n.handle \in 1..(requests + 1) /\ n.block \in 1..size /\ n.floor <= blocks[n.block]
    <3>1. CASE n \in waiting[c]
      <4>1. n.handle \in 1..requests /\ n.block \in 1..size /\ n.floor <= blocks[n.block]
        BY <1>2, <3>1 DEF Serving, Asked
      <4> QED BY <1>3, <4>1
    <3>2. CASE n = m
      BY <1>3, <1>4, <3>2
    <3> QED BY <3>1, <3>2
  <2>2. \A n, o \in waiting[c] \cup {m} : n.handle = o.handle => n = o
    <3>1. \A n, o \in waiting[c] : n.handle = o.handle => n = o
      BY <1>2 DEF Serving, Asked
    <3> QED BY <1>8, <3>1
  <2>3. waiting[c] \cup {m} \subseteq Requests
    BY <1>4, <1>7
  <2> QED BY <1>1, <1>6, <2>1, <2>2, <2>3 DEF Asked
<1>14. Ours(c)' /\ export'[c] = Export' /\ InUse(c)'
  BY <1>1, <1>2 DEF Serving, InUse, Ours, Export
<1> QED BY <1>10, <1>11, <1>12, <1>13, <1>14 DEF Serving

\* With nothing outstanding, nothing is on its way.
LEMMA NothingOnItsWay ==
    ASSUME NInv, NEW c \in Conns, Serving(c), client[c] = "ready", waiting[c] = {}
    PROVE  up[c] = <<>> /\ down[c] = <<>>
<1>1. Frames(up[c], {}, client[c]) /\ AllAnswer(down[c], {}, blocks)
  BY DEF Serving, Framed, Answered
<1>2. up[c] \in Seq(Requests \cup {Data, Disc}) /\ DOMAIN up[c] = {}
  BY <1>1 DEF Frames
<1>3. down[c] \in Seq(Replies) /\ DOMAIN down[c] = {}
  BY <1>1 DEF AllAnswer
<1>4. \A S : \A s \in Seq(S) : DOMAIN s = {} => s = <<>>
  <2>1. ASSUME NEW S, NEW s \in Seq(S), DOMAIN s = {}
        PROVE  s = <<>>
    <3>1. Len(s) \in Nat /\ 1..Len(s) = {}
      BY <2>1, LenProperties
    <3>2. Len(s) = 0
      <4>1. \A n \in Nat : n # 0 => 1 \in 1..n
        OBVIOUS
      <4> QED BY <3>1, <4>1
    <3> QED BY <3>2, EmptySeq
  <2> QED BY <2>1
<1> QED BY <1>2, <1>3, <1>4

LEMMA DisconnectKeeps ==
    ASSUME NInv, NEW c \in Conns, Disconnect(c)
    PROVE  Serving(c)'
<1>1. /\ client[c] = "ready" /\ Ours(c) /\ waiting[c] = {}
      /\ Send(c, <<Disc>>) /\ ClientGoes(c, "disconnected")
      /\ UNCHANGED <<style, size, readOnly, server, export, down, blocks, requests, waiting>>
  BY DEF Disconnect, Disc, Served, Traffic, File
<1>2. Serving(c) /\ server[c] \in Opened
  <2>1. ~Handshaking(c)
    BY <1>1 DEF Handshaking, OldServer, NewServer, OurServer, OtherServer, At, Old, Ours
  <2>2. Serving(c)
    BY <2>1 DEF NInv
  <2> QED BY <1>1, <2>2 DEF Serving, InUse
<1>3. up'[c] = <<Disc>> /\ client'[c] = "disconnected"
  <2>1. up'[c] = up[c] \o <<Disc>> /\ client'[c] = "disconnected"
    BY <1>1 DEF Send, ClientGoes, NInv, Typed, Domains
  <2>2. up[c] = <<>>
    BY <1>1, <1>2, NothingOnItsWay
  <2> QED BY <2>1, <2>2, One
<1>4. <<Disc>> \in Seq(Requests \cup {Data, Disc}) /\ DOMAIN <<Disc>> = {1} /\ <<Disc>>[1] = Disc
  OBVIOUS
<1>5. Framed(c)'
  <2>1. Frames(<<Disc>>, waiting[c], "disconnected")
    BY <1>4 DEF Frames
  <2> QED BY <1>1, <1>3, <2>1 DEF Framed
<1>6. Once(c)'
  <2>1. AllOnce(<<Disc>>, down[c])
    BY <1>2, <1>4, Kinds DEF Serving, Once, AllOnce
  <2> QED BY <1>1, <1>3, <2>1 DEF Once
<1>7. Answered(c)' /\ Asked(c)'
  BY <1>1, <1>2 DEF Serving, Answered, Asked
<1>8. Ours(c)' /\ export'[c] = Export' /\ InUse(c)'
  BY <1>1, <1>2, <1>3 DEF Serving, InUse, Ours, Export
<1> QED BY <1>5, <1>6, <1>7, <1>8 DEF Serving

-----------------------------------------------------------------------------
(* The invariant, and what it says.                                        *)

AnyStep(c) ==
    \/ Step(c) \/ Disconnect(c)
    \/ \E cmd \in {"read", "write"}, b \in 1..size : Ask(c, cmd, b)

\* The connection of the step.
LEMMA OneKeeps ==
    ASSUME NInv, NEW c \in Conns, AnyStep(c)
    PROVE  (Handshaking(c) \/ Serving(c))'
<1>1. CASE OldHandshake(c)
  BY <1>1, OldHandshakeKeeps
<1>2. CASE NewHandshake(c)
  BY <1>2, NewHandshakeKeeps
<1>3. CASE GoInfo(c)
  BY <1>3, GoInfoKeeps
<1>4. CASE GoAck(c)
  BY <1>4, GoAckKeeps
<1>5. CASE GoRefused(c)
  BY <1>5, GoRefusedKeeps
<1>6. CASE ExportName(c)
  BY <1>6, ExportNameKeeps
<1>7. CASE HandshakeFails(c)
  BY <1>7, HandshakeFailsKeeps
<1>8. CASE ReadFlags(c)
  BY <1>8, ReadFlagsKeeps
<1>9. CASE OptGo(c)
  BY <1>9, OptGoKeeps
<1>10. CASE OptExportName(c)
  BY <1>10, OptExportNameKeeps
<1>11. CASE Read(c)
  BY <1>11, ReadKeeps
<1>12. CASE Write(c)
  BY <1>12, WriteKeeps
<1>13. CASE Hangup(c)
  BY <1>13, HangupKeeps
<1>14. CASE TakeReply(c)
  BY <1>14, TakeReplyKeeps
<1>15. CASE Disconnect(c)
  BY <1>15, DisconnectKeeps
<1>16. CASE \E cmd \in {"read", "write"}, b \in 1..size : Ask(c, cmd, b)
  BY <1>16, AskKeeps
<1>17. CASE OpenFile(c) \/ OpenFails(c)
  BY <1>17, OpeningKeeps
<1>18. CASE Refuse(c)
  BY <1>18, RefuseKeeps
<1> QED
  BY <1>1, <1>2, <1>3, <1>4, <1>5, <1>6, <1>7, <1>8, <1>9, <1>10, <1>11, <1>12, <1>13, <1>14,
     <1>15, <1>16, <1>17, <1>18 DEF AnyStep, Step

\* The file, what was acknowledged of it, and the number of requests.
LEMMA FileKeeps ==
    ASSUME NInv, NEW c \in Conns, AnyStep(c)
    PROVE  /\ requests' \in Nat /\ requests' >= requests
           /\ blocks' \in [1..size -> Nat] /\ acked' \in [1..size -> Nat]
           /\ \A b \in 1..size : /\ blocks'[b] \in Nat /\ blocks'[b] >= blocks[b]
                                 /\ acked'[b] <= blocks'[b]
<1>1. /\ requests \in Nat /\ blocks \in [1..size -> Nat] /\ acked \in [1..size -> Nat]
      /\ \A b \in 1..size : /\ blocks[b] \in Nat /\ acked[b] \in Nat /\ acked[b] <= blocks[b]
                            /\ blocks[b] >= blocks[b]
  BY DEF NInv, Typed, Acknowledged
<1>2. CASE UNCHANGED <<blocks, acked, requests>>
  BY <1>1, <1>2
<1>3. CASE Write(c)
  <2>1. UNCHANGED <<acked, requests>>
    BY <1>3 DEF Write
  <2>2. /\ blocks' \in [1..size -> Nat]
        /\ \A b \in 1..size : blocks'[b] \in Nat /\ blocks'[b] >= blocks[b]
    BY <1>3, WriteWrites
  <2>3. ASSUME NEW b \in 1..size
        PROVE  acked'[b] <= blocks'[b]
    BY <1>1, <2>1, <2>2
  <2> QED BY <1>1, <2>1, <2>2, <2>3
<1>4. CASE TakeReply(c)
  <2>1. UNCHANGED <<blocks, requests>>
    BY <1>4 DEF TakeReply, File
  <2> QED BY <1>1, <1>4, <2>1, TakeReplyTakes
<1>5. CASE \E cmd \in {"read", "write"}, b \in 1..size : Ask(c, cmd, b)
  <2>1. UNCHANGED <<blocks, acked>> /\ requests' = requests + 1
    BY <1>5 DEF Ask, File
  <2> QED BY <1>1, <2>1
<1>6. CASE ~Write(c) /\ ~TakeReply(c) /\ (Step(c) \/ Disconnect(c))
  <2>1. UNCHANGED <<blocks, acked, requests>>
    BY <1>6 DEF Step, Disconnect, OldHandshake, NewHandshake, GoInfo, GoAck, GoRefused, ExportName,
                HandshakeFails, ReadFlags, OptGo, OptExportName, OpenFile, OpenFails, Read, Refuse,
                Hangup, Traffic, File
  <2> QED BY <1>2, <2>1
<1> QED BY <1>3, <1>4, <1>5, <1>6 DEF AnyStep

LEMMA NInit == NbdAssumption /\ Init => NInv
<1> SUFFICES ASSUME NbdAssumption, Init PROVE NInv
  OBVIOUS
<1>1. size \in Nat /\ readOnly \in BOOLEAN
  BY DEF NbdAssumption, Init
<1>2. Typed /\ Acknowledged
  BY <1>1 DEF Init, Typed, Domains, Acknowledged
<1>3. ASSUME NEW c \in Conns
      PROVE  Handshaking(c)
  BY <1>3 DEF Init, Handshaking, OldServer, NewServer, At
<1> QED BY <1>2, <1>3 DEF NInv

LEMMA NNext == NInv /\ [Next]_nvars => NInv'
<1> SUFFICES ASSUME NInv, [Next]_nvars PROVE NInv'
  OBVIOUS
<1>1. ASSUME NEW c \in Conns, AnyStep(c)
      PROVE  NInv'
  <2>1. Only(c) /\ Domains' /\ UNCHANGED <<style, size, readOnly>>
    BY <1>1, OfOneConnection DEF AnyStep, NInv, Typed
  <2>2. Typed' /\ Acknowledged'
    BY <1>1, <2>1, FileKeeps DEF NInv, Typed, Acknowledged
  <2>3. ASSUME NEW d \in Conns
        PROVE  (Handshaking(d) \/ Serving(d))'
    <3>1. CASE d = c
      BY <1>1, <3>1, OneKeeps
    <3>2. CASE d # c
      BY <1>1, <2>1, <3>2, FileKeeps, OthersKeep
    <3> QED BY <3>1, <3>2
  <2> QED BY <2>2, <2>3 DEF NInv
<1>2. CASE UNCHANGED nvars
  BY <1>2 DEF nvars, NInv, Typed, Domains, Acknowledged, Handshaking, OldServer, NewServer, OurServer,
              OtherServer, At, Old, Ours, Greeting, Export, Info, Exported, Refusal, Serving, InUse,
              Framed, Answered, Once, Asked
<1> QED BY <1>1, <1>2 DEF Next, AnyStep

LEMMA NSays == NInv => HandshakeAgrees /\ ReadsSeeAcknowledgedWrites
<1> SUFFICES ASSUME NInv PROVE HandshakeAgrees /\ ReadsSeeAcknowledgedWrites
  OBVIOUS
<1>1. ASSUME NEW c \in Conns, client[c] = "ready", requests = 0
      PROVE  /\ export[c] = Export /\ up[c] = <<>> /\ down[c] = <<>>
             /\ server[c] \in IF Ours(c) THEN Opened ELSE {"requests"}
  <2>1. CASE Handshaking(c)
    BY <1>1, <2>1 DEF Handshaking, OldServer, NewServer, OurServer, OtherServer, At, Old, Ours
  <2>2. CASE Serving(c)
    <3>1. waiting[c] = {}
      <4>1. \A m \in waiting[c] : m.handle \in 1..0
        BY <1>1, <2>2 DEF Serving, Asked
      <4>2. 1..0 = {}
        OBVIOUS
      <4> QED BY <4>1, <4>2
    <3>2. up[c] = <<>> /\ down[c] = <<>>
      BY <1>1, <2>2, <3>1, NothingOnItsWay
    <3> QED BY <1>1, <2>2, <3>2 DEF Serving, InUse
  <2> QED BY <2>1, <2>2 DEF NInv
<1>2. ASSUME NEW c \in Conns, NEW i \in DOMAIN down[c], NEW m \in waiting[c],
             down[c][i].kind = "reply", down[c][i].handle = m.handle, m.cmd = "read",
             ~down[c][i].error, ~down[c][i].cut
      PROVE  down[c][i].content >= m.floor
  <2>1. Serving(c)
    BY <1>2 DEF NInv, Handshaking
  <2>2. PICK n \in waiting[c] : Answers(down[c][i], n, blocks)
    BY <1>2, <2>1 DEF Serving, Answered, AllAnswer
  <2>3. n = m
    BY <1>2, <2>1, <2>2 DEF Serving, Asked, Answers
  <2> QED BY <1>2, <2>2, <2>3 DEF Answers
<1> QED BY <1>1, <1>2 DEF HandshakeAgrees, Opened, ReadsSeeAcknowledgedWrites

\* Whatever servers are met, however many connections share the file and however
\* many requests are on their way, and whichever of opening, reading and writing the
\* file fails: the client comes out of the handshake with the server's export and
\* nothing left unread, and no read that is answered returns less than what was
\* acknowledged before it was sent, but of blocks whose latest write stopped half-way,
\* and what zeroes fill up (nbd_handshake, handle_client).
THEOREM NbdStaysRight ==
    NbdAssumption => (Spec => [](HandshakeAgrees /\ ReadsSeeAcknowledgedWrites))
<1> SUFFICES ASSUME NbdAssumption PROVE Spec => [](HandshakeAgrees /\ ReadsSeeAcknowledgedWrites)
  OBVIOUS
<1>1. Init => NInv
  BY NInit
<1>2. NInv /\ [Next]_nvars => NInv'
  BY NNext
<1>3. NInv => HandshakeAgrees /\ ReadsSeeAcknowledgedWrites
  BY NSays
<1> QED BY <1>1, <1>2, <1>3, PTL DEF Spec

-----------------------------------------------------------------------------
(* A session of screen.                                                    *)

Keys == [from : Clients, key : Nat]
SessionTypes ==
    /\ clientFd \in Clients \cup {None} /\ backlog \in Seq(Clients)
    /\ pc \in [Clients -> {"out", "attached", "returned", "killed"}]
    /\ inbox \in [Clients -> Seq(Keys)] /\ outbox \in [Clients -> Seq(Nat)]
    /\ typed \in [Clients -> Nat] /\ seen \in [Clients -> Seq(Nat)]
    /\ written \in Nat /\ pty \in Seq(Nat) /\ Len(pty) <= written /\ got \in Seq(Keys)

\* What a client got and will get, and how much has left the pty.
Flow(c) == seen[c] \o outbox[c]
Sent == written - Len(pty)

\* Who has not been attached yet has been sent nothing: it may not have connected,
\* or it is in the backlog, once.
New(c) == (c = clientFd => c = None) /\ Flow(c) = <<>>
NewcomersAreNew ==
    /\ \A c \in Clients : pc[c] = "out" => New(c)
    /\ \A i \in DOMAIN backlog :
            /\ pc[backlog[i]] # "out" /\ New(backlog[i])
            /\ \A j \in DOMAIN backlog : backlog[i] = backlog[j] => i = j
    /\ manager = "accept" /\ "listen" \in events => backlog # <<>>

\* Each client got numbers that follow one another and have left the pty, the
\* one that is attached up to the last; no two got the same.
Gapless(c) == \A k \in DOMAIN Flow(c) : Flow(c)[k] = Flow(c)[1] + k - 1 /\ Flow(c)[k] <= Sent
Apart(c, d) == \A j \in DOMAIN Flow(c), k \in DOMAIN Flow(d) : Flow(c)[j] # Flow(d)[k]
OutputFlows ==
    /\ \A k \in DOMAIN pty : pty[k] = Sent + k
    /\ \A c \in Clients : Gapless(c)
    /\ \A c, d \in Clients : c # d => Apart(c, d)
    /\ clientFd # None /\ Flow(clientFd) # <<>> => Flow(clientFd)[Len(Flow(clientFd))] = Sent

\* The keys that have been read of a client; the inbox has those after them.
Heard(c) == typed[c] - Len(inbox[c])
InputFlows ==
    /\ \A c \in Clients : Heard(c) >= 0
    /\ \A c \in Clients : \A k \in DOMAIN inbox[c] : inbox[c][k] = [from |-> c, key |-> Heard(c) + k]
    /\ \A i \in DOMAIN got : got[i].from # Detacher /\ got[i].key \in 1..Heard(got[i].from)
    /\ \A c \in Clients \ {Detacher} : \A k \in 1..Heard(c) :
            \E i \in DOMAIN got : got[i] = [from |-> c, key |-> k]
    /\ \A i, j \in DOMAIN got : i < j /\ got[i].from = got[j].from => got[i].key < got[j].key

SInv == SessionTypes /\ NewcomersAreNew /\ OutputFlows /\ InputFlows

-----------------------------------------------------------------------------
\* Sequences: what SequenceTheorems says of all of them at once.
LEMMA Associates == \A s, t, u \in Seq(Nat) : (s \o t) \o u = s \o (t \o u)
<1> SUFFICES ASSUME NEW s \in Seq(Nat), NEW t \in Seq(Nat), NEW u \in Seq(Nat)
             PROVE  (s \o t) \o u = s \o (t \o u)
  OBVIOUS
<1> QED BY ConcatAssociative

LEMMA Appends ==
    \A S : \A s \in Seq(S), e \in S :
        /\ Append(s, e) \in Seq(S) /\ Append(s, e) # <<>> /\ Len(Append(s, e)) = Len(s) + 1
        /\ \A i \in 1..Len(s) : Append(s, e)[i] = s[i]
        /\ Append(s, e)[Len(s) + 1] = e
<1> SUFFICES ASSUME NEW S, NEW s \in Seq(S), NEW e \in S
             PROVE  /\ Append(s, e) \in Seq(S) /\ Append(s, e) # <<>> /\ Len(Append(s, e)) = Len(s) + 1
                    /\ \A i \in 1..Len(s) : Append(s, e)[i] = s[i]
                    /\ Append(s, e)[Len(s) + 1] = e
  OBVIOUS
<1> QED BY AppendProperties

LEMMA Joins ==
    \A S : \A s, t \in Seq(S) :
        /\ s \o t \in Seq(S) /\ Len(s \o t) = Len(s) + Len(t)
        /\ \A i \in 1..(Len(s) + Len(t)) : (s \o t)[i] = IF i <= Len(s) THEN s[i] ELSE t[i - Len(s)]
<1> SUFFICES ASSUME NEW S, NEW s \in Seq(S), NEW t \in Seq(S)
             PROVE  /\ s \o t \in Seq(S) /\ Len(s \o t) = Len(s) + Len(t)
                    /\ \A i \in 1..(Len(s) + Len(t)) :
                            (s \o t)[i] = IF i <= Len(s) THEN s[i] ELSE t[i - Len(s)]
  OBVIOUS
<1> QED BY ConcatProperties

AnyScreenStep ==
    \/ ShellWrites \/ ShellEnds \/ Poll \/ Accept \/ Output \/ Input
    \/ \E c \in Clients : Connect(c) \/ Sends(c) \/ Leave(c) \/ Receive(c)

\* The bounds on what is typed do not matter.
LEMMA ScreenSteps == [ScreenNext]_vars => AnyScreenStep \/ UNCHANGED vars
<1>1. Detacher \in Clients
  BY DEF Clients
<1>2. Detach => Sends(Detacher)
  BY DEF Detach
<1>3. \A c : Type(c) => Sends(c)
  BY DEF Type
<1> QED BY <1>1, <1>2, <1>3 DEF ScreenNext, AnyScreenStep

LEMMA SInit == ScreenInit => SInv
<1> SUFFICES ASSUME ScreenInit PROVE SInv
  OBVIOUS
<1> USE DEF ScreenInit
<1>1. SessionTypes
  <2>1. \A S : <<>> \in Seq(S)
    BY EmptySeq
  <2> QED BY <2>1, EmptySeq DEF SessionTypes
<1>2. \A c \in Clients : Flow(c) = <<>> /\ DOMAIN Flow(c) = {}
  <2>1. \A c \in Clients : Flow(c) = <<>> \o <<>>
    BY DEF Flow
  <2>2. <<>> \o <<>> = <<>>
    BY ConcatEmptySeq, EmptySeq
  <2> QED BY <2>1, <2>2
<1>3. NewcomersAreNew
  <2>1. DOMAIN backlog = {}
    OBVIOUS
  <2>2. \A c \in Clients : New(c)
    BY <1>2 DEF New
  <2> QED BY <2>1, <2>2 DEF NewcomersAreNew
<1>4. OutputFlows
  <2>1. DOMAIN pty = {}
    OBVIOUS
  <2> QED BY <1>2, <2>1 DEF OutputFlows, Gapless, Apart
<1>5. InputFlows
  <2>1. DOMAIN got = {} /\ \A c \in Clients : DOMAIN inbox[c] = {} /\ Heard(c) = 0
    BY EmptySeq DEF Heard
  <2> QED BY <2>1 DEF InputFlows
<1> QED BY <1>1, <1>3, <1>4, <1>5 DEF SInv

-----------------------------------------------------------------------------
\* The types are kept.
LEMMA TypesKept == SessionTypes /\ NewcomersAreNew /\ AnyScreenStep => SessionTypes'
<1> SUFFICES ASSUME SessionTypes, NewcomersAreNew, AnyScreenStep PROVE SessionTypes'
  OBVIOUS
<1> USE DEF SessionTypes, cvars
<1>0. \A S : <<>> \in Seq(S)
  BY EmptySeq
<1>1. CASE ShellWrites
  <2>1. written' \in Nat /\ pty' \in Seq(Nat) /\ Len(pty') = Len(pty) + 1
    BY <1>1, AppendProperties DEF ShellWrites
  <2> QED BY <1>1, <2>1 DEF ShellWrites
<1>2. CASE ShellEnds
  BY <1>2 DEF ShellEnds
<1>3. CASE Poll
  BY <1>3, <1>0 DEF Poll
<1>4. CASE Accept
  <2>1. CASE "listen" \in events
    <3>1. backlog # <<>>
      BY <1>4, <2>1 DEF Accept, NewcomersAreNew
    <3>2. clientFd' \in Clients /\ backlog' \in Seq(Clients)
      <4>1. Head(backlog) \in Clients /\ Tail(backlog) \in Seq(Clients)
        BY <3>1, HeadTailProperties
      <4> QED BY <1>4, <2>1, <4>1 DEF Accept
    <3> QED BY <1>4, <3>2 DEF Accept
  <2>2. CASE "listen" \notin events
    BY <1>4, <2>2 DEF Accept
  <2> QED BY <2>1, <2>2
<1>5. CASE Output
  <2>1. CASE "master" \in events /\ clientFd # None /\ Left(clientFd)
    BY <1>5, <2>1, <1>0 DEF Output
  <2>2. CASE "master" \notin events
    BY <1>5, <2>2 DEF Output
  <2>3. CASE "master" \in events /\ ~(clientFd # None /\ Left(clientFd))
    <3>1. outbox' \in [Clients -> Seq(Nat)]
      <4>1. CASE clientFd = None
        BY <1>5, <2>3, <4>1 DEF Output
      <4>2. CASE clientFd # None
        <5>1. clientFd \in Clients /\ outbox[clientFd] \o pty \in Seq(Nat)
          BY <4>2, ConcatProperties
        <5>2. outbox' = [outbox EXCEPT ![clientFd] = outbox[clientFd] \o pty]
          BY <1>5, <2>3, <4>2 DEF Output
        <5> QED BY <5>1, <5>2
      <4> QED BY <4>1, <4>2
    <3>2. pty' = <<>> /\ pty' \in Seq(Nat) /\ Len(pty') = 0
      BY <1>5, <2>3, EmptySeq DEF Output
    <3> QED BY <1>5, <2>3, <3>1, <3>2 DEF Output
  <2> QED BY <2>1, <2>2, <2>3
<1>6. CASE Input
  <2>1. inbox' \in [Clients -> Seq(Keys)]
    BY <1>6, <1>0 DEF Input
  <2>2. got' \in Seq(Keys)
    <3>1. Reads => got \o inbox[clientFd] \in Seq(Keys)
      BY ConcatProperties DEF Reads
    <3> QED BY <1>6, <3>1 DEF Input
  <2>3. clientFd' \in Clients \cup {None}
    BY <1>6 DEF Input
  <2> QED BY <1>6, <2>1, <2>2, <2>3 DEF Input
<1>7. ASSUME NEW c \in Clients, Connect(c) PROVE SessionTypes'
  <2>1. backlog' \in Seq(Clients)
    <3>1. Append(backlog, c) \in Seq(Clients)
      BY AppendProperties
    <3>2. backlog' = Append(backlog, c) \/ backlog' = backlog
      BY <1>7 DEF Connect
    <3> QED BY <3>1, <3>2
  <2> QED BY <1>7, <2>1 DEF Connect
<1>8. ASSUME NEW c \in Clients, Sends(c) PROVE SessionTypes'
  <2>1. CASE c \in ours
    <3> DEFINE key == [from |-> c, key |-> typed[c] + 1]
    <3>1. key \in Keys
      BY DEF Keys
    <3>2. Append(inbox[c], key) \in Seq(Keys)
      BY <3>1, AppendProperties
    <3>3. inbox' = [inbox EXCEPT ![c] = Append(inbox[c], key)]
      BY <1>8, <2>1 DEF Sends
    <3>4. inbox' \in [Clients -> Seq(Keys)]
      BY <3>2, <3>3
    <3>5. typed' \in [Clients -> Nat] /\ pc' \in [Clients -> {"out", "attached", "returned", "killed"}]
      <4>1. typed' = [typed EXCEPT ![c] = typed[c] + 1]
        BY <1>8, <2>1 DEF Sends
      <4>2. typed[c] \in Nat
        OBVIOUS
      <4>3. typed' \in [Clients -> Nat]
        BY <4>1, <4>2
      <4>4. pc' \in [Clients -> {"out", "attached", "returned", "killed"}]
        BY <1>8, <2>1 DEF Sends
      <4> QED BY <4>3, <4>4
    <3> QED BY <1>8, <3>4, <3>5 DEF Sends
  <2>2. CASE c \notin ours
    BY <1>8, <2>2 DEF Sends
  <2> QED BY <2>1, <2>2
<1>9. ASSUME NEW c \in Clients, Leave(c) PROVE SessionTypes'
  BY <1>9 DEF Leave, Return
<1>10. ASSUME NEW c \in Clients, Receive(c) PROVE SessionTypes'
  <2>1. seen[c] \o outbox[c] \in Seq(Nat)
    BY ConcatProperties
  <2>2. seen' \in [Clients -> Seq(Nat)] /\ outbox' \in [Clients -> Seq(Nat)]
    BY <1>10, <2>1, <1>0 DEF Receive
  <2> QED BY <1>10, <2>2 DEF Receive, Return
<1> QED
  BY <1>1, <1>2, <1>3, <1>4, <1>5, <1>6, <1>7, <1>8, <1>9, <1>10 DEF AnyScreenStep

-----------------------------------------------------------------------------
\* What a step does to what a client got: the manager delivers, or nothing.
Delivers == Output /\ "master" \in events /\ clientFd # None /\ ~Left(clientFd)
LEMMA FlowsGrow ==
    ASSUME SessionTypes, AnyScreenStep, NEW c \in Clients
    PROVE  Flow(c)' = IF Delivers /\ c = clientFd THEN Flow(c) \o pty ELSE Flow(c)
<1> USE DEF SessionTypes, cvars
<1>1. CASE UNCHANGED <<seen, outbox>> /\ ~Delivers
  BY <1>1 DEF Flow
<1>2. CASE Output
  <2>1. CASE Delivers
    <3>1. clientFd \in Clients /\ outbox' = [outbox EXCEPT ![clientFd] = outbox[clientFd] \o pty]
          /\ seen' = seen
      BY <2>1 DEF Delivers, Output
    <3>2. CASE c = clientFd
      <4>1. outbox'[c] = outbox[c] \o pty
        BY <3>1, <3>2
      <4>2. seen[c] \o (outbox[c] \o pty) = (seen[c] \o outbox[c]) \o pty
        <5>1. seen[c] \in Seq(Nat) /\ outbox[c] \in Seq(Nat) /\ pty \in Seq(Nat)
          OBVIOUS
        <5> QED BY <5>1, Associates
      <4> QED BY <2>1, <3>1, <3>2, <4>1, <4>2 DEF Flow
    <3>3. CASE c # clientFd
      <4>1. outbox'[c] = outbox[c]
        BY <3>1, <3>3
      <4> QED BY <3>1, <3>3, <4>1 DEF Flow
    <3> QED BY <3>2, <3>3
  <2>2. CASE ~Delivers
    <3>1. UNCHANGED <<seen, outbox>>
      BY <1>2, <2>2 DEF Delivers, Output
    <3> QED BY <1>1, <2>2, <3>1
  <2> QED BY <2>1, <2>2
<1>3. ASSUME NEW d \in Clients, Receive(d), ~Delivers PROVE Flow(c)' = Flow(c)
  <2>1. seen' = [seen EXCEPT ![d] = seen[d] \o outbox[d]] /\ outbox' = [outbox EXCEPT ![d] = <<>>]
    BY <1>3 DEF Receive
  <2>2. CASE c = d
    <3>1. seen'[c] = seen[c] \o outbox[c] /\ outbox'[c] = <<>>
      BY <2>1, <2>2
    <3>2. seen[c] \in Seq(Nat) /\ outbox[c] \in Seq(Nat)
      OBVIOUS
    <3>3. seen[c] \o outbox[c] \in Seq(Nat)
      BY <3>2, ConcatProperties
    <3>4. (seen[c] \o outbox[c]) \o <<>> = seen[c] \o outbox[c]
      BY <3>3, ConcatEmptySeq
    <3> QED BY <3>1, <3>4 DEF Flow
  <2>3. CASE c # d
    <3>1. seen'[c] = seen[c] /\ outbox'[c] = outbox[c]
      BY <2>1, <2>3
    <3> QED BY <3>1 DEF Flow
  <2> QED BY <2>2, <2>3
<1>4. CASE ~Output
  <2>1. ~Delivers
    BY <1>4 DEF Delivers
  <2>2. CASE UNCHANGED <<seen, outbox>>
    BY <1>1, <2>1, <2>2
  <2>3. CASE ~UNCHANGED <<seen, outbox>>
    <3>1. \E d \in Clients : Receive(d)
      BY <1>4, <2>3 DEF AnyScreenStep, ShellWrites, ShellEnds, Poll, Accept, Input, Connect, Sends, Leave
    <3> QED BY <1>3, <2>1, <3>1
  <2> QED BY <2>2, <2>3
<1> QED BY <1>2, <1>4

\* Whoever has connected waits in the backlog and has been sent nothing, until it is
\* accepted.
LEMMA NewcomersKept == SessionTypes /\ NewcomersAreNew /\ AnyScreenStep => NewcomersAreNew'
<1> SUFFICES ASSUME SessionTypes, NewcomersAreNew, AnyScreenStep PROVE NewcomersAreNew'
  OBVIOUS
<1> USE DEF SessionTypes, cvars
<1>1. DOMAIN backlog = 1..Len(backlog) /\ Len(backlog) \in Nat /\ \A i \in DOMAIN backlog : backlog[i] \in Clients
  BY LenProperties, ElementOfSeq
<1>2. \A c \in Clients : New(c) => Flow(c)' = <<>>
  <2>1. \A c \in Clients : New(c) => ~(Delivers /\ c = clientFd)
    BY DEF New, Delivers
  <2> QED BY <2>1, FlowsGrow DEF New
<1>3. CASE clientFd' \in {clientFd, None} /\ backlog' \in {backlog, <<>>} /\ pc' = pc
           /\ ~(manager' = "accept" /\ "listen" \in events')
  <2>1. \A c \in Clients : New(c) => New(c)'
    BY <1>2, <1>3 DEF New
  <2>2. \A c \in Clients : pc'[c] = "out" => New(c)'
    BY <1>3, <2>1 DEF NewcomersAreNew
  <2>3. CASE backlog' = backlog
    BY <1>1, <1>3, <2>1, <2>2, <2>3 DEF NewcomersAreNew
  <2>4. CASE backlog' = <<>>
    <3>1. DOMAIN backlog' = {}
      BY <2>4
    <3> QED BY <1>3, <2>2, <3>1 DEF NewcomersAreNew
  <2> QED BY <1>3, <2>3, <2>4
<1>4. ASSUME UNCHANGED <<clientFd, backlog, manager, events>>,
             \A c \in Clients : pc'[c] # pc[c] => pc[c] # "out" /\ pc'[c] # "out"
      PROVE  NewcomersAreNew'
  <2>1. \A c \in Clients : New(c) => New(c)'
    BY <1>2, <1>4 DEF New
  <2>2. \A c \in Clients : pc'[c] = "out" <=> pc[c] = "out"
    BY <1>4
  <2> QED BY <1>1, <1>4, <2>1, <2>2 DEF NewcomersAreNew
<1>5. CASE Poll
  <2>1. CASE shell = "ended"
    BY <1>3, <1>5, <2>1 DEF Poll
  <2>2. CASE shell # "ended"
    <3>1. \A c \in Clients : New(c) => New(c)'
      BY <1>2, <1>5, <2>2 DEF New, Poll
    <3>2. "listen" \in events' => backlog' # <<>>
      BY <1>5, <2>2 DEF Poll, Reported
    <3> QED BY <1>1, <1>5, <2>2, <3>1, <3>2 DEF NewcomersAreNew, Poll
  <2> QED BY <2>1, <2>2
<1>6. CASE Accept
  <2>1. CASE "listen" \notin events
    BY <1>3, <1>6, <2>1 DEF Accept
  <2>2. CASE "listen" \in events
    <3>1. backlog # <<>> /\ clientFd' = backlog[1] /\ backlog' = Tail(backlog) /\ manager' = "output" /\ pc' = pc
      BY <1>6, <2>2 DEF Accept, NewcomersAreNew
    <3>2. /\ DOMAIN backlog' = 1..(Len(backlog) - 1) /\ 1 \in DOMAIN backlog
          /\ \A i \in DOMAIN backlog' : i + 1 \in DOMAIN backlog /\ backlog'[i] = backlog[i + 1]
      <4>1. Tail(backlog) \in Seq(Clients) /\ Len(Tail(backlog)) = Len(backlog) - 1
            /\ \A i \in 1..Len(Tail(backlog)) : Tail(backlog)[i] = backlog[i + 1]
        BY <3>1, HeadTailProperties
      <4>2. DOMAIN Tail(backlog) = 1..(Len(backlog) - 1) /\ Len(backlog) # 0
        BY <3>1, <4>1, LenProperties, EmptySeq
      <4>3. \A i \in 1..(Len(backlog) - 1) : i + 1 \in DOMAIN backlog
        BY <1>1
      <4>4. 1 \in DOMAIN backlog
        BY <1>1, <4>2
      <4>5. DOMAIN backlog' = 1..(Len(backlog) - 1)
        BY <3>1, <4>2
      <4>6. \A i \in DOMAIN backlog' : backlog'[i] = backlog[i + 1]
        BY <3>1, <4>1, <4>5
      <4> QED BY <4>3, <4>4, <4>5, <4>6
    <3>3. \A c \in Clients : New(c) /\ c # backlog[1] => New(c)'
      BY <1>2, <3>1 DEF New
    <3>4. pc[backlog[1]] # "out"
      BY <3>2 DEF NewcomersAreNew
    <3>5. \A c \in Clients : pc'[c] = "out" => New(c)'
      BY <3>1, <3>3, <3>4 DEF NewcomersAreNew
    <3>6. ASSUME NEW i \in DOMAIN backlog'
          PROVE  /\ pc'[backlog'[i]] # "out"
                 /\ \E c \in Clients : c = backlog'[i] /\ New(c)'
                 /\ \A j \in DOMAIN backlog' : backlog'[i] = backlog'[j] => i = j
      <4>1. i + 1 \in DOMAIN backlog /\ i + 1 # 1 /\ i \in Int
        BY <1>1, <3>2
      <4>2. PICK c \in Clients : c = backlog[i + 1]
        BY <1>1, <4>1
      <4>3. c # backlog[1] /\ pc[c] # "out" /\ New(c)
        BY <3>2, <4>1, <4>2 DEF NewcomersAreNew
      <4>4. New(c)'
        BY <3>3, <4>3
      <4>5. ASSUME NEW j \in DOMAIN backlog', backlog'[i] = backlog'[j] PROVE i = j
        <5>1. j + 1 \in DOMAIN backlog /\ backlog[i + 1] = backlog[j + 1] /\ j \in Int
          BY <1>1, <3>2, <4>5
        <5>2. i + 1 = j + 1
          BY <4>1, <5>1 DEF NewcomersAreNew
        <5> QED BY <4>1, <5>1, <5>2
      <4> QED BY <3>1, <3>2, <4>2, <4>3, <4>4, <4>5
    <3>7. \A i \in DOMAIN backlog' :
             /\ pc'[backlog'[i]] # "out" /\ New(backlog[i])'
             /\ \A j \in DOMAIN backlog' : backlog'[i] = backlog'[j] => i = j
      BY <3>6 DEF New, Flow
    <3> QED BY <3>1, <3>5, <3>7 DEF NewcomersAreNew
  <2> QED BY <2>1, <2>2
<1>7. CASE Output
  BY <1>3, <1>7 DEF Output
<1>8. CASE Input
  BY <1>3, <1>8 DEF Input
<1>9. CASE ShellWrites \/ ShellEnds
  BY <1>4, <1>9 DEF ShellWrites, ShellEnds
<1>10. ASSUME NEW c \in Clients, Connect(c) PROVE NewcomersAreNew'
  <2>1. pc[c] = "out" /\ New(c) /\ clientFd' = clientFd /\ UNCHANGED <<manager, events>>
    BY <1>10 DEF Connect, NewcomersAreNew
  <2>2. \A d \in Clients : New(d) => New(d)'
    BY <1>2, <2>1 DEF New
  <2>3. CASE ~Alive
    <3>1. pc' = [pc EXCEPT ![c] = "returned"] /\ backlog' = backlog
      BY <1>10, <2>3 DEF Connect
    <3>2. \A d \in Clients : pc'[d] = "out" => pc[d] = "out"
      BY <3>1
    <3>3. \A i \in DOMAIN backlog' : pc'[backlog'[i]] # "out" /\ New(backlog[i])'
      BY <1>1, <2>2, <3>1, <3>2 DEF NewcomersAreNew
    <3> QED BY <2>1, <2>2, <3>1, <3>2, <3>3 DEF NewcomersAreNew
  <2>4. CASE Alive
    <3>1. pc' = [pc EXCEPT ![c] = "attached"] /\ backlog' = Append(backlog, c)
      BY <1>10, <2>4 DEF Connect
    <3>2. \A d \in Clients : pc'[d] = "out" => pc[d] = "out"
      BY <3>1
    <3>3. /\ DOMAIN backlog' = 1..(Len(backlog) + 1) /\ backlog' # <<>>
          /\ \A i \in DOMAIN backlog : backlog'[i] = backlog[i]
          /\ backlog'[Len(backlog) + 1] = c
      <4>1. /\ Append(backlog, c) \in Seq(Clients) /\ Append(backlog, c) # <<>>
            /\ Len(Append(backlog, c)) = Len(backlog) + 1
            /\ \A i \in 1..Len(backlog) : Append(backlog, c)[i] = backlog[i]
            /\ Append(backlog, c)[Len(backlog) + 1] = c
        <5>1. backlog \in Seq(Clients)
          OBVIOUS
        <5> HIDE DEF SessionTypes
        <5> QED BY <5>1, Appends
      <4>2. DOMAIN Append(backlog, c) = 1..(Len(backlog) + 1)
        BY <4>1, LenProperties
      <4> QED BY <1>1, <3>1, <4>1, <4>2
    <3>4. \A i \in DOMAIN backlog' : i \in DOMAIN backlog \/ i = Len(backlog) + 1
      BY <1>1, <3>3
    <3>5. \A i \in DOMAIN backlog : backlog[i] # c
      BY <2>1 DEF NewcomersAreNew
    <3>6. ASSUME NEW i \in DOMAIN backlog' PROVE pc'[backlog'[i]] # "out" /\ New(backlog[i])'
      <4>1. PICK d \in Clients : d = backlog'[i] /\ (d = c \/ pc[d] # "out") /\ New(d)
        BY <1>1, <2>1, <3>3, <3>4 DEF NewcomersAreNew
      <4>2. New(d)' /\ pc'[d] # "out"
        BY <2>2, <3>1, <4>1
      <4> QED BY <4>1, <4>2 DEF New, Flow
    <3>7. \A i, j \in DOMAIN backlog' : backlog'[i] = backlog'[j] => i = j
      BY <3>3, <3>4, <3>5 DEF NewcomersAreNew
    <3> QED BY <2>1, <2>2, <3>2, <3>3, <3>6, <3>7 DEF NewcomersAreNew
  <2> QED BY <2>3, <2>4
<1>11. ASSUME NEW c \in Clients, Sends(c) \/ Leave(c) \/ Receive(c) PROVE NewcomersAreNew'
  <2>1. UNCHANGED <<clientFd, backlog, manager, events>>
    BY <1>11 DEF Sends, Leave, Receive
  <2>2. pc[c] = "attached" /\ pc' \in {pc, [pc EXCEPT ![c] = "killed"], [pc EXCEPT ![c] = "returned"]}
    BY <1>11 DEF Sends, Leave, Receive, Return
  <2>3. \A d \in Clients : pc'[d] # pc[d] => pc[d] # "out" /\ pc'[d] # "out"
    BY <2>2
  <2> QED BY <1>4, <2>1, <2>3
<1> QED BY <1>5, <1>6, <1>7, <1>8, <1>9, <1>10, <1>11 DEF AnyScreenStep

-----------------------------------------------------------------------------
\* What the manager delivers follows what was delivered last, and none had it before.
LEMMA OutputKept ==
    SessionTypes /\ NewcomersAreNew /\ OutputFlows /\ AnyScreenStep => OutputFlows'
<1> SUFFICES ASSUME SessionTypes, NewcomersAreNew, OutputFlows, AnyScreenStep PROVE OutputFlows'
  OBVIOUS
<1>1. SessionTypes'
  BY TypesKept
<1>2. ASSUME NEW c \in Clients
      PROVE  /\ Flow(c) \in Seq(Nat) /\ DOMAIN Flow(c) = 1..Len(Flow(c)) /\ Len(Flow(c)) \in Nat
             /\ \A k \in DOMAIN Flow(c) : Flow(c)[k] \in Nat
             /\ Flow(c) # <<>> => 1 \in DOMAIN Flow(c) /\ Len(Flow(c)) \in DOMAIN Flow(c)
  <2>1. seen[c] \in Seq(Nat) /\ outbox[c] \in Seq(Nat)
    BY DEF SessionTypes
  <2>2. Flow(c) \in Seq(Nat)
    BY <2>1, Joins DEF Flow
  <2>3. DOMAIN Flow(c) = 1..Len(Flow(c)) /\ Len(Flow(c)) \in Nat
    BY <2>2, LenProperties
  <2>4. Flow(c) # <<>> => Len(Flow(c)) \in Nat \ {0}
    BY <2>2, EmptySeq
  <2>5. \A k \in DOMAIN Flow(c) : Flow(c)[k] \in Nat
    BY <2>2, <2>3, ElementOfSeq
  <2> QED BY <2>2, <2>3, <2>4, <2>5
<1>3. Sent \in Nat /\ written \in Nat /\ Len(pty) \in Nat /\ DOMAIN pty = 1..Len(pty) /\ pty \in Seq(Nat)
  BY LenProperties DEF SessionTypes, Sent
<1>4. CASE Delivers
  <2>1. clientFd \in Clients /\ clientFd' = clientFd /\ pty' = <<>> /\ written' = written
    BY <1>4 DEF Delivers, Output, SessionTypes
  <2>2. Sent' = Sent + Len(pty) /\ DOMAIN pty' = {}
    BY <1>3, <2>1, EmptySeq DEF Sent
  <2>3. \A d \in Clients \ {clientFd} : Flow(d)' = Flow(d)
    BY FlowsGrow
  <2>4. Flow(clientFd)' = Flow(clientFd) \o pty
    BY <1>4, <2>1, FlowsGrow
  <2> DEFINE f == Flow(clientFd)
             g == f \o pty
             n == Len(f)
  <2>5. /\ f \in Seq(Nat) /\ DOMAIN f = 1..n /\ n \in Nat /\ \A k \in 1..n : f[k] \in Nat
        /\ f # <<>> => 1 \in 1..n /\ n \in 1..n
    BY <1>2, <2>1
  <2>6. /\ \A k \in 1..n : f[k] = f[1] + k - 1 /\ f[k] <= Sent
        /\ f # <<>> => f[n] = Sent
        /\ \A k \in 1..Len(pty) : pty[k] = Sent + k
    BY <1>3, <1>4, <2>1, <2>5 DEF OutputFlows, Gapless, Delivers
  <2>7. /\ Len(g) = n + Len(pty) /\ DOMAIN g = 1..(n + Len(pty))
        /\ \A k \in 1..(n + Len(pty)) : g[k] = IF k <= n THEN f[k] ELSE pty[k - n]
    <3>1. g \in Seq(Nat) /\ Len(g) = n + Len(pty)
          /\ \A k \in 1..(n + Len(pty)) : g[k] = IF k <= n THEN f[k] ELSE pty[k - n]
      BY <1>3, <2>5, Joins
    <3> QED BY <3>1, LenProperties
  <2> HIDE DEF f, g, n
  <2>8. \A k \in 1..(n + Len(pty)) : k > n => g[k] = Sent + (k - n)
    BY <1>3, <2>5, <2>6, <2>7
  <2>9. \A k \in 1..(n + Len(pty)) : g[k] = g[1] + k - 1 /\ g[k] <= Sent + Len(pty)
    <3>1. TAKE k \in 1..(n + Len(pty))
    <3>2. CASE k <= n
      <4>1. k \in 1..n /\ 1 \in 1..n /\ 1 \in 1..(n + Len(pty)) /\ g[k] = f[k] /\ g[1] = f[1]
        BY <1>3, <2>5, <2>7, <3>2
      <4>2. f[k] = f[1] + k - 1 /\ f[k] <= Sent /\ f[k] \in Nat
        BY <2>5, <2>6, <4>1
      <4> QED BY <1>3, <4>1, <4>2
    <3>3. CASE k > n /\ n > 0
      <4>1. f # <<>> /\ 1 \in 1..n /\ n \in 1..n /\ 1 \in 1..(n + Len(pty)) /\ g[1] = f[1]
        BY <1>3, <2>5, <2>7, <3>3, EmptySeq DEF n
      <4>2. f[n] = f[1] + n - 1 /\ f[n] = Sent /\ f[1] \in Nat
        BY <2>5, <2>6, <4>1
      <4>3. g[k] = Sent + (k - n)
        BY <2>8, <3>3
      <4>4. k \in Int /\ n \in Nat /\ k <= n + Len(pty)
        BY <1>3, <2>5
      <4> QED BY <1>3, <4>1, <4>2, <4>3, <4>4
    <3>4. CASE n = 0
      <4>1. 1 \in 1..(n + Len(pty)) /\ 1 > n /\ k > n /\ 1 - n = 1 /\ k - n = k
        BY <1>3, <3>4
      <4>2. g[1] = Sent + (1 - n) /\ g[k] = Sent + (k - n)
        BY <2>8, <4>1
      <4>3. g[1] = Sent + 1 /\ g[k] = Sent + k /\ k \in Int /\ k <= Len(pty)
        BY <3>4, <4>1, <4>2
      <4> QED BY <1>3, <4>3
    <3> QED BY <2>5, <3>2, <3>3, <3>4
  <2>10. \A c \in Clients : Gapless(c)'
    <3>1. Gapless(clientFd)'
      BY <2>1, <2>2, <2>4, <2>7, <2>9 DEF Gapless, f, g
    <3>2. ASSUME NEW d \in Clients \ {clientFd} PROVE Gapless(d)'
      <4>1. Gapless(d)
        BY DEF OutputFlows
      <4>2. \A k \in DOMAIN Flow(d) : Flow(d)[k] <= Sent + Len(pty)
        BY <1>2, <1>3, <4>1 DEF Gapless
      <4> QED BY <2>2, <2>3, <4>1, <4>2 DEF Gapless
    <3> QED BY <2>1, <3>1, <3>2
  <2>11. \A c, d \in Clients : c # d => Apart(c, d)'
    <3>1. ASSUME NEW d \in Clients \ {clientFd} PROVE Apart(clientFd, d)' /\ Apart(d, clientFd)'
      <4>1. ASSUME NEW j \in DOMAIN g, NEW k \in DOMAIN Flow(d) PROVE g[j] # Flow(d)[k]
        <5>1. CASE j <= n
          <6>1. j \in DOMAIN Flow(clientFd) /\ g[j] = Flow(clientFd)[j]
            BY <2>5, <2>7, <4>1, <5>1 DEF f
          <6> QED BY <2>1, <6>1, <4>1 DEF OutputFlows, Apart
        <5>2. CASE j > n
          <6>1. g[j] > Sent
            BY <1>3, <2>5, <2>7, <2>8, <4>1, <5>2
          <6>2. Flow(d)[k] <= Sent /\ Flow(d)[k] \in Nat
            BY <1>2, <4>1 DEF OutputFlows, Gapless
          <6> QED BY <1>3, <2>5, <2>7, <2>8, <4>1, <5>2, <6>1, <6>2
        <5> QED BY <2>5, <2>7, <4>1, <5>1, <5>2
      <4>2. Flow(clientFd)' = g /\ Flow(d)' = Flow(d)
        BY <2>3, <2>4 DEF f, g
      <4> QED BY <2>1, <4>1, <4>2 DEF Apart
    <3>2. ASSUME NEW c \in Clients \ {clientFd}, NEW d \in Clients \ {clientFd}, c # d PROVE Apart(c, d)'
      BY <2>3, <3>2 DEF OutputFlows, Apart
    <3> SUFFICES ASSUME NEW c \in Clients, NEW d \in Clients, c # d PROVE Apart(c, d)'
      OBVIOUS
    <3>3. CASE c = clientFd
      <4>1. Apart(clientFd, d)'
        BY <3>1, <3>3
      <4> QED BY <2>1, <3>3, <4>1 DEF Apart, Flow
    <3>4. CASE d = clientFd
      <4>1. Apart(c, clientFd)'
        BY <3>1, <3>4
      <4> QED BY <2>1, <3>4, <4>1 DEF Apart, Flow
    <3> QED BY <3>2, <3>3, <3>4
  <2>12. Flow(clientFd)' # <<>> => Flow(clientFd)'[Len(Flow(clientFd)')] = Sent'
    <3>1. CASE Len(pty) > 0
      <4>1. g[n + Len(pty)] = Sent + Len(pty)
        BY <1>3, <2>5, <2>8, <3>1
      <4> QED BY <2>1, <2>2, <2>4, <2>7, <4>1 DEF f, g
    <3>2. CASE Len(pty) = 0
      <4>1. g = f
        <5>1. pty = <<>>
          BY <1>3, <3>2, EmptySeq
        <5> QED BY <2>5, <5>1, ConcatEmptySeq DEF g
      <4> QED BY <1>3, <2>2, <2>4, <2>6, <3>2, <4>1 DEF f, g, n
    <3> QED BY <1>3, <3>1, <3>2
  <2> QED BY <2>1, <2>2, <2>10, <2>11, <2>12 DEF OutputFlows
<1>5. CASE ~Delivers
  <2>1. \A c \in Clients : Flow(c)' = Flow(c)
    BY <1>5, FlowsGrow
  <2>2. Sent' >= Sent /\ Sent' \in Nat /\ (\A k \in DOMAIN pty' : pty'[k] = Sent' + k)
        /\ (Sent' # Sent => clientFd' = None)
    <3>1. CASE UNCHANGED <<written, pty>>
      BY <1>3, <3>1 DEF OutputFlows, Sent
    <3>2. CASE ShellWrites
      <4>1. written' = written + 1 /\ pty' = Append(pty, written + 1)
        BY <3>2 DEF ShellWrites
      <4>2. /\ Len(pty') = Len(pty) + 1 /\ DOMAIN pty' = 1..(Len(pty) + 1)
            /\ \A k \in 1..Len(pty) : pty'[k] = pty[k]
            /\ pty'[Len(pty) + 1] = written + 1
        <5>1. written + 1 \in Nat
          BY <1>3
        <5>2. /\ pty' \in Seq(Nat) /\ Len(pty') = Len(pty) + 1
              /\ \A k \in 1..Len(pty) : pty'[k] = pty[k]
              /\ pty'[Len(pty) + 1] = written + 1
          BY <1>3, <4>1, <5>1, Appends
        <5> QED BY <5>2, LenProperties
      <4>3. Sent' = Sent
        BY <1>3, <4>1, <4>2 DEF Sent
      <4>4. \A k \in 1..(Len(pty) + 1) : k \in 1..Len(pty) \/ k = Len(pty) + 1
        BY <1>3
      <4>5. written + 1 = Sent + (Len(pty) + 1)
        BY <1>3 DEF Sent
      <4> QED BY <1>3, <4>2, <4>3, <4>4, <4>5 DEF OutputFlows
    <3>3. CASE Output
      <4>1. UNCHANGED <<written, pty>> \/ (clientFd = None /\ clientFd' = None /\ pty' = <<>> /\ written' = written)
        BY <1>5, <3>3 DEF Delivers, Output
      <4>2. CASE clientFd' = None /\ pty' = <<>> /\ written' = written
        <5>1. Sent' = written /\ DOMAIN pty' = {}
          BY <1>3, <4>2, EmptySeq DEF Sent
        <5> QED BY <1>3, <4>2, <5>1 DEF Sent
      <4> QED BY <3>1, <4>1, <4>2
    <3>4. CASE ~ShellWrites /\ ~Output
      <4>1. UNCHANGED <<written, pty>>
        BY <3>4 DEF AnyScreenStep, ShellEnds, Poll, Accept, Input, Connect, Sends, Leave, Receive, cvars
      <4> QED BY <3>1, <4>1
    <3> QED BY <3>2, <3>3, <3>4
  <2>3. \A c \in Clients : Gapless(c)'
    <3>1. TAKE c \in Clients
    <3>2. Gapless(c)
      BY DEF OutputFlows
    <3>3. \A k \in DOMAIN Flow(c) : Flow(c)[k] <= Sent'
      BY <1>2, <1>3, <2>2, <3>2 DEF Gapless
    <3> QED BY <2>1, <3>2, <3>3 DEF Gapless
  <2>4. \A c, d \in Clients : c # d => Apart(c, d)'
    BY <2>1 DEF OutputFlows, Apart
  <2>5. clientFd' # None /\ Flow(clientFd)' # <<>> => Flow(clientFd)'[Len(Flow(clientFd)')] = Sent'
    <3>1. CASE clientFd' \in {clientFd, None}
      <4>1. SUFFICES ASSUME clientFd' # None PROVE Flow(clientFd)' # <<>> => Flow(clientFd)'[Len(Flow(clientFd)')] = Sent'
        OBVIOUS
      <4>2. clientFd' = clientFd /\ clientFd \in Clients /\ Sent' = Sent
        BY <2>2, <3>1, <4>1 DEF SessionTypes
      <4>3. \A c \in Clients : c = clientFd => Flow(clientFd)' = Flow(c)
        BY <2>1, <4>2 DEF Flow
      <4> QED BY <4>1, <4>2, <4>3 DEF OutputFlows
    <3>2. CASE clientFd' \notin {clientFd, None}
      <4>1. Accept /\ "listen" \in events
        BY <3>2 DEF AnyScreenStep, ShellWrites, ShellEnds, Poll, Accept, Output, Input, Connect, Sends, Leave,
                    Receive
      <4>2. backlog # <<>> /\ clientFd' = Head(backlog)
        BY <4>1 DEF Accept, NewcomersAreNew
      <4>3. PICK c \in Clients : c = Head(backlog) /\ Flow(c) = <<>>
        <5>1. 1 \in DOMAIN backlog /\ backlog[1] \in Clients /\ Head(backlog) = backlog[1]
          BY <4>2, LenProperties, ElementOfSeq, EmptySeq DEF SessionTypes
        <5> QED BY <5>1 DEF NewcomersAreNew, New
      <4>4. Flow(c)' = <<>> /\ clientFd' = c
        BY <2>1, <4>2, <4>3
      <4> QED BY <4>4 DEF Flow
    <3> QED BY <3>1, <3>2
  <2> QED BY <2>2, <2>3, <2>4, <2>5 DEF OutputFlows
<1> QED BY <1>4, <1>5

-----------------------------------------------------------------------------
\* A read takes all that a client has sent, and that follows what was read of it.
LEMMA InputKept == SessionTypes /\ InputFlows /\ AnyScreenStep => InputFlows'
<1> SUFFICES ASSUME SessionTypes, InputFlows, AnyScreenStep PROVE InputFlows'
  OBVIOUS
<1>1. /\ got \in Seq(Keys) /\ Len(got) \in Nat /\ DOMAIN got = 1..Len(got)
      /\ \A i \in DOMAIN got : got[i] \in Keys /\ got[i].from \in Clients /\ got[i].key \in Nat
  <2>1. got \in Seq(Keys)
    BY DEF SessionTypes
  <2>2. Len(got) \in Nat /\ DOMAIN got = 1..Len(got) /\ \A i \in DOMAIN got : got[i] \in Keys
    BY <2>1, LenProperties, ElementOfSeq
  <2> QED BY <2>1, <2>2 DEF Keys
<1>2. ASSUME NEW c \in Clients
      PROVE  /\ typed[c] \in Nat /\ inbox[c] \in Seq(Keys) /\ Len(inbox[c]) \in Nat
             /\ DOMAIN inbox[c] = 1..Len(inbox[c]) /\ Heard(c) \in Nat
  <2>1. typed[c] \in Nat /\ inbox[c] \in Seq(Keys)
    BY DEF SessionTypes
  <2>2. Len(inbox[c]) \in Nat /\ DOMAIN inbox[c] = 1..Len(inbox[c])
    BY <2>1, LenProperties
  <2>3. Heard(c) >= 0
    BY DEF InputFlows
  <2> QED BY <2>1, <2>2, <2>3 DEF Heard
<1>3. CASE UNCHANGED <<inbox, typed, got>>
  BY <1>3 DEF InputFlows, Heard
<1>4. ASSUME NEW c \in Clients, Sends(c), c \in ours PROVE InputFlows'
  <2> DEFINE key == [from |-> c, key |-> typed[c] + 1]
             n == Len(inbox[c])
  <2>1. got' = got /\ inbox' = [inbox EXCEPT ![c] = Append(inbox[c], key)]
        /\ typed' = [typed EXCEPT ![c] = typed[c] + 1]
    BY <1>4 DEF Sends
  <2>2. \A d \in Clients \ {c} : inbox'[d] = inbox[d] /\ typed'[d] = typed[d]
    BY <2>1 DEF SessionTypes
  <2>3. inbox'[c] = Append(inbox[c], key) /\ typed'[c] = typed[c] + 1
    BY <2>1 DEF SessionTypes
  <2>4. /\ Len(inbox'[c]) = n + 1 /\ DOMAIN inbox'[c] = 1..(n + 1)
        /\ \A k \in 1..n : inbox'[c][k] = inbox[c][k]
        /\ inbox'[c][n + 1] = key
    <3>1. key \in Keys /\ inbox[c] \in Seq(Keys)
      <4>1. typed[c] + 1 \in Nat
        BY <1>2
      <4>2. key \in Keys
        BY <4>1 DEF Keys
      <4> QED BY <1>2, <4>2
    <3>2. /\ inbox'[c] \in Seq(Keys) /\ Len(inbox'[c]) = n + 1
          /\ \A k \in 1..n : inbox'[c][k] = inbox[c][k]
          /\ inbox'[c][n + 1] = key
      BY <2>3, <3>1, Appends
    <3> QED BY <3>2, LenProperties
  <2>5. \A d \in Clients : Heard(d)' = Heard(d)
    <3>1. Heard(c)' = Heard(c)
      BY <1>2, <2>3, <2>4 DEF Heard
    <3>2. \A d \in Clients \ {c} : Heard(d)' = Heard(d)
      BY <2>2 DEF Heard
    <3> QED BY <3>1, <3>2
  <2>6. \A k \in 1..(n + 1) : inbox'[c][k] = [from |-> c, key |-> Heard(c) + k]
    <3>1. TAKE k \in 1..(n + 1)
    <3>2. k \in 1..n \/ k = n + 1
      BY <1>2
    <3>3. Heard(c) + (n + 1) = typed[c] + 1
      BY <1>2 DEF Heard
    <3> QED BY <1>2, <2>4, <3>2, <3>3 DEF InputFlows
  <2>7. \A d \in Clients : \A k \in DOMAIN inbox'[d] : inbox'[d][k] = [from |-> d, key |-> Heard(d)' + k]
    BY <2>2, <2>4, <2>5, <2>6 DEF InputFlows
  <2> QED BY <1>1, <2>1, <2>5, <2>7 DEF InputFlows
<1>5. ASSUME Input, Reads PROVE InputFlows'
  <2>1. PICK c \in Clients : c = clientFd
    BY <1>5 DEF Reads, SessionTypes
  <2> DEFINE n == Len(inbox[c])
             H(d) == typed'[d] - Len(inbox'[d])
  <2>2. inbox' = [inbox EXCEPT ![c] = <<>>] /\ typed' = typed
    BY <1>5, <2>1 DEF Input, cvars
  <2>3. \A d \in Clients \ {c} : inbox'[d] = inbox[d] /\ H(d) = Heard(d)
    BY <2>2 DEF SessionTypes, Heard
  <2>4. inbox'[c] = <<>> /\ DOMAIN inbox'[c] = {} /\ H(c) = typed[c] /\ typed[c] = Heard(c) + n
    <3>1. inbox'[c] = <<>>
      BY <2>1, <2>2 DEF SessionTypes
    <3>2. Len(<<>>) = 0
      BY EmptySeq
    <3>3. typed[c] \in Nat /\ n \in Nat
      BY <1>2, <2>1
    <3>4. H(c) = typed[c] - 0
      BY <2>2, <3>1, <3>2 DEF Heard
    <3>5. Heard(c) = typed[c] - n
      BY DEF Heard
    <3> QED BY <3>1, <3>3, <3>4, <3>5
  <2>5. \A k \in 1..n : inbox[c][k] = [from |-> c, key |-> Heard(c) + k]
    BY <1>2, <2>1 DEF InputFlows
  <2>6. n > 0 => inbox[c] # <<>> /\ Head(inbox[c]) = inbox[c][1] /\ Head(inbox[c]).from = c
    <3>1. SUFFICES ASSUME n > 0 PROVE inbox[c] # <<>> /\ Head(inbox[c]) = inbox[c][1] /\ Head(inbox[c]).from = c
      OBVIOUS
    <3>2. n \in Nat /\ 1 \in 1..n
      BY <1>2, <2>1, <3>1
    <3>3. inbox[c] # <<>>
      BY <3>1, EmptySeq
    <3>4. inbox[c][1] = [from |-> c, key |-> Heard(c) + 1]
      BY <2>5, <3>2
    <3>5. Head(inbox[c]) = inbox[c][1]
      BY <1>2, <2>1, <3>3
    <3> QED BY <3>3, <3>4, <3>5
  <2>7. \A d \in Clients : H(d) >= Heard(d) /\ H(d) \in Nat /\ Heard(d) \in Nat
    <3>1. TAKE d \in Clients
    <3>2. Heard(d) \in Nat /\ n \in Nat
      BY <1>2, <2>1
    <3>3. CASE d = c
      <4>1. H(c) = Heard(c) + n
        BY <2>4
      <4> QED BY <3>2, <3>3, <4>1
    <3>4. CASE d # c
      BY <2>3, <3>2, <3>4
    <3> QED BY <3>3, <3>4
  <2>8. \A d \in Clients : \A k \in DOMAIN inbox'[d] : inbox'[d][k] = [from |-> d, key |-> H(d) + k]
    BY <2>3, <2>4 DEF InputFlows
  <2> HIDE DEF H
  <2>9. CASE Says(clientFd)
    <3>1. got' = got /\ c = Detacher
      <4>1. n > 0
        BY <1>2, <2>1, <2>9, EmptySeq DEF Says
      <4> QED BY <1>5, <2>1, <2>9, <2>6, <4>1 DEF Input, Says
    <3>2. \A i \in DOMAIN got : got[i].key \in 1..H(got[i].from)
      <4>1. TAKE i \in DOMAIN got
      <4>2. got[i].key \in Nat /\ got[i].key >= 1 /\ got[i].key <= Heard(got[i].from) /\ got[i].from \in Clients
        BY <1>1, <2>7 DEF InputFlows
      <4> QED BY <2>7, <4>2
    <3>3. DOMAIN got' = DOMAIN got /\ \A i : got'[i] = got[i]
      BY <3>1
    <3>4. \A i \in DOMAIN got' : got'[i].from # Detacher /\ got'[i].key \in 1..H(got'[i].from)
      BY <3>2, <3>3 DEF InputFlows
    <3>5. \A d \in Clients \ {Detacher} : \A k \in 1..H(d) : \E i \in DOMAIN got : got[i] = [from |-> d, key |-> k]
      BY <2>3, <3>1 DEF InputFlows
    <3>6. \A d \in Clients : H(d) >= 0
      BY <2>7
    <3> QED BY <2>8, <3>1, <3>4, <3>5, <3>6 DEF InputFlows, Heard, H
  <2>10. CASE ~Says(clientFd)
    <3> DEFINE m == Len(got)
               now == got \o inbox[c]
    <3>1. got' = now
      BY <1>5, <2>1, <2>10 DEF Input
    <3>2. /\ DOMAIN now = 1..(m + n) /\ m \in Nat /\ n \in Nat
          /\ \A i \in 1..(m + n) : now[i] = IF i <= m THEN got[i] ELSE inbox[c][i - m]
      <4>1. /\ now \in Seq(Keys) /\ Len(now) = m + n
            /\ \A i \in 1..(m + n) : now[i] = IF i <= m THEN got[i] ELSE inbox[c][i - m]
        BY <1>1, <1>2, <2>1, Joins
      <4> QED BY <1>1, <1>2, <2>1, <4>1, LenProperties
    <3>3. n > 0 => c # Detacher
      BY <2>1, <2>10, <2>6 DEF Says
    <3> HIDE DEF now, n, m
    <3>4. ASSUME NEW i \in 1..(m + n)
          PROVE  \/ i \in DOMAIN got /\ now[i] = got[i] /\ i <= m
                 \/ i > m /\ n > 0 /\ now[i] = [from |-> c, key |-> Heard(c) + (i - m)] /\ i - m \in 1..n
      <4>1. CASE i <= m
        BY <1>1, <3>2, <4>1 DEF m
      <4>2. CASE i > m
        <5>1. i - m \in 1..n /\ n > 0
          BY <3>2, <4>2
        <5>2. now[i] = inbox[c][i - m]
          BY <3>2, <4>2
        <5>3. inbox[c][i - m] = [from |-> c, key |-> Heard(c) + (i - m)]
          BY <2>5, <5>1 DEF n
        <5> QED BY <4>2, <5>1, <5>2, <5>3
      <4> QED BY <3>2, <4>1, <4>2
    <3>5. \A i \in DOMAIN got : i \in DOMAIN now /\ now[i] = got[i] /\ i <= m
      BY <1>1, <3>2 DEF m
    <3>6. \A i \in DOMAIN now : now[i].from # Detacher /\ now[i].key \in 1..H(now[i].from)
      <4>1. TAKE i \in DOMAIN now
      <4>2. CASE i \in DOMAIN got /\ now[i] = got[i]
        <5>1. got[i].key \in Nat /\ got[i].key >= 1 /\ got[i].key <= Heard(got[i].from)
              /\ got[i].from \in Clients /\ got[i].from # Detacher
          BY <1>1, <2>7, <4>2 DEF InputFlows
        <5> QED BY <2>7, <4>2, <5>1
      <4>3. CASE n > 0 /\ now[i] = [from |-> c, key |-> Heard(c) + (i - m)] /\ i - m \in 1..n
        <5>1. now[i].from = c /\ now[i].key = Heard(c) + (i - m)
          BY <4>3
        <5>2. Heard(c) + (i - m) \in 1..(Heard(c) + n)
          BY <1>2, <2>1, <3>2, <4>3
        <5>3. H(c) = Heard(c) + n
          BY <2>4 DEF n
        <5> QED BY <3>3, <4>3, <5>1, <5>2, <5>3
      <4> QED BY <3>2, <3>4, <4>2, <4>3
    <3>7. ASSUME NEW d \in Clients \ {Detacher}, NEW k \in 1..H(d)
          PROVE  \E i \in DOMAIN now : now[i] = [from |-> d, key |-> k]
      <4>1. CASE k \in 1..Heard(d)
        <5>1. PICK i \in DOMAIN got : got[i] = [from |-> d, key |-> k]
          BY <4>1 DEF InputFlows
        <5> QED BY <3>5, <5>1
      <4>2. CASE k \notin 1..Heard(d)
        <5>1. d = c /\ k \in 1..(Heard(c) + n) /\ k > Heard(c)
          BY <2>3, <2>4, <2>7, <4>2, <3>7
        <5>2. m + (k - Heard(c)) \in 1..(m + n) /\ m + (k - Heard(c)) > m
              /\ Heard(c) + ((m + (k - Heard(c))) - m) = k
          BY <2>1, <2>7, <3>2, <5>1
        <5>3. now[m + (k - Heard(c))] = [from |-> c, key |-> k]
          BY <2>1, <3>2, <3>4, <5>2
        <5> QED BY <3>2, <5>1, <5>2, <5>3
      <4> QED BY <4>1, <4>2
    <3>8. ASSUME NEW i \in DOMAIN now, NEW j \in DOMAIN now, i < j, now[i].from = now[j].from
          PROVE  now[i].key < now[j].key
      <4>1. CASE j <= m
        BY <3>2, <3>4, <3>8, <4>1 DEF InputFlows
      <4>2. CASE j > m
        <5>1. now[j].from = c /\ now[j].key = Heard(c) + (j - m) /\ j - m > 0
          BY <3>2, <3>4, <4>2
        <5>2. CASE i <= m
          <6>1. i \in DOMAIN got /\ now[i] = got[i] /\ got[i].from = c
            BY <3>2, <3>4, <3>8, <5>1, <5>2
          <6>2. got[i].key <= Heard(c) /\ got[i].key \in Nat
            BY <1>1, <2>1, <2>7, <6>1 DEF InputFlows
          <6> QED BY <2>1, <2>7, <3>2, <5>1, <6>1, <6>2
        <5>3. CASE i > m
          <6>1. now[i].key = Heard(c) + (i - m)
            BY <3>2, <3>4, <5>3
          <6> QED BY <2>1, <2>7, <3>2, <3>8, <5>1, <6>1
        <5> QED BY <3>2, <5>2, <5>3
      <4> QED BY <3>2, <4>1, <4>2
    <3>9. \A d \in Clients : H(d) >= 0
      BY <2>7
    <3> QED BY <2>8, <3>1, <3>6, <3>7, <3>8, <3>9 DEF InputFlows, Heard, H
  <2> QED BY <2>9, <2>10
<1> QED
  <2>1. CASE \E c \in Clients : Sends(c)
    <3>1. PICK c \in Clients : Sends(c)
      BY <2>1
    <3>2. CASE c \notin ours
      BY <1>3, <3>1, <3>2 DEF Sends
    <3> QED BY <1>4, <3>1, <3>2
  <2>2. CASE Input
    <3>1. ~Reads => UNCHANGED <<inbox, typed, got>>
      BY <2>2 DEF Input, cvars
    <3> QED BY <1>3, <1>5, <2>2, <3>1
  <2>3. CASE ~Input /\ ~\E c \in Clients : Sends(c)
    <3>1. UNCHANGED <<inbox, typed, got>>
      BY <2>3 DEF AnyScreenStep, ShellWrites, ShellEnds, Poll, Accept, Output, Connect, Leave, Receive, cvars
    <3> QED BY <1>3, <3>1
  <2> QED BY <2>1, <2>2, <2>3

-----------------------------------------------------------------------------
\* The invariant is inductive.
LEMMA SNext == SInv /\ [ScreenNext]_vars => SInv'
<1> SUFFICES ASSUME SInv, [ScreenNext]_vars PROVE SInv'
  OBVIOUS
<1>1. CASE AnyScreenStep
  BY <1>1, TypesKept, NewcomersKept, OutputKept, InputKept DEF SInv
<1>2. CASE UNCHANGED vars
  <2>1. SessionTypes'
    BY <1>2 DEF SInv, SessionTypes, vars
  <2>2. NewcomersAreNew'
    BY <1>2 DEF SInv, NewcomersAreNew, New, Flow, vars
  <2>3. OutputFlows'
    <3>1. UNCHANGED <<clientFd, seen, outbox, written, pty>>
      BY <1>2 DEF vars
    <3>2. Sent' = Sent /\ \A k \in DOMAIN pty' : pty'[k] = Sent' + k
      BY <3>1 DEF SInv, OutputFlows, Sent
    <3>3. \A c \in Clients : Gapless(c)'
      BY <3>1, <3>2 DEF SInv, OutputFlows, Gapless, Flow
    <3>4. \A c, d \in Clients : c # d => Apart(c, d)'
      <4>1. \A c : Flow(c)' = Flow(c)
        BY <3>1 DEF Flow
      <4> QED BY <4>1 DEF SInv, OutputFlows, Apart
    <3>5. Flow(clientFd)' = Flow(clientFd) /\ clientFd' = clientFd
      BY <3>1 DEF Flow
    <3> QED BY <3>2, <3>3, <3>4, <3>5 DEF SInv, OutputFlows
  <2>4. InputFlows'
    BY <1>2 DEF SInv, InputFlows, Heard, vars
  <2> QED BY <2>1, <2>2, <2>3, <2>4 DEF SInv
<1> QED BY <1>1, <1>2, ScreenSteps

\* It says what the properties say.
LEMMA SParts == SInv => OutputIsPartedOut
<1> SUFFICES ASSUME SInv PROVE OutputIsPartedOut
  OBVIOUS
<1>1. ASSUME NEW c \in Clients
      PROVE  Flow(c) # <<>> => Flow(c) = Numbers(Head(Flow(c)), Last(Flow(c)))
  <2> SUFFICES ASSUME Flow(c) # <<>> PROVE Flow(c) = Numbers(Head(Flow(c)), Last(Flow(c)))
    OBVIOUS
  <2> DEFINE f == Flow(c)
             n == Len(f)
  <2>1. f \in Seq(Nat)
    <3>1. seen[c] \in Seq(Nat) /\ outbox[c] \in Seq(Nat)
      BY DEF SInv, SessionTypes
    <3> QED BY <3>1, Joins DEF Flow
  <2>2. Gapless(c)
    BY DEF SInv, OutputFlows
  <2>3. n \in Nat /\ n > 0 /\ DOMAIN f = 1..n /\ f[1] \in Nat
    BY <2>1, EmptySeq, LenProperties, ElementOfSeq
  <2>4. \A k \in 1..n : f[k] = f[1] + k - 1
    BY <2>2, <2>3 DEF Gapless
  <2>5. Head(f) = f[1] /\ Last(f) = f[n]
    BY <2>1 DEF Last
  <2> HIDE DEF f, n
  <2>6. f[n] = f[1] + n - 1
    BY <2>3, <2>4
  <2>7. Numbers(f[1], f[n]) = [k \in 1..n |-> f[1] + k - 1]
    <3>1. (IF f[n] < f[1] THEN 0 ELSE f[n] - f[1] + 1) = n
      BY <2>3, <2>6
    <3> QED BY <3>1 DEF Numbers
  <2>8. f = [k \in 1..n |-> f[k]]
    BY <2>1, <2>3, LenProperties DEF n
  <2>9. f = Numbers(f[1], f[n])
    BY <2>4, <2>7, <2>8
  <2> QED BY <2>5, <2>9 DEF f
<1>2. ASSUME NEW c \in Clients, NEW d \in Clients, c # d PROVE ToSet(Flow(c)) \cap ToSet(Flow(d)) = {}
  <2>1. Apart(c, d)
    BY <1>2 DEF SInv, OutputFlows
  <2> QED BY <2>1 DEF Apart, ToSet
<1> QED BY <1>1, <1>2 DEF OutputIsPartedOut, Flow

LEMMA SHears == SInv => InputIsAsTyped
<1> SUFFICES ASSUME SInv PROVE InputIsAsTyped
  OBVIOUS
<1> SUFFICES ASSUME NEW i \in DOMAIN got
             PROVE  /\ got[i].from # Detacher /\ got[i].key \in 1..typed[got[i].from]
                    /\ \A k \in 1..typed[got[i].from] :
                            k < got[i].key <=> \E j \in 1..(i - 1) : got[j] = [from |-> got[i].from, key |-> k]
  BY DEF InputIsAsTyped
<1>1. /\ DOMAIN got = 1..Len(got) /\ Len(got) \in Nat
      /\ \A j \in DOMAIN got : got[j] \in Keys /\ got[j].from \in Clients /\ got[j].key \in Nat
  <2>1. got \in Seq(Keys)
    BY DEF SInv, SessionTypes
  <2>2. DOMAIN got = 1..Len(got) /\ Len(got) \in Nat /\ \A j \in DOMAIN got : got[j] \in Keys
    BY <2>1, LenProperties, ElementOfSeq
  <2> QED BY <2>2 DEF Keys
<1>2. PICK c \in Clients : c = got[i].from
  BY <1>1
<1>3. Heard(c) \in Nat /\ Heard(c) <= typed[c] /\ typed[c] \in Nat
  <2>1. typed[c] \in Nat /\ inbox[c] \in Seq(Keys)
    BY DEF SInv, SessionTypes
  <2>2. Len(inbox[c]) \in Nat
    BY <2>1, LenProperties
  <2>3. Heard(c) >= 0
    BY DEF SInv, InputFlows
  <2> QED BY <2>1, <2>2, <2>3 DEF Heard
<1>4. c # Detacher /\ got[i].key \in 1..Heard(c)
  BY <1>2 DEF SInv, InputFlows
<1>5. ASSUME NEW k \in 1..typed[c], k < got[i].key
      PROVE  \E j \in 1..(i - 1) : got[j] = [from |-> c, key |-> k]
  <2>1. k \in 1..Heard(c)
    BY <1>3, <1>4, <1>5
  <2>2. PICK j \in DOMAIN got : got[j] = [from |-> c, key |-> k]
    BY <1>4, <2>1 DEF SInv, InputFlows
  <2>3. got[j].from = c /\ got[j].key = k
    BY <2>2
  <2>4. ~(i < j) /\ i # j
    <3>1. i < j => got[i].key < got[j].key
      BY <1>2, <2>3 DEF SInv, InputFlows
    <3> QED BY <1>1, <1>5, <2>3, <3>1
  <2>5. j \in 1..(i - 1)
    BY <1>1, <2>4
  <2> QED BY <2>2, <2>5
<1>6. ASSUME NEW k \in 1..typed[c], NEW j \in 1..(i - 1), got[j] = [from |-> c, key |-> k]
      PROVE  k < got[i].key
  <2>1. j \in DOMAIN got /\ j < i
    BY <1>1
  <2>2. got[j].from = c /\ got[j].key = k
    BY <1>6
  <2> QED BY <1>2, <2>1, <2>2 DEF SInv, InputFlows
<1> QED BY <1>2, <1>3, <1>4, <1>5, <1>6

\* Whoever attaches, leaves, or is replaced between two polls, each client is shown a
\* gapless part of the output that no other is shown (screen.rs:575), and the shell
\* reads each user's keys in order and once, and never DETACH (screen.rs:583).
THEOREM SessionsStayRight == ScreenSpec => [](OutputIsPartedOut /\ InputIsAsTyped)
<1>1. SInv => OutputIsPartedOut /\ InputIsAsTyped
  BY SParts, SHears
<1> QED BY SInit, SNext, <1>1, PTL DEF ScreenSpec
=============================================================================
