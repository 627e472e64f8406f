---------------------------------- MODULE Nbd ----------------------------------
(***************************************************************************)
(* Network block devices: nbd-client's handshake                           *)
(* (src/src/applets/network/nbd_client.rs), the kernel that sends requests *)
(* afterwards, and nbd-server (nbd_server.rs), one process per connection, *)
(* all serving one file.                                                   *)
(*                                                                         *)
(* The client also meets servers that are not nbd-server: of the old       *)
(* style, or without NBD_OPT_GO, refusing it with or without a text.  What *)
(* travels on a connection is a sequence of parts; who reads a part of     *)
(* another kind than the one that is due takes its bytes for that.         *)
(***************************************************************************)
EXTENDS Integers, Sequences, FiniteSetsExt

CONSTANTS Conns,        \* connections
          Styles,       \* servers met: functions from connections to
                        \* "ours", "oldstyle", "refuses", "refuses_with_text"
          Sizes,        \* sizes of the file, in blocks
          MaxRequests   \* bound: requests of a behaviour

NbdAssumption == Sizes \subseteq Nat

VARIABLES
    style, size, readOnly,  \* the servers, the export and option -r
    client,    \* client[c]: what nbd_handshake reads next; then "ready", "failed"
    server,    \* server[c]: "flags", "options", "opening", "requests";
               \* "closed" after the requests, "failed" before them
    zeroes,    \* zeroes[c]: padding was agreed on
    export,    \* export[c]: [size, readOnly] as the client learned it
    up, down,  \* up[c], down[c]: parts on their way
    blocks,    \* the file: how often each block was written
    torn,      \* the blocks of which the latest write stopped half-way
    acked,     \* acked[b]: the newest content of b that was acknowledged
    requests,  \* requests so far; their number is the handle
    waiting    \* waiting[c]: requests without a reply

nvars == <<style, size, readOnly, client, server, zeroes, export, up, down,
           blocks, torn, acked, requests, waiting>>

Unknown == [size |-> -1, readOnly |-> FALSE]
Export == [size |-> size, readOnly |-> readOnly]
Part(kind) == [kind |-> kind]
Old(c) == style[c] = "oldstyle"
Ours(c) == style[c] = "ours"

\* What the server says first.  Ours offers to leave the padding out.
Greeting(c) == IF Old(c) THEN <<[kind |-> "old", export |-> Export], Part("zeroes")>>
               ELSE <<Part("new")>>

Init ==
    /\ style \in Styles /\ size \in Sizes /\ readOnly \in BOOLEAN
    /\ client = [c \in Conns |-> "greeting"]
    /\ server = [c \in Conns |-> IF Old(c) THEN "requests" ELSE "flags"]
    /\ zeroes = [c \in Conns |-> FALSE]
    /\ export = [c \in Conns |-> Unknown]
    /\ up = [c \in Conns |-> <<>>]
    /\ down = [c \in Conns |-> Greeting(c)]
    /\ blocks = [b \in 1..size |-> 0] /\ acked = [b \in 1..size |-> 0] /\ torn = {}
    /\ requests = 0 /\ waiting = [c \in Conns |-> {}]

AtClient(c, kind) == down[c] # <<>> /\ down[c][1].kind = kind
AtServer(c, kind) == up[c] # <<>> /\ up[c][1].kind = kind
Served == <<style, size, readOnly>>
File == <<blocks, torn>>
Traffic == <<File, acked, requests, waiting>>
ClientGoes(c, state) == client' = [client EXCEPT ![c] = state]
Send(c, parts) == up' = [up EXCEPT ![c] = @ \o parts]
Skip(c, n) == down' = [down EXCEPT ![c] = SubSeq(@, n + 1, Len(@))]
Learn(c, e) == export' = [export EXCEPT ![c] = e]

-----------------------------------------------------------------------------
(* nbd_handshake                                                           *)

OldHandshake(c) ==
    /\ client[c] = "greeting" /\ AtClient(c, "old")
    /\ Learn(c, down[c][1].export)
    /\ ClientGoes(c, "ready") /\ Skip(c, 2)
    /\ UNCHANGED <<Served, server, zeroes, up, Traffic>>

\* newstyle_handshake: the flags, and at once try_opt_go.
NewHandshake(c) ==
    /\ client[c] = "greeting" /\ AtClient(c, "new")
    /\ zeroes' = [zeroes EXCEPT ![c] = ~Ours(c)]
    /\ Send(c, <<Part("flags"), Part("go")>>)
    /\ ClientGoes(c, "go") /\ Skip(c, 1)
    /\ UNCHANGED <<Served, server, export, Traffic>>

GoInfo(c) ==
    /\ client[c] = "go" /\ AtClient(c, "info")
    /\ Learn(c, down[c][1].export)
    /\ Skip(c, 1)
    /\ UNCHANGED <<Served, client, server, zeroes, up, Traffic>>

\* NBD_REP_ACK ends it; an export of size 0 counts as no answer.
GoAck(c) ==
    /\ client[c] = "go" /\ AtClient(c, "ack")
    /\ IF export[c].size > 0 THEN ClientGoes(c, "ready") /\ UNCHANGED up
       ELSE ClientGoes(c, "export") /\ Send(c, <<Part("export_name")>>)
    /\ Skip(c, 1)
    /\ UNCHANGED <<Served, server, zeroes, export, Traffic>>

\* An error, and its text, are read; the older NBD_OPT_EXPORT_NAME is tried.
\* (A text of 1024 bytes and more would remain.)
GoRefused(c) ==
    /\ client[c] = "go" /\ AtClient(c, "error")
    /\ down[c][1].text => Len(down[c]) > 1
    /\ ClientGoes(c, "export") /\ Send(c, <<Part("export_name")>>)
    /\ Skip(c, IF down[c][1].text THEN 2 ELSE 1)
    /\ UNCHANGED <<Served, server, zeroes, export, Traffic>>

\* Size, flags and padding, as far as agreed.  A text would be taken for them.
ExportName(c) ==
    /\ client[c] = "export" /\ down[c] # <<>>
    /\ zeroes[c] => Len(down[c]) > 1
    /\ Learn(c, IF AtClient(c, "export") THEN down[c][1].export ELSE Unknown)
    /\ ClientGoes(c, "ready") /\ Skip(c, IF zeroes[c] THEN 2 ELSE 1)
    /\ UNCHANGED <<Served, server, zeroes, up, Traffic>>

\* The end of the stream where something is due.
HandshakeFails(c) ==
    /\ client[c] \in {"greeting", "go", "export"} /\ down[c] = <<>>
    /\ server[c] \in {"closed", "failed"}
    /\ ClientGoes(c, "failed")
    /\ UNCHANGED <<Served, server, zeroes, export, up, down, Traffic>>

-----------------------------------------------------------------------------
(* handle_client, until the requests (of other servers: what they answer)  *)

Rest(c, n) == up' = [up EXCEPT ![c] = SubSeq(@, n + 1, Len(@))]
Answer(c, parts) == down' = [down EXCEPT ![c] = @ \o parts]
ServerGoes(c, state) == server' = [server EXCEPT ![c] = state]

ReadFlags(c) ==
    /\ server[c] = "flags" /\ AtServer(c, "flags")
    /\ ServerGoes(c, "options") /\ Rest(c, 1)
    /\ UNCHANGED <<Served, client, zeroes, export, down, Traffic>>

OptGo(c) ==
    /\ server[c] = "options" /\ AtServer(c, "go")
    /\ IF Ours(c)
       THEN /\ Answer(c, <<[kind |-> "info", export |-> Export], Part("ack")>>)
            /\ ServerGoes(c, "opening")
       ELSE LET text == style[c] = "refuses_with_text"
            IN  /\ Answer(c, <<[kind |-> "error", text |-> text]>> \o
                             (IF text THEN <<Part("text")>> ELSE <<>>))
                /\ UNCHANGED server
    /\ Rest(c, 1)
    /\ UNCHANGED <<Served, client, zeroes, export, Traffic>>

OptExportName(c) ==
    /\ server[c] = "options" /\ AtServer(c, "export_name")
    /\ Answer(c, <<[kind |-> "export", export |-> Export]>> \o
                 (IF zeroes[c] THEN <<Part("zeroes")>> ELSE <<>>))
    /\ ServerGoes(c, IF Ours(c) THEN "opening" ELSE "requests") /\ Rest(c, 1)
    /\ UNCHANGED <<Served, client, zeroes, export, Traffic>>

\* Only then FILE is opened, read-only or for both.
OpenFile(c) ==
    /\ server[c] = "opening"
    /\ ServerGoes(c, "requests")
    /\ UNCHANGED <<Served, client, zeroes, export, up, down, Traffic>>

\* It cannot be: it was removed or, with -c, may not be written, or its name is
\* relative, and the daemon has gone to /.  The client thinks that it has a device.
OpenFails(c) ==
    /\ server[c] = "opening"
    /\ ServerGoes(c, "failed")
    /\ UNCHANGED <<Served, client, zeroes, export, up, down, Traffic>>

-----------------------------------------------------------------------------
(* Requests: the kernel's, and handle_client's answers                     *)

Request(cmd, b, handle, floor) ==
    [kind |-> "request", cmd |-> cmd, block |-> b, handle |-> handle, floor |-> floor]

\* The kernel sends what the device's users ask for; it may have several
\* requests outstanding.  floor: the content that a read must at least see.
Ask(c, cmd, b) ==
    /\ client[c] = "ready" /\ Ours(c) /\ requests < MaxRequests
    /\ b \in 1..export[c].size
    /\ requests' = requests + 1
    /\ LET m == Request(cmd, b, requests + 1, acked[b])
       IN  /\ Send(c, IF cmd = "write" THEN <<m, Part("data")>> ELSE <<m>>)
           /\ waiting' = [waiting EXCEPT ![c] = @ \cup {m}]
    /\ UNCHANGED <<Served, client, server, zeroes, export, down, File, acked>>

Disconnect(c) ==
    /\ client[c] = "ready" /\ Ours(c) /\ waiting[c] = {}
    /\ Send(c, <<Request("disconnect", 0, 0, 0)>>)
    /\ ClientGoes(c, "disconnected")
    /\ UNCHANGED <<Served, server, zeroes, export, down, Traffic>>

\* cut: not all of what is returned was read, or written by one write.
Reply(m, error, content, cut) ==
    [kind |-> "reply", handle |-> m.handle, error |-> error, content |-> content, cut |-> cut]
Due(c, cmd) == server[c] = "requests" /\ AtServer(c, "request") /\ up[c][1].cmd = cmd

\* A read that falls short is filled up with zeroes.
Read(c) ==
    /\ Due(c, "read")
    /\ LET m == up[c][1]
       IN  \E cut \in BOOLEAN :
               /\ m.block \in torn => cut
               /\ Answer(c, <<Reply(m, FALSE, IF cut THEN 0 ELSE blocks[m.block], cut)>>)
    /\ Rest(c, 1)
    /\ UNCHANGED <<Served, client, server, zeroes, export, File, acked, requests, waiting>>

\* (mutant: the data are written after the acknowledgement, with the next)
Write_Later(c) ==
    /\ Due(c, "write") /\ ~readOnly
    /\ Answer(c, <<Reply(up[c][1], FALSE, blocks[up[c][1].block] + 1, FALSE)>>)
    /\ Rest(c, 2)
    /\ UNCHANGED <<Served, client, server, zeroes, export, File, acked, requests, waiting>>

\* Nobody looks at what writing the data returns: a write that stops half-way is
\* acknowledged as well.  The next one repairs the block.  (-c writes like no option.)
Write(c) ==
    /\ Due(c, "write") /\ ~readOnly
    /\ LET m == up[c][1]
       IN  /\ torn' \in {torn \ {m.block}, torn \cup {m.block}}
           /\ blocks' = [blocks EXCEPT ![m.block] = @ + 1]
           /\ Answer(c, <<Reply(m, FALSE, blocks[m.block] + 1, FALSE)>>)
    /\ Rest(c, 2)
    /\ UNCHANGED <<Served, client, server, zeroes, export, acked, requests, waiting>>

\* (mutant: the data of a refused write are left in the stream)
Refuse_LeavesData(c) ==
    /\ Due(c, "read") \/ Due(c, "write")
    /\ Answer(c, <<Reply(up[c][1], TRUE, 0, FALSE)>>)
    /\ Rest(c, 1)
    /\ UNCHANGED <<Served, client, server, zeroes, export, File, acked, requests, waiting>>

\* NBD_EIO: the file cannot be read, or not at that place.  NBD_EPERM: it is not to
\* be written.  The data of the write are read all the same.
Refuse(c) ==
    /\ Due(c, "read") \/ Due(c, "write")
    /\ Answer(c, <<Reply(up[c][1], TRUE, 0, FALSE)>>)
    /\ Rest(c, IF up[c][1].cmd = "write" THEN 2 ELSE 1)
    /\ UNCHANGED <<Served, client, server, zeroes, export, File, acked, requests, waiting>>

\* NBD_CMD_DISC, or data where a request is due.  (An option there is shorter
\* than a request: the server waits for more.)
Hangup(c) ==
    /\ server[c] = "requests" /\ Ours(c)
    /\ up[c] # <<>> /\ up[c][1].kind \in {"data", "request"}
    /\ AtServer(c, "request") => up[c][1].cmd = "disconnect"
    /\ ServerGoes(c, "closed") /\ Rest(c, Len(up[c]))
    /\ UNCHANGED <<Served, client, zeroes, export, down, Traffic>>

\* The kernel matches a reply with the request of that handle.
TakeReply(c) ==
    /\ AtClient(c, "reply") /\ waiting[c] # {}
    /\ LET r == down[c][1]
           m == CHOOSE x \in waiting[c] : x.handle = r.handle
       IN  /\ waiting' = [waiting EXCEPT ![c] = @ \ {m}]
           /\ acked' = IF m.cmd = "write" /\ ~r.error /\ r.content > acked[m.block]
                       THEN [acked EXCEPT ![m.block] = r.content] ELSE acked
    /\ Skip(c, 1)
    /\ UNCHANGED <<Served, client, server, zeroes, export, up, File, requests>>

Step(c) ==
    \/ OldHandshake(c) \/ NewHandshake(c) \/ GoInfo(c) \/ GoAck(c) \/ GoRefused(c)
    \/ ExportName(c) \/ HandshakeFails(c)
    \/ ReadFlags(c) \/ OptGo(c) \/ OptExportName(c) \/ OpenFile(c) \/ OpenFails(c)
    \/ Read(c) \/ Write(c) \/ Refuse(c) \/ Hangup(c) \/ TakeReply(c)

Next ==
    \E c \in Conns :
        \/ Step(c) \/ Disconnect(c)
        \/ \E cmd \in {"read", "write"}, b \in 1..size : Ask(c, cmd, b)

Spec == Init /\ [][Next]_nvars /\ \A c \in Conns : WF_nvars(Step(c))

-----------------------------------------------------------------------------
(* Properties                                                              *)

\* Whichever server it meets, the client comes out of the handshake with the
\* export the server has, and both streams empty: what is read next is read as
\* what it is (newstyle_handshake, try_opt_go).  That says nothing of the file, which
\* ours may then fail to open.
HandshakeAgrees ==
    \A c \in Conns :
        client[c] = "ready" /\ requests = 0 =>
            /\ export[c] = Export /\ up[c] = <<>> /\ down[c] = <<>>
            /\ server[c] \in IF Ours(c) THEN {"opening", "requests", "failed"} ELSE {"requests"}

\* The handshake ends: never do both sides wait for the other.  (They do when
\* the file is empty: GO's answer counts as none, EXPORT_NAME is sent to a server
\* that waits for requests already.)
\* Stated, as below, of the first connection; the order is of no account.
HandshakeEnds == []<>(size = 0 \/ client[Min(Conns)] \notin {"greeting", "go", "export"})

\* Two processes serve one file side by side: a read that is answered still returns
\* at least what was acknowledged to anybody before it was sent.  Given up are blocks
\* whose latest write stopped half-way, which is acknowledged too (nbd_server.rs:510),
\* and what was filled up with zeroes (:477).
ReadsSeeAcknowledgedWrites ==
    \A c \in Conns :
        \A i \in DOMAIN down[c] : \A m \in waiting[c] :
            /\ down[c][i].kind = "reply" /\ down[c][i].handle = m.handle /\ m.cmd = "read"
            /\ ~down[c][i].error /\ ~down[c][i].cut
            => down[c][i].content >= m.floor

\* Every request is answered, those that fail or are refused included, and whatever
\* comes before it in the stream: time and again none waits; unless the server could not
\* open its file, and is gone.
RequestsAreAnswered ==
    LET c == Min(Conns)
    IN  []<>(Ours(c) /\ size > 0 => waiting[c] = {} \/ server[c] = "failed")
=============================================================================
