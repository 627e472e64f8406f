--------------------------------- MODULE Tftp ---------------------------------
(***************************************************************************)
(* The tftp client (src/src/applets/network/tftp.rs) and a server after    *)
(* RFC 1350, over a network that loses, duplicates and reorders packets.   *)
(*                                                                         *)
(* A file is the sequence of its blocks 1, 2, ..., of which the last is    *)
(* short.  The server begins a transfer for every request it receives, on  *)
(* a port of its own.  Block numbers go over the network modulo Width.     *)
(***************************************************************************)
EXTENDS Integers, Sequences

CONSTANTS Lengths,     \* lengths of files, in blocks
          Transfers,   \* the server's transfers, by port
          Width,       \* 2^16, made small
          Lifetime,    \* packets and idle transfers live that many blocks
          MaxFaults    \* bound: packets sent again, reads and writes that fail

VARIABLES
    mode,      \* "get" or "put"
    length,    \* of the file
    client,    \* [at, block, port]: where it is; put: the address it sends to
    server,    \* server[t]: the block transfer t is at, or Off
    net,       \* packets: [to, op, block, port, last]
    local,     \* get: the blocks in the local file
    remote,    \* put: remote[t], the blocks that transfer t received
    faults,
    broken     \* a read or a write of the local file failed

tvars == <<mode, length, client, server, net, local, remote, faults, broken>>

Off == -1
Request == 0      \* the server's port 69, where requests go
UpTo(n) == [i \in 1..n |-> i]
Whole == UpTo(length)

\* No packet lives for a round of block numbers: the sender's port is not compared.
ASSUME TransferAssumption ==
    /\ Lengths \subseteq Nat \ {0} /\ Request \notin Transfers
    /\ Width \in Nat /\ Lifetime \in Nat /\ Lifetime + 1 < Width

Packet(to, op, block, port) == [to |-> to, op |-> op, block |-> block, port |-> port, last |-> FALSE]
Data(to, block, port, last) == [Packet(to, "DATA", block, port) EXCEPT !.last = last]
Same(m, n) == m % Width = n % Width

\* The first send; put has opened the local file before, get does so now.
Init ==
    /\ mode \in {"get", "put"} /\ length \in Lengths
    /\ client = [at |-> IF mode = "get" THEN "data" ELSE "asked", block |-> 1, port |-> Request]
    /\ server = [t \in Transfers |-> Off]
    /\ net = {Packet("server", IF mode = "get" THEN "RRQ" ELSE "WRQ", 0, Request)}
    /\ local = <<>> /\ remote = [t \in Transfers |-> <<>>]
    /\ faults = 0 /\ broken = FALSE

Fault == faults < MaxFaults /\ faults' = faults + 1
\* A packet arrives; the network may have another copy of it.
Arrives(m) == m \in net /\ m.block + Lifetime >= client.block
Others(m, replies) ==
    \/ net' = (net \ {m}) \cup replies /\ UNCHANGED faults
    \/ net' = net \cup replies /\ Fault

-----------------------------------------------------------------------------
(* tftp_get                                                                *)

ToClient(m) == Arrives(m) /\ m.to = "client"
Getting == mode = "get" /\ client.at = "data"

Expected(m) == m.op = "DATA" /\ Same(m.block, client.block)

\* The block is written and acknowledged, to whoever sent it; a short one ends
\* the transfer.  What write() answers is not looked at.
GetBlock(m) ==
    /\ Getting /\ ToClient(m) /\ Expected(m)
    /\ Others(m, {Packet("server", "ACK", m.block, m.port)})
    /\ local' = Append(local, m.block)
    /\ client' = IF m.last THEN [client EXCEPT !.at = "done"] ELSE [client EXCEPT !.block = @ + 1]
    /\ UNCHANGED <<mode, length, server, remote, broken>>

WriteFails(m) ==
    /\ Getting /\ ToClient(m) /\ Expected(m) /\ Fault
    /\ net' = (net \ {m}) \cup {Packet("server", "ACK", m.block, m.port)}
    /\ client' = IF m.last THEN [client EXCEPT !.at = "done"] ELSE [client EXCEPT !.block = @ + 1]
    /\ broken' = TRUE
    /\ UNCHANGED <<mode, length, server, local, remote>>

\* Any other packet is passed over, without an answer.
GetIgnores(m) ==
    /\ Getting /\ ToClient(m) /\ ~Expected(m)
    /\ net' = net \ {m}
    /\ UNCHANGED <<mode, length, client, server, local, remote, faults, broken>>

-----------------------------------------------------------------------------
(* tftp_put                                                                *)

SendBlock(n, port) == Data("server", n, port, n = length)

\* Whichever acknowledgement comes first is taken for that of the request.
FirstAck(m) ==
    /\ client.at = "asked" /\ ToClient(m) /\ m.op = "ACK"
    /\ client' = [client EXCEPT !.at = "ack", !.port = m.port]
    /\ Others(m, {SendBlock(1, m.port)})
    /\ UNCHANGED <<mode, length, server, local, remote, broken>>

AtLast == client.block = length \/ broken

\* The next block goes to the port the acknowledgement came from.
NextBlock(m) ==
    /\ client' = [client EXCEPT !.block = @ + 1, !.port = m.port]
    /\ Others(m, {SendBlock(client.block + 1, m.port)})

\* (mutant: any acknowledgement will do)
PutAck_Any(m) ==
    /\ client.at = "ack" /\ ToClient(m) /\ m.op = "ACK"
    /\ IF AtLast THEN /\ client' = [client EXCEPT !.at = "done", !.port = m.port]
                      /\ Others(m, {})
       ELSE NextBlock(m)
    /\ UNCHANGED <<mode, length, server, local, remote, broken>>

PutAck(m) ==
    /\ client.at = "ack" /\ ToClient(m) /\ m.op = "ACK"
    /\ IF ~Same(m.block, client.block)
       THEN client' = [client EXCEPT !.at = "failed"] /\ Others(m, {})
       ELSE IF AtLast THEN client' = [client EXCEPT !.at = "done", !.port = m.port] /\ Others(m, {})
       ELSE NextBlock(m)
    /\ UNCHANGED <<mode, length, server, local, remote, broken>>

\* A read that fails counts as the end of the file: an empty block is the last.
ReadFails(m) ==
    /\ client.at = "ack" /\ ToClient(m) /\ m.op = "ACK" /\ Same(m.block, client.block)
    /\ ~AtLast /\ Fault
    /\ net' = (net \ {m}) \cup {Data("server", client.block + 1, m.port, TRUE)}
    /\ client' = [client EXCEPT !.block = @ + 1, !.port = m.port]
    /\ broken' = TRUE
    /\ UNCHANGED <<mode, length, server, local, remote>>

\* Five seconds without a packet: neither side of the client sends again.
Timeout ==
    /\ client.at \in {"data", "asked", "ack"}
    /\ client' = [client EXCEPT !.at = "failed"]
    /\ UNCHANGED <<mode, length, server, net, local, remote, faults, broken>>

-----------------------------------------------------------------------------
(* The server                                                              *)

ToServer(m) == Arrives(m) /\ m.to = "server"
On(t) == server[t] # Off

Reply(t, n) == IF mode = "get" THEN Data("client", n, t, n = length)
               ELSE Packet("client", "ACK", n, t)
First == IF mode = "get" THEN 1 ELSE 0

Begins(t, m) ==
    /\ ToServer(m) /\ m.op \in {"RRQ", "WRQ"} /\ ~On(t)
    /\ server' = [server EXCEPT ![t] = First]
    /\ Others(m, {Reply(t, First)})
    /\ UNCHANGED <<mode, length, client, local, remote, broken>>

\* get: the acknowledgement of the block it is at; put: the block after it.
Goes(t, m) ==
    /\ ToServer(m) /\ On(t) /\ m.port = t
    /\ IF mode = "get" THEN Same(m.block, server[t]) /\ server[t] < length
       ELSE Same(m.block, server[t] + 1)
    /\ server' = [server EXCEPT ![t] = @ + 1]
    /\ remote' = IF mode = "get" THEN remote
                 ELSE [remote EXCEPT ![t] = Append(@, m.block)]
    /\ Others(m, {Reply(t, server[t] + 1)})
    /\ UNCHANGED <<mode, length, client, local, broken>>

\* It hears nothing new, and gives up when it is too far behind.
SendsAgain(t) ==
    /\ On(t) /\ server[t] + Lifetime >= client.block /\ Reply(t, server[t]) \notin net /\ Fault
    /\ net' = net \cup {Reply(t, server[t])}
    /\ UNCHANGED <<mode, length, client, server, local, remote, broken>>

Next ==
    \/ \E m \in net : \/ GetBlock(m) \/ WriteFails(m) \/ GetIgnores(m)
                      \/ FirstAck(m) \/ PutAck(m) \/ ReadFails(m)
    \/ Timeout
    \/ \E t \in Transfers : SendsAgain(t) \/ \E m \in net : Begins(t, m) \/ Goes(t, m)

Spec == Init /\ [][Next]_tvars

-----------------------------------------------------------------------------
(* Properties                                                              *)

\* "Exit status 0: success" (tftp.rs:37): whatever the network lost, repeated
\* or reordered, also from a second transfer that a repeated request began and
\* beyond the wrap of block numbers, a get that succeeds has written the whole
\* file, once.  (Not when a write failed, nor when packets live for a whole
\* round of block numbers: the sender's port is not compared.)
GetIsWhole == mode = "get" /\ client.at = "done" /\ ~broken => local = Whole

\* A put that succeeds has left the whole file in one transfer of the server.
\* (Not when a read failed: the file is cut off there, and the put succeeds.)
PutIsWhole == mode = "put" /\ client.at = "done" /\ ~broken => remote[client.port] = Whole

\* Success means the whole file, in either direction.
TransfersAreWhole == GetIsWhole /\ PutIsWhole
=============================================================================
