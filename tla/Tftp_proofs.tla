------------------------------ MODULE Tftp_proofs ------------------------------
(***************************************************************************)
(* A transfer that succeeds is whole (Tftp), whatever the network loses,   *)
(* doubles and delays: for files of any length, any number of transfers,   *)
(* block numbers of any width and any number of faults.                    *)
(***************************************************************************)
EXTENDS Tftp, TLAPS

Packets == [to : {"client", "server"}, op : {"RRQ", "WRQ", "DATA", "ACK"}, block : Nat,
            port : Transfers \cup {Request}, last : BOOLEAN]

Typed ==
    /\ mode \in {"get", "put"} /\ length \in Nat \ {0}
    /\ client \in [at : {"data", "asked", "ack", "done", "failed"}, block : Nat \ {0},
                   port : Transfers \cup {Request}]
    /\ server \in [Transfers -> Nat \cup {Off}]
    /\ net \subseteq Packets
    /\ remote \in [Transfers -> Seq(Nat)] /\ broken \in BOOLEAN

\* What the client has acknowledged.
Acknowledged == IF client.at = "done" THEN client.block ELSE client.block - 1

\* A server's transfer is never ahead of the client, and an acknowledgement is
\* of a block that was written.
GetInv == mode = "get" =>
    /\ client.at \in {"data", "done", "failed"}
    /\ client.at = "done" => client.block = length
    /\ ~broken => local = UpTo(Acknowledged)
    /\ \A t \in Transfers : server[t] <= client.block /\ server[t] <= length
    /\ \A m \in net : m.to = "client" => m.block <= client.block /\ (m.last <=> m.block = length)
    /\ \A m \in net : m.to = "server" => m.block <= Acknowledged

\* A transfer has received the blocks up to its own; what it acknowledged it has,
\* and what it is sent is at most the next one.
PutInv == mode = "put" =>
    /\ client.at \in {"asked", "ack", "done", "failed"}
    /\ \A t \in Transfers : server[t] <= client.block /\ remote[t] = UpTo(server[t])
    /\ \A m \in net : m.to = "client" => m.port \in Transfers /\ m.block <= server[m.port]
    /\ \A m \in net : m.to = "server" /\ m.port \in Transfers =>
         m.block <= client.block /\ m.block <= server[m.port] + 1
    /\ client.at = "done" /\ ~broken =>
         client.block = length /\ client.port \in Transfers /\ server[client.port] = length

IInv == Typed /\ GetInv /\ PutInv

\* Numbers that are equal modulo Width and less than Width apart are equal.
LEMMA SameIsEqual ==
    ASSUME NEW m \in Int, NEW n \in Int, m <= n, n - m < Width, Same(m, n)
    PROVE  m = n
<1> DEFINE q == n \div Width
           r == m \div Width
<1>1. n = Width * q + (n % Width) /\ q \in Int /\ n % Width \in Int
  BY TransferAssumption
<1>2. m = Width * r + (m % Width) /\ r \in Int /\ m % Width = n % Width
  BY TransferAssumption DEF Same
<1> HIDE DEF q, r
<1>3. n - m = Width * (q - r)
  BY <1>1, <1>2, TransferAssumption
<1>4. ASSUME q - r >= 1 PROVE Width * (q - r) >= Width
  BY <1>1, <1>2, <1>4, TransferAssumption
<1>5. ASSUME q - r <= 0 PROVE Width * (q - r) <= 0
  BY <1>1, <1>2, <1>5, TransferAssumption
<1> QED BY <1>1, <1>2, <1>3, <1>4, <1>5, TransferAssumption

LEMMA UpToNext ==
    /\ UpTo(0) = <<>> /\ UpTo(Off) = <<>>
    /\ \A n \in Nat : Append(UpTo(n), n + 1) = UpTo(n + 1)
  BY DEF UpTo, Off

LEMMA NetGrows ==
    ASSUME NEW m \in net, NEW replies, Others(m, replies)
    PROVE  \A x \in net' : x \in net \/ x \in replies
  BY DEF Others

LEMMA PacketsTyped ==
    /\ \A to \in {"client", "server"}, op \in {"RRQ", "WRQ", "DATA", "ACK"}, n \in Nat,
         t \in Transfers \cup {Request} :
            Packet(to, op, n, t) \in Packets
    /\ \A to \in {"client", "server"}, n \in Nat, t \in Transfers \cup {Request}, b \in BOOLEAN :
            /\ Data(to, n, t, b) \in Packets
            /\ Data(to, n, t, b).to = to /\ Data(to, n, t, b).block = n
            /\ Data(to, n, t, b).port = t /\ (Data(to, n, t, b).last <=> b)
  BY DEF Packets, Packet, Data

LEMMA LastTyped ==
    ASSUME NEW n \in Nat, NEW t \in Transfers \cup {Request}
    PROVE  Data("server", n, t, TRUE) \in Packets
  BY DEF Packets, Packet, Data

LEMMA ReplyIs ==
    ASSUME Typed, NEW t \in Transfers, NEW n \in Nat
    PROVE  /\ Reply(t, n) \in Packets
           /\ Reply(t, n).to = "client" /\ Reply(t, n).block = n /\ Reply(t, n).port = t
           /\ mode = "get" => (Reply(t, n).last <=> n = length)
<1>1. CASE mode = "get"
  <2>1. PICK b \in BOOLEAN : b <=> n = length
    OBVIOUS
  <2>2. Reply(t, n) = Data("client", n, t, b)
    BY <1>1, <2>1 DEF Reply
  <2> QED BY <2>1, <2>2, PacketsTyped
<1>2. CASE mode = "put"
  <2>1. Reply(t, n) = Packet("client", "ACK", n, t)
    BY <1>2 DEF Reply
  <2> QED BY <1>2, <2>1, PacketsTyped DEF Packet
<1> QED BY <1>1, <1>2 DEF Typed

LEMMA InitIInv == Init => IInv
<1> SUFFICES ASSUME Init PROVE IInv
  OBVIOUS
<1>1. \A t \in Transfers : server[t] = Off /\ remote[t] = <<>>
  BY DEF Init
<1>2. ASSUME NEW op \in {"RRQ", "WRQ"}, net = {Packet("server", op, 0, Request)}
      PROVE  net \subseteq Packets /\ \A m \in net : m.to = "server" /\ m.block = 0 /\ m.port \notin Transfers
  BY <1>2, PacketsTyped, TransferAssumption DEF Packet, Request
<1>3. mode \in {"get", "put"} /\ length \in Nat \ {0} /\ server \in [Transfers -> Nat \cup {Off}]
      /\ remote \in [Transfers -> Seq(Nat)] /\ broken \in BOOLEAN
  <2>1. <<>> \in Seq(Nat)
    OBVIOUS
  <2> QED BY <2>1, TransferAssumption DEF Init
<1>4. CASE mode = "get"
  <2>1. client = [at |-> "data", block |-> 1, port |-> Request]
    BY <1>4 DEF Init
  <2>2. client.at = "data" /\ client.block = 1 /\ client \in [at : {"data", "asked", "ack", "done", "failed"},
                                block : Nat \ {0}, port : Transfers \cup {Request}]
    BY <2>1
  <2>3. net = {Packet("server", "RRQ", 0, Request)}
    BY <1>4 DEF Init
  <2>4. Acknowledged = 0
    BY <2>2 DEF Acknowledged
  <2>5. local = UpTo(0)
    BY UpToNext DEF Init
  <2>6. GetInv
    BY <1>1, <1>2, <1>3, <2>2, <2>3, <2>4, <2>5 DEF GetInv, Off
  <2> QED BY <1>2, <1>3, <1>4, <2>2, <2>3, <2>6 DEF IInv, Typed, PutInv
<1>5. CASE mode = "put"
  <2>1. client = [at |-> "asked", block |-> 1, port |-> Request]
    BY <1>5 DEF Init
  <2>2. client.at = "asked" /\ client.block = 1
        /\ client \in [at : {"data", "asked", "ack", "done", "failed"},
                       block : Nat \ {0}, port : Transfers \cup {Request}]
    BY <2>1
  <2>3. net = {Packet("server", "WRQ", 0, Request)}
    BY <1>5 DEF Init
  <2>4. PutInv
    <3>1. \A t \in Transfers : remote[t] = UpTo(server[t])
      BY <1>1, UpToNext
    <3>2. \A t \in Transfers : server[t] <= client.block
      BY <1>1, <2>2 DEF Off
    <3> QED BY <1>2, <2>2, <2>3, <3>1, <3>2 DEF PutInv
  <2> QED BY <1>2, <1>3, <1>5, <2>2, <2>3, <2>4 DEF IInv, Typed, GetInv
<1> QED BY <1>3, <1>4, <1>5

LEMMA NextTyped == ASSUME Typed, Next PROVE Typed'
<1> DEFINE Clients == [at : {"data", "asked", "ack", "done", "failed"}, block : Nat \ {0},
                       port : Transfers \cup {Request}]
<1>0. /\ client \in Clients /\ net \subseteq Packets /\ server \in [Transfers -> Nat \cup {Off}]
      /\ remote \in [Transfers -> Seq(Nat)] /\ client.block + 1 \in Nat \ {0}
  BY DEF Typed
<1>1. ASSUME NEW m \in net, NEW r \in Packets, Others(m, {r}) \/ Others(m, {})
                                              \/ net' = (net \ {m}) \cup {r}
      PROVE net' \subseteq Packets
  BY <1>0, <1>1 DEF Others
<1>2. \A m \in net : m.block \in Nat /\ m.port \in Transfers \cup {Request} /\ m.last \in BOOLEAN
  BY <1>0 DEF Packets
<1>3. \A n \in Nat, t \in Transfers \cup {Request} : SendBlock(n, t) \in Packets
  <2> SUFFICES ASSUME NEW n \in Nat, NEW t \in Transfers \cup {Request} PROVE SendBlock(n, t) \in Packets
    OBVIOUS
  <2>1. PICK b \in BOOLEAN : b <=> n = length
    OBVIOUS
  <2>2. SendBlock(n, t) = Data("server", n, t, b)
    BY <2>1 DEF SendBlock
  <2> QED BY <2>2, PacketsTyped
<1>4. ASSUME NEW m \in net, GetBlock(m) \/ WriteFails(m) PROVE Typed'
  <2>1. Packet("server", "ACK", m.block, m.port) \in Packets
    BY <1>2, PacketsTyped
  <2>2. net' \subseteq Packets
    BY <1>1, <1>4, <2>1 DEF GetBlock, WriteFails
  <2>3. client' \in Clients
    <3>1. CASE m.last
      BY <1>0, <1>4, <3>1 DEF GetBlock, WriteFails
    <3>2. CASE ~m.last
      <4>1. client' = [client EXCEPT !.block = @ + 1]
        BY <1>4, <3>2 DEF GetBlock, WriteFails
      <4> QED BY <1>0, <4>1
    <3> QED BY <3>1, <3>2
  <2> QED BY <2>2, <2>3, <1>4 DEF GetBlock, WriteFails, Typed
<1>5. ASSUME NEW m \in net, GetIgnores(m) PROVE Typed'
  BY <1>5 DEF GetIgnores, Typed
<1>6. ASSUME NEW m \in net, FirstAck(m) PROVE Typed'
  <2>1. net' \subseteq Packets
    BY <1>1, <1>2, <1>3, <1>6 DEF FirstAck
  <2>2. client' \in Clients
    BY <1>0, <1>2, <1>6 DEF FirstAck
  <2> QED BY <2>1, <2>2, <1>6 DEF FirstAck, Typed
<1>7. ASSUME NEW m \in net, PutAck(m) PROVE Typed'
  <2>1. SendBlock(client.block + 1, m.port) \in Packets /\ m.port \in Transfers \cup {Request}
    BY <1>0, <1>2, <1>3
  <2>2. net' \subseteq Packets
    BY <1>1, <1>7, <2>1 DEF PutAck, NextBlock
  <2>3. \/ client' = [client EXCEPT !.at = "failed"]
        \/ client' = [client EXCEPT !.at = "done", !.port = m.port]
        \/ client' = [client EXCEPT !.block = @ + 1, !.port = m.port]
    BY <1>7 DEF PutAck, NextBlock
  <2>4. client' \in Clients
    BY <1>0, <2>1, <2>3
  <2> QED BY <2>2, <2>4, <1>7 DEF PutAck, Typed
<1>8. ASSUME NEW m \in net, ReadFails(m) PROVE Typed'
  <2>1. Data("server", client.block + 1, m.port, TRUE) \in Packets /\ m.port \in Transfers \cup {Request}
    BY <1>0, <1>2, LastTyped
  <2>2. net' \subseteq Packets
    BY <1>1, <1>8, <2>1 DEF ReadFails
  <2>3. client' = [client EXCEPT !.block = @ + 1, !.port = m.port]
    BY <1>8 DEF ReadFails
  <2>4. client' \in Clients
    BY <1>0, <2>1, <2>3
  <2> QED BY <2>2, <2>4, <1>8 DEF ReadFails, Typed
<1>9. ASSUME Timeout PROVE Typed'
  BY <1>9 DEF Timeout, Typed
<1>10. ASSUME NEW t \in Transfers, SendsAgain(t) PROVE Typed'
  <2>1. Reply(t, server[t]) \in Packets
    BY <1>0, <1>10, ReplyIs DEF SendsAgain, On
  <2> QED BY <1>10, <2>1 DEF SendsAgain, Typed
<1>11. ASSUME NEW t \in Transfers, NEW m \in net, Begins(t, m) PROVE Typed'
  <2>1. First \in Nat /\ Reply(t, First) \in Packets
    <3>1. First \in Nat
      BY DEF First
    <3> QED BY <3>1, ReplyIs
  <2>2. net' \subseteq Packets
    BY <1>1, <1>11, <2>1 DEF Begins
  <2> QED BY <1>11, <2>1, <2>2 DEF Begins, Typed
<1>12. ASSUME NEW t \in Transfers, NEW m \in net, Goes(t, m) PROVE Typed'
  <2>1. server[t] + 1 \in Nat /\ Reply(t, server[t] + 1) \in Packets
    <3>1. server[t] + 1 \in Nat
      BY <1>0, <1>12 DEF Goes, On
    <3> QED BY <3>1, ReplyIs
  <2>2. net' \subseteq Packets
    BY <1>1, <1>12, <2>1 DEF Goes
  <2>3. remote' \in [Transfers -> Seq(Nat)]
    <3>1. CASE mode = "get"
      BY <1>0, <1>12, <3>1 DEF Goes
    <3>2. CASE mode # "get"
      BY <1>0, <1>2, <1>12, <3>2 DEF Goes
    <3> QED BY <3>1, <3>2
  <2> QED BY <1>12, <2>1, <2>2, <2>3 DEF Goes, Typed
<1> QED BY <1>4, <1>5, <1>6, <1>7, <1>8, <1>9, <1>10, <1>11, <1>12 DEF Next

LEMMA FieldsTyped ==
    ASSUME Typed
    PROVE  /\ client.block \in Nat \ {0} /\ length \in Nat \ {0} /\ broken \in BOOLEAN
           /\ \A t \in Transfers : server[t] \in Nat \cup {-1}
           /\ \A m \in net : m.block \in Nat /\ m.port \in Transfers \cup {Request} /\ m.last \in BOOLEAN
  BY DEF Typed, Packets, Off

\* A packet that arrives with the client's number, and not beyond it, is of the client's block.
LEMMA ArrivesInTime ==
    ASSUME Typed, NEW m \in net, Arrives(m), m.block <= client.block, Same(m.block, client.block)
    PROVE  m.block = client.block
<1>1. client.block - m.block < Width /\ m.block \in Int /\ client.block \in Int
  BY FieldsTyped, TransferAssumption DEF Arrives
<1> QED BY <1>1, SameIsEqual

LEMMA NextGet == ASSUME IInv, mode = "get", Next PROVE GetInv'
<1>1. Typed /\ Typed'
  BY NextTyped DEF IInv
<1>2. /\ client.at \in {"data", "done", "failed"}
      /\ client.at = "done" => client.block = length
      /\ ~broken => local = UpTo(Acknowledged)
      /\ \A t \in Transfers : server[t] <= client.block /\ server[t] <= length
      /\ \A m \in net : m.to = "client" => m.block <= client.block /\ (m.last <=> m.block = length)
      /\ \A m \in net : m.to = "server" => m.block <= Acknowledged
  BY DEF IInv, GetInv
<1>3. ASSUME NEW m \in net, GetBlock(m) \/ WriteFails(m) PROVE GetInv'
  <2>1. client.at = "data" /\ m.block = client.block /\ (m.last <=> client.block = length)
    BY <1>1, <1>2, <1>3, ArrivesInTime DEF GetBlock, WriteFails, Getting, Expected, ToClient
  <2>2. /\ m.last => client' = [client EXCEPT !.at = "done"]
        /\ ~m.last => client' = [client EXCEPT !.block = @ + 1]
    BY <1>3 DEF GetBlock, WriteFails
  <2>3. /\ client.block <= client'.block /\ client'.block \in Nat /\ Acknowledged' = client.block
        /\ client'.at \in {"data", "done"} /\ (client'.at = "done" => client'.block = length)
    <3>1. CASE m.last
      BY <1>1, <2>1, <2>2, <3>1, FieldsTyped DEF Typed, Acknowledged
    <3>2. CASE ~m.last
      <4>1. client'.block = client.block + 1 /\ client'.at = "data"
        BY <1>1, <2>1, <2>2, <3>2 DEF Typed
      <4> QED BY <1>1, <4>1, FieldsTyped DEF Acknowledged
    <3> QED BY <3>1, <3>2
  <2>4. ~broken' => local' = UpTo(client.block)
    <3>1. CASE WriteFails(m)
      BY <3>1 DEF WriteFails
    <3>2. CASE GetBlock(m) /\ ~broken
      <4>1. local = UpTo(client.block - 1)
        BY <1>2, <2>1, <3>2 DEF Acknowledged
      <4>2. client.block - 1 \in Nat /\ (client.block - 1) + 1 = client.block
        BY <1>1, FieldsTyped
      <4> QED BY <2>1, <3>2, <4>1, <4>2, UpToNext DEF GetBlock
    <3> QED BY <1>3, <3>1, <3>2 DEF GetBlock
  <2>5. \A x \in net' : x \in net \/ (x.to = "server" /\ x.block = client.block)
    <3>1. \A x \in net' : x \in net \/ x = Packet("server", "ACK", m.block, m.port)
      BY <1>3, NetGrows DEF GetBlock, WriteFails
    <3> QED BY <2>1, <3>1 DEF Packet
  <2>6. \A x \in net : x.to = "server" => x.block <= client.block
    BY <1>1, <1>2, <2>1, FieldsTyped DEF Acknowledged
  <2>7. server' = server /\ length' = length
    BY <1>3 DEF GetBlock, WriteFails
  <2>8. \A t \in Transfers : server'[t] <= client'.block /\ server'[t] <= length'
    <3> SUFFICES ASSUME NEW t \in Transfers PROVE server[t] <= client'.block /\ server[t] <= length
      BY <2>7
    <3>1. server[t] \in Int /\ client.block \in Int
      BY <1>1, FieldsTyped
    <3> QED BY <1>2, <2>3, <3>1
  <2>9. \A x \in net' : x.to = "client" => x.block <= client'.block /\ (x.last <=> x.block = length')
    <3> SUFFICES ASSUME NEW x \in net', x.to = "client" PROVE x.block <= client'.block /\ (x.last <=> x.block = length)
      BY <2>7
    <3>1. x \in net
      BY <2>5
    <3>2. x.block \in Int /\ client.block \in Int
      BY <1>1, <3>1, FieldsTyped
    <3> QED BY <1>2, <2>3, <3>1, <3>2
  <2>10. \A x \in net' : x.to = "server" => x.block <= Acknowledged'
    BY <1>1, <2>1, <2>3, <2>5, <2>6, FieldsTyped
  <2> QED BY <2>3, <2>4, <2>7, <2>8, <2>9, <2>10 DEF GetInv
<1>4. ASSUME NEW m \in net, GetIgnores(m) PROVE GetInv'
  BY <1>2, <1>4 DEF GetIgnores, GetInv, Acknowledged
<1>5. ~ \E m \in net : FirstAck(m) \/ PutAck(m) \/ ReadFails(m)
  BY <1>2 DEF FirstAck, PutAck, ReadFails
<1>6. ASSUME Timeout PROVE GetInv'
  <2>1. client' = [client EXCEPT !.at = "failed"] /\ client.at # "done"
    BY <1>2, <1>6 DEF Timeout
  <2>2. client'.block = client.block /\ client'.at = "failed" /\ Acknowledged' = Acknowledged
    BY <1>1, <2>1 DEF Typed, Acknowledged
  <2> QED BY <1>2, <1>6, <2>2 DEF Timeout, GetInv
<1>7. ASSUME NEW t \in Transfers, NEW n \in Nat, n <= client.block, n <= length,
             server' = [server EXCEPT ![t] = n], UNCHANGED <<mode, length, client, local, broken>>,
             \A x \in net' : x \in net \/ x = Reply(t, n)
      PROVE  GetInv'
  <2>1. \A u \in Transfers : server'[u] <= client.block /\ server'[u] <= length
    BY <1>1, <1>2, <1>7 DEF Typed
  <2>2. Acknowledged' = Acknowledged
    BY <1>7 DEF Acknowledged
  <2>3. \A x \in net' : x \in net \/ (x.to = "client" /\ x.block = n /\ (x.last <=> n = length))
    BY <1>1, <1>7, ReplyIs
  <2>4. \A x \in net' : x.to = "client" => x.block <= client.block /\ (x.last <=> x.block = length)
    BY <1>2, <1>7, <2>3
  <2>5. \A x \in net' : x.to = "server" => x.block <= Acknowledged
    BY <1>2, <2>3
  <2> QED BY <1>2, <1>7, <2>1, <2>2, <2>4, <2>5 DEF GetInv
<1>8. ASSUME NEW t \in Transfers, SendsAgain(t) PROVE GetInv'
  <2>1. server[t] \in Nat /\ server' = [server EXCEPT ![t] = server[t]]
    BY <1>1, <1>8 DEF SendsAgain, On, Typed
  <2>2. \A x \in net' : x \in net \/ x = Reply(t, server[t])
    BY <1>8 DEF SendsAgain
  <2> QED BY <1>2, <1>7, <1>8, <2>1, <2>2 DEF SendsAgain
<1>9. ASSUME NEW t \in Transfers, NEW m \in net, Begins(t, m) PROVE GetInv'
  <2>1. First = 1 /\ 1 \in Nat /\ 1 <= client.block /\ 1 <= length
    BY <1>1, FieldsTyped DEF First
  <2>2. \A x \in net' : x \in net \/ x = Reply(t, 1)
    BY <1>9, <2>1, NetGrows DEF Begins
  <2> QED BY <1>7, <1>9, <2>1, <2>2 DEF Begins
<1>10. ASSUME NEW t \in Transfers, NEW m \in net, Goes(t, m) PROVE GetInv'
  <2>1. server[t] \in Nat /\ server[t] + 1 <= length
    BY <1>1, <1>10, FieldsTyped DEF Goes, On, Off
  <2>2. m.block <= Acknowledged /\ Same(m.block, server[t]) /\ Arrives(m)
    BY <1>2, <1>10 DEF Goes, ToServer
  <2>3. server[t] # client.block
    <3> SUFFICES ASSUME server[t] = client.block PROVE FALSE
      OBVIOUS
    <3>1. Acknowledged <= client.block
      BY <1>1, FieldsTyped DEF Acknowledged
    <3>2. m.block <= client.block
      BY <1>1, <2>2, <3>1, FieldsTyped DEF Acknowledged
    <3>3. m.block = client.block
      BY <1>1, <2>2, <3>2, ArrivesInTime
    <3> QED BY <1>1, <1>2, <2>1, <2>2, <3>3, FieldsTyped DEF Acknowledged
  <2>4. server[t] + 1 <= client.block
    BY <1>1, <1>2, <2>1, <2>3, FieldsTyped
  <2>5. \A x \in net' : x \in net \/ x = Reply(t, server[t] + 1)
    BY <1>10, NetGrows DEF Goes
  <2>6. server' = [server EXCEPT ![t] = server[t] + 1] /\ server[t] + 1 \in Nat
    BY <1>10, <2>1 DEF Goes
  <2> QED BY <1>7, <1>10, <2>1, <2>4, <2>5, <2>6 DEF Goes
<1> QED BY <1>3, <1>4, <1>5, <1>6, <1>8, <1>9, <1>10 DEF Next

LEMMA NextPut == ASSUME IInv, mode = "put", Next PROVE PutInv'
<1>1. Typed /\ Typed'
  BY NextTyped DEF IInv
<1>2. /\ client.at \in {"asked", "ack", "done", "failed"}
      /\ \A t \in Transfers : server[t] <= client.block /\ remote[t] = UpTo(server[t])
      /\ \A m \in net : m.to = "client" => m.port \in Transfers /\ m.block <= server[m.port]
      /\ \A m \in net : m.to = "server" /\ m.port \in Transfers =>
           m.block <= client.block /\ m.block <= server[m.port] + 1
      /\ client.at = "done" /\ ~broken =>
           client.block = length /\ client.port \in Transfers /\ server[client.port] = length
  BY DEF IInv, PutInv
<1>3. ~ \E m \in net : GetBlock(m) \/ WriteFails(m) \/ GetIgnores(m)
  BY DEF GetBlock, WriteFails, GetIgnores, Getting
\* What arrives at the client is of a block that the sender has.
<1>4. ASSUME NEW m \in net, ToClient(m)
      PROVE  m.port \in Transfers /\ 0 <= server[m.port] /\ m.block <= server[m.port] /\ m.block <= client.block
  BY <1>1, <1>2, <1>4, FieldsTyped DEF ToClient
\* The client sends a block to a transfer that has the one before it, or nothing.
<1>5. ASSUME NEW m \in net, ToClient(m), NEW n \in Nat, client'.block \in Nat,
             n <= server[m.port] + 1, n <= client'.block, client.block <= client'.block,
             client'.at \in {"ack", "failed"}, UNCHANGED <<mode, server, remote>>,
             NEW r, r.to = "server", r.block = n, r.port = m.port,
             \A x \in net' : x \in net \/ x = r
      PROVE  PutInv'
  <2>1. \A t \in Transfers : server[t] <= client'.block
    BY <1>1, <1>2, <1>5, FieldsTyped
  <2>2. \A x \in net' : x.to = "client" => x.port \in Transfers /\ x.block <= server[x.port]
    BY <1>2, <1>5
  <2>3. ASSUME NEW x \in net', x.to = "server", x.port \in Transfers
        PROVE  x.block <= client'.block /\ x.block <= server[x.port] + 1
    <3>1. CASE x = r
      BY <1>5, <3>1
    <3>2. CASE x \in net
      BY <1>1, <1>2, <1>5, <2>3, <3>2, FieldsTyped
    <3> QED BY <1>5, <3>1, <3>2
  <2> QED BY <1>2, <1>5, <2>1, <2>2, <2>3 DEF PutInv
<1>6. ASSUME NEW m \in net, FirstAck(m) PROVE PutInv'
  <2>1. client'.block = client.block /\ client'.at = "ack"
    BY <1>1, <1>6 DEF FirstAck, Typed
  <2>2. \A x \in net' : x \in net \/ x = SendBlock(1, m.port)
    BY <1>6, NetGrows DEF FirstAck
  <2>3. SendBlock(1, m.port).to = "server" /\ SendBlock(1, m.port).block = 1 /\ SendBlock(1, m.port).port = m.port
    BY DEF SendBlock, Data, Packet
  <2>4. 1 <= server[m.port] + 1 /\ 1 <= client.block /\ client.block \in Nat
    BY <1>1, <1>4, <1>6, FieldsTyped DEF FirstAck
  <2> QED BY <1>5, <1>6, <2>1, <2>2, <2>3, <2>4 DEF FirstAck
<1>7. ASSUME NEW m \in net, PutAck(m), Same(m.block, client.block), AtLast PROVE PutInv'
  <2>1. m.block = client.block
    BY <1>1, <1>4, <1>7, ArrivesInTime DEF PutAck, ToClient
  <2>2. m.port \in Transfers /\ server[m.port] = client.block
    BY <1>1, <1>2, <1>4, <1>7, <2>1, FieldsTyped DEF PutAck
  <2>3. /\ client'.at = "done" /\ client'.block = client.block /\ client'.port = m.port
        /\ UNCHANGED <<mode, length, server, remote, broken>> /\ \A x \in net' : x \in net
    <3>1. client' = [client EXCEPT !.at = "done", !.port = m.port]
      BY <1>7 DEF PutAck
    <3>2. Others(m, {}) /\ UNCHANGED <<mode, length, server, remote, broken>>
      BY <1>7 DEF PutAck
    <3> QED BY <1>1, <3>1, <3>2, NetGrows DEF Typed
  <2>4. ~broken => client.block = length
    BY <1>7 DEF AtLast
  <2> QED BY <1>2, <2>2, <2>3, <2>4 DEF PutInv
<1>8. ASSUME NEW m \in net, ReadFails(m) \/ PutAck(m), Same(m.block, client.block), ~AtLast PROVE PutInv'
  <2>1. ToClient(m) /\ m.block = client.block
    BY <1>1, <1>4, <1>8, ArrivesInTime DEF ReadFails, PutAck, ToClient
  <2>2. client.block + 1 <= server[m.port] + 1 /\ client.block + 1 \in Nat
    BY <1>1, <1>4, <2>1, FieldsTyped
  <2>3. client'.block = client.block + 1 /\ client'.at = "ack" /\ client.block <= client'.block
    <3>1. client' = [client EXCEPT !.block = @ + 1, !.port = m.port] /\ client.at = "ack"
      BY <1>8 DEF ReadFails, PutAck, NextBlock
    <3> QED BY <1>1, <3>1, FieldsTyped DEF Typed
  <2>4. PICK b \in BOOLEAN : \A x \in net' : x \in net \/ x = Data("server", client.block + 1, m.port, b)
    <3>1. CASE ReadFails(m)
      BY <3>1 DEF ReadFails
    <3>2. CASE PutAck(m)
      <4>1. PICK b \in BOOLEAN : b <=> client.block + 1 = length
        OBVIOUS
      <4>2. SendBlock(client.block + 1, m.port) = Data("server", client.block + 1, m.port, b)
        BY <4>1 DEF SendBlock
      <4>3. Others(m, {SendBlock(client.block + 1, m.port)})
        BY <1>8, <3>2 DEF PutAck, NextBlock
      <4> QED BY <4>2, <4>3, NetGrows
    <3> QED BY <1>8, <3>1, <3>2
  <2>5. LET r == Data("server", client.block + 1, m.port, b)
        IN  r.to = "server" /\ r.block = client.block + 1 /\ r.port = m.port
    BY DEF Data, Packet
  <2>6. UNCHANGED <<mode, server, remote>>
    BY <1>8 DEF ReadFails, PutAck
  <2> QED BY <1>5, <2>1, <2>2, <2>3, <2>4, <2>5, <2>6
<1>9. ASSUME NEW m \in net, PutAck(m), ~Same(m.block, client.block) PROVE PutInv'
  <2>1. /\ client'.at = "failed" /\ client'.block = client.block
        /\ UNCHANGED <<mode, server, remote>> /\ \A x \in net' : x \in net
    BY <1>1, <1>9, NetGrows DEF PutAck, Typed
  <2> QED BY <1>2, <2>1 DEF PutInv
<1>10. ASSUME Timeout PROVE PutInv'
  <2>1. /\ client'.at = "failed" /\ client'.block = client.block
    BY <1>1, <1>10 DEF Timeout, Typed
  <2> QED BY <1>2, <1>10, <2>1 DEF Timeout, PutInv
\* A transfer that answers.
<1>11. ASSUME NEW t \in Transfers, NEW n \in Nat, server[t] <= n, n <= client.block,
              client.at = "done" /\ ~broken /\ client.port = t => n = length,
              server' = [server EXCEPT ![t] = n], remote' = [remote EXCEPT ![t] = UpTo(n)],
              UNCHANGED <<mode, length, client, broken>>, \A x \in net' : x \in net \/ x = Reply(t, n)
       PROVE  PutInv'
  <2>1. \A u \in Transfers : server'[u] <= client.block /\ remote'[u] = UpTo(server'[u]) /\ server[u] <= server'[u]
                             /\ server[u] \in Int /\ server'[u] \in Int
    BY <1>1, <1>2, <1>11, FieldsTyped DEF Typed
  <2>2. \A x \in net' : x \in net \/ (x.to = "client" /\ x.block = n /\ x.port = t)
    BY <1>1, <1>11, ReplyIs
  <2>3. \A x \in net' : x.to = "client" => x.port \in Transfers /\ x.block <= server'[x.port]
    <3> SUFFICES ASSUME NEW x \in net', x.to = "client" PROVE x.port \in Transfers /\ x.block <= server'[x.port]
      OBVIOUS
    <3>1. CASE x \in net
      BY <1>1, <1>2, <2>1, <3>1, FieldsTyped
    <3>2. CASE x.block = n /\ x.port = t
      BY <1>1, <1>11, <3>2 DEF Typed
    <3> QED BY <2>2, <3>1, <3>2
  <2>4. \A x \in net' : x.to = "server" /\ x.port \in Transfers =>
          x.block <= client.block /\ x.block <= server'[x.port] + 1
    BY <1>1, <1>2, <2>1, <2>2, FieldsTyped
  <2>5. client.at = "done" /\ ~broken =>
          client.block = length /\ client.port \in Transfers /\ server'[client.port] = length
    BY <1>1, <1>2, <1>11 DEF Typed
  <2> QED BY <1>2, <1>11, <2>1, <2>3, <2>4, <2>5 DEF PutInv
<1>12. ASSUME NEW t \in Transfers, SendsAgain(t) PROVE PutInv'
  <2>1. server[t] \in Nat /\ server' = [server EXCEPT ![t] = server[t]] /\ remote' = [remote EXCEPT ![t] = UpTo(server[t])]
    BY <1>1, <1>2, <1>12 DEF SendsAgain, On, Typed
  <2>2. \A x \in net' : x \in net \/ x = Reply(t, server[t])
    BY <1>12 DEF SendsAgain
  <2>3. server[t] <= server[t] /\ server[t] <= client.block
        /\ (client.at = "done" /\ ~broken /\ client.port = t => server[t] = length)
    BY <1>2, <2>1
  <2>4. UNCHANGED <<mode, length, client, broken>>
    BY <1>12 DEF SendsAgain
  <2> QED BY <1>11, <2>1, <2>2, <2>3, <2>4
<1>13. ASSUME NEW t \in Transfers, NEW m \in net, Begins(t, m) PROVE PutInv'
  <2>1. First = 0 /\ server[t] = Off /\ server[t] <= 0 /\ 0 <= client.block
    BY <1>1, <1>13, FieldsTyped DEF First, Begins, On, Off
  <2>2. remote' = [remote EXCEPT ![t] = UpTo(0)]
    <3>1. remote[t] = UpTo(0)
      BY <1>2, <2>1, UpToNext
    <3> QED BY <1>1, <1>13, <3>1 DEF Begins, Typed
  <2>3. \A x \in net' : x \in net \/ x = Reply(t, 0)
    BY <1>13, <2>1, NetGrows DEF Begins
  <2>4. client.at = "done" /\ ~broken /\ client.port = t => FALSE
    BY <1>1, <1>2, <2>1, FieldsTyped
  <2> QED BY <1>11, <1>13, <2>1, <2>2, <2>3, <2>4 DEF Begins
<1>14. ASSUME NEW t \in Transfers, NEW m \in net, Goes(t, m) PROVE PutInv'
  <2>1. server[t] \in Nat /\ server[t] + 1 \in Nat /\ server[t] <= client.block /\ client.block \in Nat
    BY <1>1, <1>2, <1>14, FieldsTyped DEF Goes, On, Off
  <2>2. m.block \in Nat /\ m.block <= client.block /\ m.block <= server[t] + 1 /\ client.block <= m.block + Lifetime
        /\ Same(m.block, server[t] + 1)
    BY <1>1, <1>2, <1>14, FieldsTyped, TransferAssumption DEF Goes, ToServer, Arrives
  <2>3. m.block = server[t] + 1
    BY <2>1, <2>2, TransferAssumption, SameIsEqual
  <2>4. server' = [server EXCEPT ![t] = server[t] + 1]
    BY <1>14 DEF Goes
  <2>5. remote' = [remote EXCEPT ![t] = UpTo(server[t] + 1)]
    BY <1>1, <1>2, <1>14, <2>1, <2>3, UpToNext DEF Goes, Typed
  <2>6. \A x \in net' : x \in net \/ x = Reply(t, server[t] + 1)
    BY <1>14, NetGrows DEF Goes
  <2>7. client.at = "done" /\ ~broken /\ client.port = t => FALSE
    BY <1>1, <1>2, <2>1, <2>2, <2>3, FieldsTyped
  <2>8. server[t] <= server[t] + 1 /\ server[t] + 1 <= client.block /\ UNCHANGED <<mode, length, client, broken>>
    BY <1>14, <2>1, <2>2, <2>3 DEF Goes
  <2> QED BY <1>11, <2>1, <2>4, <2>5, <2>6, <2>7, <2>8
<1> QED BY <1>3, <1>6, <1>7, <1>8, <1>9, <1>10, <1>12, <1>13, <1>14 DEF Next, ReadFails

\* For every length, number of transfers, width and lifetime, whatever the network does.
THEOREM TransferIsWhole == Spec => []TransfersAreWhole
<1>1. IInv /\ [Next]_tvars => IInv'
  <2> SUFFICES ASSUME IInv, [Next]_tvars PROVE IInv'
    OBVIOUS
  <2>1. CASE Next
    <3>1. mode' = mode /\ mode \in {"get", "put"}
      BY <2>1 DEF IInv, Typed, Next, GetBlock, WriteFails, GetIgnores, FirstAck, PutAck, ReadFails, Timeout,
                  SendsAgain, Begins, Goes
    <3>2. Typed'
      BY <2>1, NextTyped DEF IInv
    <3>3. GetInv'
      BY <2>1, <3>1, NextGet DEF GetInv
    <3>4. PutInv'
      BY <2>1, <3>1, NextPut DEF PutInv
    <3> QED BY <3>2, <3>3, <3>4 DEF IInv
  <2>2. CASE UNCHANGED tvars
    BY <2>2 DEF tvars, IInv, Typed, GetInv, PutInv, Acknowledged
  <2> QED BY <2>1, <2>2
<1>2. IInv => TransfersAreWhole
  <2> SUFFICES ASSUME IInv PROVE TransfersAreWhole
    OBVIOUS
  <2>1. GetIsWhole
    BY DEF IInv, GetInv, GetIsWhole, Acknowledged, Whole
  <2>2. PutIsWhole
    BY DEF IInv, PutInv, PutIsWhole, Whole
  <2> QED BY <2>1, <2>2 DEF TransfersAreWhole
<1> QED BY InitIInv, <1>1, <1>2, PTL DEF Spec
=============================================================================
