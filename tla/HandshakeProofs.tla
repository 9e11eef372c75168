--------------------------- MODULE HandshakeProofs ---------------------------
(***************************************************************************)
(* Proofs about the handshake, for messages of any bytes cut anywhere: who *)
(* may have a request parsed, whom the access log names, that a message is *)
(* parsed as it was sent, and that a client that waits for every reply and *)
(* does what it says is not dropped.                                       *)
(***************************************************************************)
EXTENDS Handshake, SequenceTheorems, WellFoundedInduction, TLAPS

-----------------------------------------------------------------------------
(* The smallest element of a set of numbers.                               *)

(* A set of numbers that is not empty has a smallest one.                  *)
LEMMA SmallestExists ==
  ASSUME NEW T \in SUBSET Nat, T # {}
  PROVE  \E x \in T : \A y \in T : x <= y
<1>1. PICK x \in T : \A y \in T : ~(<<y, x>> \in OpToRel(<, Nat))
  BY NatLessThanWellFounded, WFMin
<1>2. ASSUME NEW y \in T, y < x PROVE FALSE
  <2> DEFINE P == {pair \in Nat \X Nat : pair[1] < pair[2]}
  <2>1. <<y, x>> \in P
    BY <1>2
  <2>2. P = OpToRel(<, Nat)
    BY Zenon DEF OpToRel
  <2> HIDE DEF P
  <2> QED
    BY <1>1, <2>1, <2>2, Zenon
<1> QED
  BY <1>2

(* Min is the smallest element.                                            *)
LEMMA MinOf ==
  ASSUME NEW T \in SUBSET Nat, T # {}
  PROVE  Min(T) \in T /\ \A y \in T : Min(T) <= y
BY SmallestExists DEF Min

-----------------------------------------------------------------------------
(* The parsers.                                                            *)

HelloParsers ==
  [kind : {"hello"}, state : {"version", "nmethods", "methods", "done", "error"},
   remaining : Int, method : Nat]

AuthParsers ==
  [kind : {"auth"}, state : {"version", "ulen", "uname", "plen", "passwd", "done", "error"},
   len : Nat, uname : Seq(Nat), passwd : Seq(Nat)]

RequestParsers ==
  [kind : {"request"},
   state : {"version", "cmd", "rsv", "atyp", "dstaddr_fqdn", "dstaddr", "dstport", "done", "error"},
   n : Nat, cmd : Nat, atyp : Nat, addr : Seq(Nat), port : Seq(Nat)]

(* A parser of the kind k.                                                 *)
ParserOf(k, p) ==
  \/ k = "hello" /\ p \in HelloParsers
  \/ k = "auth" /\ p \in AuthParsers
  \/ k = "request" /\ p \in RequestParsers

(* A byte takes a parser that is not done to a state of the same parser.   *)
LEMMA HelloFeeds ==
  ASSUME NEW p \in HelloParsers, ~IsDone(p), NEW b \in Nat, NEW a,
         NEW q, q = hello_parser_feed(p, b, a)
  PROVE  q \in HelloParsers
<1>1. p.state \in {"version", "nmethods", "methods"}
  BY DEF HelloParsers, IsDone
<1>2. CASE p.state = "version"
  <2>1. q = [p EXCEPT !.state = IF b = VERSION_SOCKS THEN "nmethods" ELSE "error"]
    BY <1>2 DEF hello_parser_feed
  <2> QED
    BY <2>1 DEF HelloParsers
<1>3. CASE p.state = "nmethods"
  <2> DEFINE st == IF b = 0 THEN "done" ELSE "methods"
  <2>1. q = [p EXCEPT !.remaining = b, !.state = st]
    BY <1>3 DEF hello_parser_feed
  <2>2. st \in {"done", "methods"} /\ b \in Int
    OBVIOUS
  <2> HIDE DEF st
  <2> QED
    BY <2>1, <2>2 DEF HelloParsers
<1>4. CASE p.state = "methods"
  <2> DEFINE m == on_hello_method(p, b, a)
             st == IF p.remaining = 1 THEN "done" ELSE m.state
             left == m.remaining - 1
  <2>1. q = [m EXCEPT !.remaining = left, !.state = st]
    BY <1>4 DEF hello_parser_feed
  <2>2. m = p \/ m = [p EXCEPT !.method = b]
    BY DEF on_hello_method
  <2> HIDE DEF m
  <2>3. m \in HelloParsers
    BY <2>2 DEF HelloParsers
  <2>4. left \in Int /\ st \in {m.state, "done"}
    BY <2>3 DEF HelloParsers
  <2> HIDE DEF st, left
  <2> QED
    BY <2>1, <2>3, <2>4 DEF HelloParsers
<1> QED
  BY <1>1, <1>2, <1>3, <1>4

(* What a byte does to the parser of auth.c.                               *)
LEMMA AuthFeeds ==
  ASSUME NEW p \in AuthParsers, ~IsDone(p), NEW b \in Nat,
         NEW q, q = auth_parser_feed(p, b)
  PROVE  q \in AuthParsers
<1>1. p.state \in {"version", "ulen", "uname", "plen", "passwd"}
  BY DEF AuthParsers, IsDone
<1>2. CASE p.state = "version"
  <2>1. q = [p EXCEPT !.state = IF b = VERSION_AUTH THEN "ulen" ELSE "error"]
    BY <1>2 DEF auth_parser_feed
  <2> QED
    BY <2>1 DEF AuthParsers
<1>3. CASE p.state = "ulen"
  <2>1. q = [p EXCEPT !.len = b, !.state = "uname"]
    BY <1>3 DEF auth_parser_feed
  <2> QED
    BY <2>1 DEF AuthParsers
<1>4. CASE p.state = "uname"
  <2> DEFINE field == Append(p.uname, b)
             st == IF Len(p.uname) + 1 >= p.len THEN "plen" ELSE p.state
  <2>1. q = [p EXCEPT !.uname = field, !.state = st]
    BY <1>4 DEF auth_parser_feed
  <2>2. field \in Seq(Nat) /\ st \in {p.state, "plen"}
    BY DEF AuthParsers
  <2> HIDE DEF field, st
  <2> QED
    BY <2>1, <2>2 DEF AuthParsers
<1>5. CASE p.state = "plen"
  <2>1. q = [p EXCEPT !.len = b, !.state = "passwd"]
    BY <1>5 DEF auth_parser_feed
  <2> QED
    BY <2>1 DEF AuthParsers
<1>6. CASE p.state = "passwd"
  <2> DEFINE field == Append(p.passwd, b)
             st == IF Len(p.passwd) + 1 >= p.len THEN "done" ELSE p.state
  <2>1. q = [p EXCEPT !.passwd = field, !.state = st]
    BY <1>6 DEF auth_parser_feed
  <2>2. field \in Seq(Nat) /\ st \in {p.state, "done"}
    BY DEF AuthParsers
  <2> HIDE DEF field, st
  <2> QED
    BY <2>1, <2>2 DEF AuthParsers
<1> QED
  BY <1>1, <1>2, <1>3, <1>4, <1>5, <1>6

(* What a byte does to the parser of request.c.                            *)
LEMMA RequestFeeds ==
  ASSUME NEW p \in RequestParsers, ~IsDone(p), NEW b \in Nat,
         NEW q, q = request_parser_feed(p, b)
  PROVE  q \in RequestParsers
<1>1. p.state \in {"version", "cmd", "rsv", "atyp", "dstaddr_fqdn", "dstaddr", "dstport"}
  BY DEF RequestParsers, IsDone
<1>2. CASE p.state \in {"version", "cmd", "rsv", "dstaddr_fqdn"}
  <2>1. \/ q = [p EXCEPT !.state = IF b = VERSION_SOCKS THEN "cmd" ELSE "error"]
        \/ q = [p EXCEPT !.cmd = b, !.state = "rsv"]
        \/ q = [p EXCEPT !.state = "atyp"]
        \/ q = [p EXCEPT !.n = b, !.state = "dstaddr"]
    BY <1>2 DEF request_parser_feed
  <2> QED
    BY <2>1 DEF RequestParsers
<1>3. CASE p.state = "atyp"
  <2> DEFINE t == [p EXCEPT !.atyp = b]
  <2>1. t \in RequestParsers
    BY DEF RequestParsers
  <2>2. \/ q = [t EXCEPT !.n = Ipv4Len, !.state = "dstaddr"]
        \/ q = [t EXCEPT !.n = Ipv6Len, !.state = "dstaddr"]
        \/ q = [t EXCEPT !.state = "dstaddr_fqdn"]
        \/ q = [t EXCEPT !.state = "error"]
    BY <1>3 DEF request_parser_feed, atyp
  <2> HIDE DEF t
  <2> QED
    BY <2>1, <2>2, ParsersAssumption DEF ParsersAssumption, RequestParsers
<1>4. CASE p.state = "dstaddr"
  <2> DEFINE field == Append(p.addr, b)
             st == IF Len(p.addr) + 1 >= p.n THEN "dstport" ELSE p.state
  <2>1. q = [p EXCEPT !.addr = field, !.state = st]
    BY <1>4 DEF request_parser_feed
  <2>2. field \in Seq(Nat) /\ st \in {p.state, "dstport"}
    BY DEF RequestParsers
  <2> HIDE DEF field, st
  <2> QED
    BY <2>1, <2>2 DEF RequestParsers
<1>5. CASE p.state = "dstport"
  <2> DEFINE field == Append(p.port, b)
             st == IF Len(p.port) + 1 >= 2 THEN "done" ELSE p.state
  <2>1. q = [p EXCEPT !.port = field, !.state = st]
    BY <1>5 DEF request_parser_feed
  <2>2. field \in Seq(Nat) /\ st \in {p.state, "done"}
    BY DEF RequestParsers
  <2> HIDE DEF field, st
  <2> QED
    BY <2>1, <2>2 DEF RequestParsers
<1> QED
  BY <1>1, <1>2, <1>3, <1>4, <1>5

(* A byte leaves a parser of its kind.                                     *)
LEMMA FeedKeepsKind ==
  ASSUME NEW k, NEW p, ParserOf(k, p), ~IsDone(p), NEW b \in Nat, NEW a
  PROVE  ParserOf(k, Feed(p, b, a))
<1>1. CASE k = "hello" /\ p \in HelloParsers
  <2>1. p.kind = "hello"
    BY <1>1 DEF HelloParsers
  <2>2. Feed(p, b, a) = hello_parser_feed(p, b, a)
    BY <2>1 DEF Feed
  <2> QED
    BY <1>1, <2>2, HelloFeeds DEF ParserOf
<1>2. CASE k = "auth" /\ p \in AuthParsers
  <2>1. p.kind = "auth"
    BY <1>2 DEF AuthParsers
  <2>2. Feed(p, b, a) = auth_parser_feed(p, b)
    BY <2>1 DEF Feed
  <2> QED
    BY <1>2, <2>2, AuthFeeds DEF ParserOf
<1>3. CASE k = "request" /\ p \in RequestParsers
  <2>1. p.kind = "request"
    BY <1>3 DEF RequestParsers
  <2>2. Feed(p, b, a) = request_parser_feed(p, b)
    BY <2>1 DEF Feed
  <2> QED
    BY <1>3, <2>2, RequestFeeds DEF ParserOf
<1> QED
  BY <1>1, <1>2, <1>3 DEF ParserOf

(* What the loop of a consume function has done after k bytes.             *)
Fed(p, bytes, a, f, k) ==
  IF k = 0 THEN [p |-> p, n |-> 0]
  ELSE IF IsDone(f[k - 1].p) THEN f[k - 1] ELSE [p |-> Feed(f[k - 1].p, bytes[k], a), n |-> k]

Runs(p, bytes, a, L, f) == f = [k \in 0 .. L |-> Fed(p, bytes, a, f, k)]

(* The recursive function of Consume exists, whatever the bytes: the       *)
(* smallest length without one would extend that of the length before it.  *)
LEMMA RunExists ==
  ASSUME NEW p, NEW bytes, NEW a, NEW L \in Nat
  PROVE  \E f : Runs(p, bytes, a, L, f)
<1> DEFINE Run(m, f) == f = [k \in 0 .. m |-> Fed(p, bytes, a, f, k)]
           bad == {m \in Nat : ~\E f : Run(m, f)}
<1>1. SUFFICES ASSUME L \in bad PROVE FALSE
  BY DEF Runs
<1>2. PICK m \in bad : \A y \in bad : m <= y
  <2>1. bad \in SUBSET Nat /\ bad # {}
    BY <1>1
  <2> HIDE DEF bad
  <2> QED
    BY <2>1, SmallestExists
<1>3. m # 0
  <2>1. SUFFICES ASSUME m = 0 PROVE \E f : Run(0, f)
    OBVIOUS
  <2> DEFINE g == [k \in 0 .. 0 |-> [p |-> p, n |-> 0]]
  <2>2. \A k \in 0 .. 0 : Fed(p, bytes, a, g, k) = [p |-> p, n |-> 0]
    BY DEF Fed
  <2>3. Run(0, g)
    BY <2>2
  <2> QED
    BY <2>3
<1>4. m - 1 \in Nat /\ m - 1 \notin bad
  BY <1>2, <1>3
<1>5. PICK g : Run(m - 1, g)
  BY <1>4
<1> DEFINE h == [k \in 0 .. m |-> IF k < m THEN g[k] ELSE Fed(p, bytes, a, g, m)]
<1>6. ASSUME NEW k \in 0 .. m PROVE h[k] = Fed(p, bytes, a, h, k)
  <2>1. k > 0 => h[k - 1] = g[k - 1]
    OBVIOUS
  <2>2. Fed(p, bytes, a, h, k) = Fed(p, bytes, a, g, k)
    <3> HIDE DEF h
    <3> QED
      BY <2>1 DEF Fed
  <2>3. CASE k < m
    <3>1. k \in 0 .. m - 1
      BY <1>4, <2>3
    <3>2. g[k] = Fed(p, bytes, a, g, k)
      BY <1>5, <3>1
    <3> QED
      BY <2>2, <2>3, <3>2
  <2>4. CASE k = m
    BY <2>2, <2>4
  <2> QED
    BY <2>3, <2>4
<1>7. Run(m, h)
  <2>1. h = [k \in 0 .. m |-> h[k]]
    OBVIOUS
  <2> HIDE DEF h
  <2> QED
    BY <1>6, <2>1
<1> QED
  BY <1>7

(* However many bytes are consumed, the parser stays of its kind and no    *)
(* more are taken than there are.                                          *)
LEMMA ConsumeOK ==
  ASSUME NEW kind, NEW p, ParserOf(kind, p), NEW bytes \in Seq(Nat), NEW a
  PROVE  ParserOf(kind, Consume(p, bytes, a).p) /\ Consume(p, bytes, a).n \in 0 .. Len(bytes)
<1> DEFINE L == Len(bytes)
           run == CHOOSE f : f = [k \in 0 .. L |-> Fed(p, bytes, a, f, k)]
           Good(k) == ParserOf(kind, run[k].p) /\ run[k].n \in 0 .. k
           bad == {k \in 0 .. L : ~Good(k)}
<1>1. L \in Nat
  OBVIOUS
<1>2. run = [k \in 0 .. L |-> Fed(p, bytes, a, run, k)]
  <2>1. PICK f : Runs(p, bytes, a, L, f)
    BY <1>1, RunExists
  <2>2. f = [k \in 0 .. L |-> Fed(p, bytes, a, f, k)]
    BY <2>1 DEF Runs
  <2> QED
    BY <2>2
<1>3. Consume(p, bytes, a) = run[L]
  BY DEF Consume, Fed
<1> HIDE DEF run
<1>4. bad = {}
  <2>1. SUFFICES ASSUME bad # {} PROVE FALSE
    OBVIOUS
  <2>2. PICK m \in bad : \A y \in bad : m <= y
    <3>1. bad \in SUBSET Nat
      BY <1>1
    <3> HIDE DEF bad
    <3> QED
      BY <2>1, <3>1, SmallestExists
  <2>3. m \in 0 .. L /\ run[m] = Fed(p, bytes, a, run, m)
    BY <1>2
  <2>4. CASE m = 0
    <3>1. run[m] = [p |-> p, n |-> 0]
      BY <2>3, <2>4 DEF Fed
    <3> QED
      BY <2>2, <2>4, <3>1
  <2>5. CASE m # 0
    <3>1. m - 1 \in 0 .. L /\ m - 1 \notin bad
      BY <1>1, <2>2, <2>3, <2>5
    <3>2. ParserOf(kind, run[m - 1].p) /\ run[m - 1].n \in 0 .. m - 1
      BY <3>1
    <3>3. CASE IsDone(run[m - 1].p)
      <4>1. run[m] = run[m - 1]
        BY <2>3, <2>5, <3>3 DEF Fed
      <4> QED
        BY <1>1, <2>2, <2>3, <3>2, <4>1
    <3>4. CASE ~IsDone(run[m - 1].p)
      <4>1. run[m] = [p |-> Feed(run[m - 1].p, bytes[m], a), n |-> m]
        BY <2>3, <2>5, <3>4 DEF Fed
      <4>2. bytes[m] \in Nat
        BY <2>3, <2>5
      <4>3. ParserOf(kind, Feed(run[m - 1].p, bytes[m], a))
        BY <3>2, <3>4, <4>2, FeedKeepsKind
      <4> QED
        BY <1>1, <2>2, <2>3, <4>1, <4>3
    <3> QED
      BY <3>3, <3>4
  <2> QED
    BY <2>4, <2>5
<1>5. Good(L)
  BY <1>1, <1>4
<1> QED
  BY <1>3, <1>5

-----------------------------------------------------------------------------
(* The inductive invariant.                                                *)

Tables ==
  [slot : [1 .. MaxUsers -> [uname : Seq(Nat), passwd : Seq(Nat)]], n : 0 .. MaxUsers]

(* read_buffer holds bytes that were received, and no more of them.        *)
BytesOK ==
  /\ sent \in Seq(Hellos \cup Auths \cup Requests)
  /\ sent = <<>> => out = <<>>
  /\ out \in Seq(Nat)
  /\ recvd \in 0 .. Len(out)
  /\ rb \in Buffers
  /\ buffer_read_ptr(rb) <= recvd

(* The union of the client holds the parser of its state.                  *)
ParserOK ==
  /\ state \in {"HELLO_READ", "HELLO_WRITE"} => ParserOf("hello", parser)
  /\ state \in {"AUTH_READ", "AUTH_WRITE"} => ParserOf("auth", parser)
  /\ state = "REQUEST_READ" => ParserOf("request", parser)

RequestServed == \E k \in DOMAIN served : served[k].p.kind = "request"

ServedOK ==
  /\ served \in Seq([p : HelloParsers \cup AuthParsers \cup RequestParsers, upto : Int])
  /\ state \in {"HELLO_READ", "HELLO_WRITE", "AUTH_READ", "AUTH_WRITE"} => ~RequestServed

(* While the switch is on, nobody gets past AUTH without a name; the       *)
(* status that auth_write sends says whether one was found.                *)
AccessOK ==
  /\ is_auth_on \in BOOLEAN
  /\ is_auth_on /\ state \in {"REQUEST_READ", "REQUEST_WRITE", "COPY"} => authenticated # {}
  /\ is_auth_on /\ RequestServed => authenticated # {}
  /\ state = "AUTH_WRITE" => wb \in Seq(Nat) /\ wb # <<>> /\ (wb[Len(wb)] = 0 => authenticated # {})
  /\ state \in {"HELLO_READ", "HELLO_WRITE", "AUTH_READ"} => client_uname = 0 /\ authenticated = {}

(* client_uname points to the entry of that name until an entry at or      *)
(* before it is removed.                                                   *)
EntryOK ==
  /\ users \in Tables
  /\ client_uname \in Nat
  /\ removed \in BOOLEAN
  /\ authenticated # {} => client_uname # 0
  /\ client_uname # 0 /\ ~removed =>
       client_uname <= users.n /\ authenticated = {users.slot[client_uname].uname}

LogOK ==
  /\ logged # NotLogged => state \in {"COPY", "ERROR"}
  /\ LoggedNameRight

HandshakeInv == BytesOK /\ ParserOK /\ ServedOK /\ AccessOK /\ EntryOK /\ LogOK

(* The invariant holds when the connection is accepted.                    *)
LEMMA HandshakeInit == Init => HandshakeInv
<1> SUFFICES ASSUME Init PROVE HandshakeInv
  OBVIOUS
<1>1. BytesOK
  BY BufSizeAssumption DEF BufSizeAssumption, Init, BytesOK, Buffers, buffer_init, buffer_read_ptr
<1>2. ParserOK
  <2>1. hello_parser_init \in HelloParsers
    BY DEF hello_parser_init, HelloParsers, SOCKS_HELLO_NO_ACCEPTABLE_METHODS
  <2> QED
    BY <2>1 DEF Init, ParserOK, ParserOf
<1>3. ServedOK
  BY DEF Init, ServedOK, RequestServed
<1>4. AccessOK
  <2>1. is_auth_on \in BOOLEAN
    BY DEF Init, HelloReadInit
  <2> QED
    BY <1>3, <2>1 DEF Init, AccessOK, ServedOK
<1>5. users \in Tables
  <2>1. PICK k \in 0 .. Len(Accounts) : k <= MaxUsers /\ users = Table(k)
    BY DEF Init
  <2> DEFINE Entry == [uname : Seq(Nat), passwd : Seq(Nat)]
             slots == [i \in 1 .. MaxUsers |-> IF i <= k THEN Accounts[i] ELSE NoUsers.slot[i]]
  <2>2. Accounts \in Seq(Entry) /\ MaxUsers \in Nat \ {0} /\ k \in Nat /\ k <= Len(Accounts)
    BY <2>1, HandshakeAssumption, MaxUsersAssumption DEF HandshakeAssumption, MaxUsersAssumption
  <2>3. \A i \in 1 .. MaxUsers : NoUsers.slot[i] \in Entry
    BY DEF NoUsers
  <2>4. \A i \in 1 .. MaxUsers : i <= k => Accounts[i] \in Entry
    <3>1. \A i \in 1 .. MaxUsers : i <= k => i \in 1 .. Len(Accounts)
      BY <2>2
    <3> HIDE DEF Entry
    <3> QED
      BY <2>2, <3>1
  <2>5. slots \in [1 .. MaxUsers -> Entry]
    <3> HIDE DEF Entry
    <3> QED
      BY <2>3, <2>4
  <2>6. users = [slot |-> slots, n |-> k]
    BY <2>1 DEF Table
  <2> HIDE DEF slots
  <2> QED
    BY <2>1, <2>2, <2>5, <2>6 DEF Tables
<1>6. EntryOK /\ LogOK
  BY <1>5 DEF Init, EntryOK, LogOK, LoggedNameRight
<1> QED
  BY <1>1, <1>2, <1>3, <1>4, <1>6 DEF HandshakeInv

-----------------------------------------------------------------------------
(* Every step keeps it: the client.                                        *)

(* The messages of the client are sequences of bytes.                      *)
LEMMA MessageTyped ==
  ASSUME NEW m \in Hellos \cup Auths \cup Requests
  PROVE  MessageBytes(m) \in Seq(Nat)
<1>1. CASE m \in Hellos
  <2>1. m \in [kind : {"hello"}, ver : Nat, methods : Seq(Nat)]
    BY <1>1, HandshakeAssumption DEF HandshakeAssumption
  <2>2. MessageBytes(m) = HelloBytes(m)
    BY <2>1 DEF MessageBytes
  <2> QED
    BY <2>1, <2>2 DEF HelloBytes
<1>2. CASE m \in Auths
  <2>1. m \in [kind : {"auth"}, uname : Seq(Nat), passwd : Seq(Nat)]
    BY <1>2, HandshakeAssumption DEF HandshakeAssumption
  <2>2. MessageBytes(m) = AuthBytes(m)
    BY <2>1 DEF MessageBytes
  <2> QED
    BY <2>1, <2>2 DEF AuthBytes, VERSION_AUTH
<1>3. CASE m \in Requests
  <2>1. m \in [kind : {"request"}, cmd : Nat, atyp : Nat, addr : Seq(Nat), port : Seq(Nat)]
    BY <1>3, HandshakeAssumption DEF HandshakeAssumption
  <2>2. MessageBytes(m) = RequestBytes(m)
    BY <2>1 DEF MessageBytes
  <2> DEFINE len == IF m.atyp = socks_req_addrtype_domain THEN <<Len(m.addr)>> ELSE <<>>
             head == <<VERSION_SOCKS, m.cmd, 0, m.atyp>>
  <2>3. len \in Seq(Nat) /\ head \in Seq(Nat) /\ m.addr \in Seq(Nat) /\ m.port \in Seq(Nat)
    BY <2>1 DEF VERSION_SOCKS
  <2>4. RequestBytes(m) = head \o len \o m.addr \o m.port
    BY DEF RequestBytes
  <2> HIDE DEF len, head
  <2> QED
    BY <2>2, <2>3, <2>4
<1> QED
  BY <1>1, <1>2, <1>3

(* The client and its kernel change nothing of the server.                 *)
LEMMA ClientStep ==
  ASSUME HandshakeInv, ClientSends \/ ClientSendsAll \/ ClientCloses
  PROVE  HandshakeInv'
<1>1. UNCHANGED <<state, recvd, rb, wb, parser, users, is_auth_on, client_uname, served, authenticated,
                  removed, logged>>
  BY DEF ClientSends, ClientSendsAll, ClientCloses, userVars, histVars
<1>2. out' \in Seq(Nat) /\ Len(out) <= Len(out') /\ sent' \in Seq(Hellos \cup Auths \cup Requests)
      /\ (sent' = <<>> => out' = <<>>)
  <2> DEFINE Messages == Hellos \cup Auths \cup Requests
  <2>1. CASE ClientSends
    <3>1. PICK m \in Messages : Send(m)
      BY <2>1 DEF ClientSends
    <3>2. MessageBytes(m) \in Seq(Nat)
      BY MessageTyped
    <3>3. sent' = Append(sent, m) /\ out' = out \o MessageBytes(m)
      BY <3>1 DEF Send
    <3> HIDE DEF Messages
    <3>4. sent' \in Seq(Messages) /\ sent' # <<>>
      BY <3>3 DEF HandshakeInv, BytesOK, Messages
    <3> QED
      BY <3>2, <3>3, <3>4 DEF HandshakeInv, BytesOK, Messages
  <2>2. CASE ClientSendsAll
    <3>1. PICK h \in Hellos, a \in Auths, r \in Requests :
            /\ sent' \in {<<h, a, r>>, <<h, r>>}
            /\ out' = MessageBytes(h) \o (IF Len(sent') = 3 THEN MessageBytes(a) ELSE <<>>) \o MessageBytes(r)
      BY <2>2 DEF ClientSendsAll
    <3> DEFINE mid == IF Len(sent') = 3 THEN MessageBytes(a) ELSE <<>>
               b == MessageBytes(h) \o mid \o MessageBytes(r)
    <3>2. MessageBytes(h) \in Seq(Nat) /\ MessageBytes(a) \in Seq(Nat) /\ MessageBytes(r) \in Seq(Nat)
      BY MessageTyped
    <3>3. mid \in Seq(Nat)
      BY <3>2
    <3>4. out' = b
      BY <3>1
    <3> HIDE DEF mid
    <3>5. b \in Seq(Nat)
      BY <3>2, <3>3
    <3>6. out = <<>>
      BY <2>2 DEF ClientSendsAll, HandshakeInv, BytesOK
    <3>7. sent' \in Seq(Messages) /\ sent' # <<>>
      <4>1. h \in Messages /\ a \in Messages /\ r \in Messages
        OBVIOUS
      <4> HIDE DEF Messages
      <4>2. CASE sent' = <<h, a, r>>
        BY <4>1, <4>2
      <4>3. CASE sent' = <<h, r>>
        BY <4>1, <4>3
      <4> QED
        BY <3>1, <4>2, <4>3
    <3> HIDE DEF b
    <3> QED
      BY <3>4, <3>5, <3>6, <3>7
  <2>3. CASE ClientCloses
    BY <2>3 DEF ClientCloses, HandshakeInv, BytesOK
  <2> QED
    BY <2>1, <2>2, <2>3
<1>3. BytesOK'
  BY <1>1, <1>2 DEF HandshakeInv, BytesOK
<1>4. ParserOK' /\ ServedOK'
  BY <1>1 DEF HandshakeInv, ParserOK, ServedOK, RequestServed
<1>5. AccessOK'
  BY <1>1 DEF HandshakeInv, AccessOK, RequestServed
<1>6. EntryOK' /\ LogOK'
  BY <1>1 DEF HandshakeInv, EntryOK, LogOK, LoggedNameRight
<1> QED
  BY <1>3, <1>4, <1>5, <1>6 DEF HandshakeInv

-----------------------------------------------------------------------------
(* The switch and the table, changed by others.                            *)

(* What is kept as long as the connection itself does not move.            *)
LEMMA ConnectionKept ==
  ASSUME HandshakeInv,
         UNCHANGED <<sent, out, state, recvd, rb, wb, parser, served, authenticated, client_uname, logged>>
  PROVE  /\ BytesOK' /\ ParserOK' /\ ServedOK' /\ RequestServed' = RequestServed
         /\ (logged # NotLogged => state \in {"COPY", "ERROR"})'
BY DEF HandshakeInv, BytesOK, ParserOK, ServedOK, RequestServed, LogOK

(* Another connection may turn authentication off.                         *)
LEMMA OtherHelloStep == HandshakeInv /\ OtherHello => HandshakeInv'
<1> SUFFICES ASSUME HandshakeInv, OtherHello PROVE HandshakeInv'
  OBVIOUS
<1>1. /\ UNCHANGED <<sent, out, state, recvd, rb, wb, parser, users, client_uname, served, authenticated,
                     removed, logged>>
      /\ is_auth_on' = (is_auth_on /\ users.n > 0)
  BY DEF OtherHello, HelloReadInit, clientVars
<1>2. is_auth_on' \in BOOLEAN /\ (is_auth_on' => is_auth_on)
  BY <1>1
<1>3. AccessOK'
  BY <1>1, <1>2 DEF HandshakeInv, AccessOK, RequestServed
<1>4. EntryOK' /\ LoggedNameRight'
  BY <1>1, <1>2 DEF HandshakeInv, EntryOK, LogOK, LoggedNameRight
<1> QED
  BY <1>1, <1>3, <1>4, ConnectionKept DEF HandshakeInv, LogOK

(* A new user goes after all others.                                       *)
LEMMA AddUserStep ==
  ASSUME HandshakeInv, NEW a \in Range(Accounts), AddUser(a)
  PROVE  HandshakeInv'
<1> DEFINE Entry == [uname : Seq(Nat), passwd : Seq(Nat)]
           new == [uname |-> a.uname, passwd |-> a.passwd]
           slots == [users.slot EXCEPT ![users.n + 1] = new]
           m == users.n + 1
<1>1. /\ UNCHANGED <<sent, out, state, recvd, rb, wb, parser, is_auth_on, client_uname, served, authenticated,
                     removed, logged>>
      /\ RegisterStatus(users, a.uname) = 0 /\ users' = socksv5_register_user(users, a.uname, a.passwd)
  BY DEF AddUser, clientVars
<1>2. users' = [slot |-> slots, n |-> m] /\ users.n < MaxUsers
  <2>1. users.n \in Nat /\ MaxUsers \in Nat
    BY MaxUsersAssumption DEF MaxUsersAssumption, HandshakeInv, EntryOK, Tables
  <2> QED
    BY <1>1, <2>1 DEF socksv5_register_user, RegisterStatus
<1>3. users \in Tables /\ users.slot \in [1 .. MaxUsers -> Entry] /\ users.n \in 0 .. MaxUsers
      /\ MaxUsers \in Nat
  BY MaxUsersAssumption DEF MaxUsersAssumption, HandshakeInv, EntryOK, Tables
<1>4. new \in Entry
  <2>1. Accounts \in Seq(Entry)
    BY HandshakeAssumption DEF HandshakeAssumption
  <2>2. a \in Entry
    <3>1. PICK i \in DOMAIN Accounts : a = Accounts[i]
      BY DEF Range
    <3> HIDE DEF Entry
    <3> QED
      BY <2>1, <3>1
  <2> QED
    BY <2>2
<1> HIDE DEF new, Entry
<1>5. slots \in [1 .. MaxUsers -> Entry] /\ \A i \in 1 .. users.n : slots[i] = users.slot[i]
  BY <1>2, <1>3, <1>4
<1>6. m \in 0 .. MaxUsers /\ users.n <= m
  BY <1>2, <1>3
<1> HIDE DEF slots, m
<1>7. users' \in Tables /\ users'.slot = slots /\ users'.n = m
  BY <1>2, <1>5, <1>6 DEF Tables, Entry
<1>8. EntryOK'
  <2>1. client_uname \in Nat /\ users.n \in Nat
    BY <1>3 DEF HandshakeInv, EntryOK
  <2>2. client_uname # 0 /\ ~removed =>
          client_uname <= m /\ authenticated = {slots[client_uname].uname}
    BY <1>3, <1>5, <1>6, <2>1 DEF HandshakeInv, EntryOK
  <2> QED
    BY <1>1, <1>7, <2>2 DEF HandshakeInv, EntryOK
<1>9. AccessOK' /\ LoggedNameRight'
  BY <1>1 DEF HandshakeInv, AccessOK, RequestServed, LogOK, LoggedNameRight
<1> QED
  BY <1>1, <1>8, <1>9, ConnectionKept DEF HandshakeInv, LogOK

(* The entries before a removed user stay where they are.                  *)
LEMMA DeleteUserStep ==
  ASSUME HandshakeInv, NEW a \in Range(Accounts), DeleteUser(a)
  PROVE  HandshakeInv'
<1> DEFINE Entry == [uname : Seq(Nat), passwd : Seq(Nat)]
           pos == Position(users, a.uname)
           gone == Min(pos)
           slots == [i \in 1 .. MaxUsers |->
                       IF i \in gone .. users.n - 1 THEN users.slot[i + 1] ELSE users.slot[i]]
<1>1. /\ UNCHANGED <<sent, out, state, recvd, rb, wb, parser, is_auth_on, client_uname, served, authenticated,
                     logged>>
      /\ pos # {} /\ users' = socksv5_unregister_user(users, a.uname)
      /\ removed' = (removed \/ \E i \in pos : i <= client_uname)
  BY DEF DeleteUser, clientVars
<1>2. users' = [slot |-> slots, n |-> users.n - 1]
  BY <1>1 DEF socksv5_unregister_user
<1>3. users.slot \in [1 .. MaxUsers -> Entry] /\ users.n \in 0 .. MaxUsers /\ MaxUsers \in Nat
  BY MaxUsersAssumption DEF MaxUsersAssumption, HandshakeInv, EntryOK, Tables
<1>4. gone \in pos /\ gone \in 1 .. users.n /\ users.n \in Nat
  <2>1. pos \in SUBSET Nat /\ pos \subseteq 1 .. users.n
    BY <1>3 DEF Position
  <2>2. gone \in pos
    <3> HIDE DEF pos
    <3> QED
      BY <1>1, <2>1, MinOf
  <2> QED
    BY <1>3, <2>1, <2>2
<1> HIDE DEF gone, Entry
<1>5. slots \in [1 .. MaxUsers -> Entry] /\ \A i \in 1 .. gone - 1 : slots[i] = users.slot[i]
  <2>1. \A i \in 1 .. MaxUsers : i \in gone .. users.n - 1 => i + 1 \in 1 .. MaxUsers
    BY <1>3, <1>4
  <2>2. \A i \in 1 .. gone - 1 : i \in 1 .. MaxUsers /\ i \notin gone .. users.n - 1
    BY <1>3, <1>4
  <2> QED
    BY <1>3, <2>1, <2>2
<1>6. users.n - 1 \in 0 .. MaxUsers
  BY <1>3, <1>4
<1> HIDE DEF slots
<1>7. users' \in Tables /\ users'.slot = slots /\ users'.n = users.n - 1
  BY <1>2, <1>5, <1>6 DEF Tables, Entry
<1>8. removed' \in BOOLEAN /\ (~removed' => ~removed /\ \A i \in pos : ~(i <= client_uname))
  BY <1>1
<1> HIDE DEF pos
<1>9. EntryOK'
  <2>1. client_uname \in Nat
    BY DEF HandshakeInv, EntryOK
  <2>2. client_uname # 0 /\ ~removed' =>
          client_uname <= users.n - 1 /\ authenticated = {slots[client_uname].uname}
    <3> SUFFICES ASSUME client_uname # 0, ~removed'
                 PROVE  client_uname <= users.n - 1 /\ authenticated = {slots[client_uname].uname}
      OBVIOUS
    <3>1. ~(gone <= client_uname)
      BY <1>4, <1>8
    <3>2. client_uname \in 1 .. gone - 1
      BY <1>4, <2>1, <3>1
    <3>3. authenticated = {users.slot[client_uname].uname}
      BY <1>8 DEF HandshakeInv, EntryOK
    <3> QED
      BY <1>4, <1>5, <3>2, <3>3
  <2> QED
    BY <1>1, <1>7, <1>8, <2>2 DEF HandshakeInv, EntryOK
<1>10. AccessOK' /\ LoggedNameRight'
  BY <1>1, <1>8 DEF HandshakeInv, AccessOK, RequestServed, LogOK, LoggedNameRight
<1> QED
  BY <1>1, <1>9, <1>10, ConnectionKept DEF HandshakeInv, LogOK

-----------------------------------------------------------------------------
(* The server.                                                             *)

(* What a read that brought bytes does to read_buffer and to the parser.   *)
ReadEffect(kind, k) ==
  /\ ParserOf(kind, Parsed(k).p)
  /\ recvd + k \in 0 .. Len(out)
  /\ AfterRead(k, Parsed(k).n) \in Buffers
  /\ buffer_read_ptr(AfterRead(k, Parsed(k).n)) <= recvd + k
  /\ recvd - buffer_read_ptr(rb) + Parsed(k).n \in Int

(* What Read leaves in the buffer and the parser.                          *)
LEMMA ReadOK ==
  ASSUME BytesOK, NEW kind, ParserOf(kind, parser), NEW k \in 1 .. BufSize, Recv(k)
  PROVE  ReadEffect(kind, k)
<1> DEFINE have == buffer_read_ptr(rb)
           old == Unread
           new == SubSeq(out, recvd + 1, recvd + k)
           r == Parsed(k)
           used == r.n
<1>1. /\ BufSize \in Nat \ {0} /\ rb.read \in 0 .. BufSize /\ rb.write \in 0 .. BufSize
      /\ rb.read <= rb.write /\ rb = [read |-> rb.read, write |-> rb.write] /\ have = rb.write - rb.read
  BY BufSizeAssumption DEF BufSizeAssumption, BytesOK, Buffers, buffer_read_ptr
<1>2. out \in Seq(Nat) /\ recvd \in Nat /\ recvd <= Len(out) /\ have <= recvd /\ Len(out) \in Nat
  BY DEF BytesOK
<1>3. k \in Nat /\ k >= 1 /\ recvd + k <= Len(out) /\ rb.write + k <= BufSize
  BY <1>1, <1>2 DEF Recv, buffer_write_ptr
<1>4. have \in Nat
  BY <1>1
<1>5. old \in Seq(Nat) /\ Len(old) = have
  <2>1. old = SubSeq(out, recvd - have + 1, recvd)
    BY DEF Unread
  <2> HIDE DEF old, have
  <2>2. recvd - have + 1 \in 1 .. Len(out) + 1 /\ recvd \in recvd - have .. Len(out)
    BY <1>2, <1>4
  <2> QED
    BY <1>2, <1>4, <2>1, <2>2, SubSeqProperties
<1>6. new \in Seq(Nat) /\ Len(new) = k
  <2>1. recvd + 1 \in 1 .. Len(out) + 1 /\ recvd + k \in recvd .. Len(out)
    BY <1>2, <1>3
  <2> QED
    BY <1>2, <1>3, <2>1, SubSeqProperties
<1> HIDE DEF old, new
<1>7. old \o new \in Seq(Nat) /\ Len(old \o new) = have + k
  BY <1>5, <1>6, ConcatProperties
<1>8. r = Consume(parser, old \o new, is_auth_on)
  BY DEF Parsed, old, new
<1> HIDE DEF r
<1>9. ParserOf(kind, r.p) /\ used \in 0 .. have + k
  BY <1>7, <1>8, ConsumeOK
<1> DEFINE b == buffer_write_adv(rb, k)
           c == AfterRead(k, used)
<1>10. b = [read |-> rb.read, write |-> rb.write + k]
  BY <1>1 DEF buffer_write_adv
<1>11. c = buffer_read_adv(b, used)
  BY DEF AfterRead
<1> HIDE DEF used, have
<1>12. used \in Nat /\ rb.read + used <= rb.write + k
  BY <1>1, <1>3, <1>4, <1>9
<1>13. c \in Buffers /\ buffer_read_ptr(c) <= recvd + k
  <2> HIDE DEF b, c
  <2> DEFINE x == rb.read + used
             y == rb.write + k
             v == [read |-> x, write |-> y]
  <2>1. x \in 0 .. BufSize /\ y \in 0 .. BufSize /\ x <= y
    BY <1>1, <1>3, <1>12
  <2>2. c = IF x = y THEN [read |-> 0, write |-> y - x] ELSE v
    BY <1>1, <1>10, <1>11, <1>12 DEF buffer_read_adv, buffer_compact
  <2>3. y - x <= recvd + k
    BY <1>1, <1>2, <1>3, <1>12 DEF have
  <2> HIDE DEF x, y
  <2> QED
    BY <1>1, <1>2, <1>3, <2>1, <2>2, <2>3 DEF Buffers, buffer_read_ptr
<1>14. recvd - have + used \in Int
  BY <1>2, <1>4, <1>12
<1>15. recvd + k \in 0 .. Len(out)
  BY <1>2, <1>3
<1> HIDE DEF c
<1> QED
  BY <1>9, <1>13, <1>14, <1>15 DEF ReadEffect, used, r, have, c

(* A parsed message is remembered.                                         *)
LEMMA ServedAppended ==
  ASSUME NEW S, served \in Seq(S), NEW p, NEW up, [p |-> p, upto |-> up] \in S,
         served' = Append(served, [p |-> p, upto |-> up])
  PROVE  served' \in Seq(S) /\ (RequestServed' <=> RequestServed \/ p.kind = "request")
<1> DEFINE e == [p |-> p, upto |-> up]
<1>1. e \in S /\ e.p = p /\ served' = Append(served, e)
  OBVIOUS
<1> HIDE DEF e
<1>2. /\ served' \in Seq(S) /\ Len(served') = Len(served) + 1 /\ served'[Len(served) + 1] = e
      /\ \A k \in 1 .. Len(served) : served'[k] = served[k]
  BY <1>1
<1>3. DOMAIN served' = DOMAIN served \cup {Len(served) + 1} /\ DOMAIN served = 1 .. Len(served)
  BY <1>2
<1> QED
  BY <1>1, <1>2, <1>3 DEF RequestServed

(* What every reading handler keeps, whether the parser failed, is done or *)
(* waits for more.                                                         *)
ReadKept(kind) ==
  /\ BytesOK' /\ ParserOf(kind, parser')
  /\ served' \in Seq([p : HelloParsers \cup AuthParsers \cup RequestParsers, upto : Int])
  /\ RequestServed' => RequestServed \/ kind = "request"

(* The invariant after bytes were read and the message goes on.            *)
LEMMA ReadKeeps ==
  ASSUME HandshakeInv, NEW kind, ParserOf(kind, parser), NEW k \in 1 .. BufSize, Recv(k),
         recvd' = recvd + k, rb' = AfterRead(k, Parsed(k).n), parser' = Parsed(k).p,
         UNCHANGED <<sent, out>>, UNCHANGED served \/ Serve(Parsed(k).p, k, Parsed(k).n)
  PROVE  ReadKept(kind)
<1>1. ReadEffect(kind, k)
  BY ReadOK DEF HandshakeInv
<1>2. BytesOK' /\ ParserOf(kind, parser')
  BY <1>1 DEF ReadEffect, HandshakeInv, BytesOK
<1> DEFINE S == [p : HelloParsers \cup AuthParsers \cup RequestParsers, upto : Int]
           q == Parsed(k).p
           up == recvd - buffer_read_ptr(rb) + Parsed(k).n
<1>3. served \in Seq(S)
  BY DEF HandshakeInv, ServedOK
<1>4. q \in HelloParsers \cup AuthParsers \cup RequestParsers /\ q.kind = kind /\ up \in Int
  BY <1>1 DEF ReadEffect, ParserOf, HelloParsers, AuthParsers, RequestParsers
<1>5. CASE UNCHANGED served
  BY <1>2, <1>3, <1>5 DEF ReadKept, RequestServed
<1>6. CASE Serve(q, k, Parsed(k).n)
  <2>1. served' = Append(served, [p |-> q, upto |-> up])
    BY <1>6 DEF Serve
  <2> HIDE DEF q, up
  <2>2. [p |-> q, upto |-> up] \in S
    BY <1>4
  <2> HIDE DEF S
  <2>3. served' \in Seq(S) /\ (RequestServed' <=> RequestServed \/ q.kind = "request")
    BY <1>3, <2>1, <2>2, ServedAppended
  <2> QED
    BY <1>2, <1>4, <2>3 DEF ReadKept, S
<1> QED
  BY <1>5, <1>6

(* hello_read keeps the invariant.                                         *)
LEMMA HelloReadStep ==
  ASSUME HandshakeInv, NEW k \in 1 .. BufSize, hello_read(k)
  PROVE  HandshakeInv'
<1>1. /\ state = "HELLO_READ" /\ Recv(k) /\ recvd' = recvd + k /\ rb' = AfterRead(k, Parsed(k).n)
      /\ parser' = Parsed(k).p
      /\ UNCHANGED <<sent, out, users, is_auth_on, client_uname, authenticated, removed, logged>>
      /\ \/ state' = "ERROR" /\ UNCHANGED <<wb, served>>
         \/ state' = "HELLO_WRITE" /\ Serve(Parsed(k).p, k, Parsed(k).n)
         \/ UNCHANGED <<state, wb, served>>
  BY DEF hello_read, clientVars, userVars
<1>2. ParserOf("hello", parser)
  BY <1>1 DEF HandshakeInv, ParserOK
<1>3. /\ BytesOK' /\ ParserOf("hello", parser')
      /\ served' \in Seq([p : HelloParsers \cup AuthParsers \cup RequestParsers, upto : Int])
      /\ RequestServed' => RequestServed
  <2>1. ReadKept("hello")
    BY <1>1, <1>2, ReadKeeps
  <2> QED
    BY <2>1 DEF ReadKept
<1>4. ~RequestServed'
  BY <1>1, <1>3 DEF HandshakeInv, ServedOK
<1>5. ParserOK' /\ ServedOK'
  BY <1>1, <1>3, <1>4 DEF ParserOK, ServedOK
<1>6. AccessOK'
  BY <1>1, <1>4 DEF HandshakeInv, AccessOK
<1>7. EntryOK' /\ LogOK'
  BY <1>1 DEF HandshakeInv, EntryOK, LogOK, LoggedNameRight
<1> QED
  BY <1>3, <1>5, <1>6, <1>7 DEF HandshakeInv

(* The entry auth_process finds is one of the name that was sent.          *)
LEMMA AuthEntryOK ==
  ASSUME users \in Tables, NEW p, AuthEntry(p) # 0
  PROVE  AuthEntry(p) \in 1 .. users.n /\ users.slot[AuthEntry(p)].uname = CStr(p.uname)
<1> DEFINE found == Found(users, CStr(p.uname), CStr(p.passwd))
<1>1. found # {} /\ AuthEntry(p) = Min(found)
  BY DEF AuthEntry
<1>2. users.n \in Nat /\ found \in SUBSET Nat
  BY MaxUsersAssumption DEF MaxUsersAssumption, Tables, Found
<1>3. Min(found) \in found
  <2> HIDE DEF found
  <2> QED
    BY <1>1, <1>2, MinOf
<1> QED
  BY <1>1, <1>3 DEF Found

(* auth_read keeps it: who gets on is a user of the table.                 *)
LEMMA AuthReadStep ==
  ASSUME HandshakeInv, NEW k \in 1 .. BufSize, auth_read(k)
  PROVE  HandshakeInv'
<1> DEFINE q == Parsed(k).p
           entry == AuthEntry(q)
<1>1. /\ state = "AUTH_READ" /\ Recv(k) /\ recvd' = recvd + k /\ rb' = AfterRead(k, Parsed(k).n)
      /\ parser' = q
      /\ UNCHANGED <<sent, out, users, is_auth_on, logged>>
  BY DEF auth_read, clientVars, userVars
<1>2. \/ state' = "ERROR" /\ UNCHANGED <<wb, client_uname, served, authenticated, removed>>
      \/ /\ state' = "AUTH_WRITE" /\ wb' = auth_marshall(IF entry = 0 THEN 1 ELSE 0)
         /\ client_uname' = IF entry = 0 THEN client_uname ELSE entry
         /\ authenticated' = IF entry = 0 THEN authenticated ELSE {CStr(q.uname)}
         /\ removed' = FALSE /\ Serve(q, k, Parsed(k).n)
      \/ UNCHANGED <<state, wb, client_uname, served, authenticated, removed>>
  BY DEF auth_read
<1>3. ParserOf("auth", parser)
  BY <1>1 DEF HandshakeInv, ParserOK
<1>4. /\ BytesOK' /\ ParserOf("auth", parser')
      /\ served' \in Seq([p : HelloParsers \cup AuthParsers \cup RequestParsers, upto : Int])
      /\ RequestServed' => RequestServed
  <2>1. ReadKept("auth")
    BY <1>1, <1>2, <1>3, ReadKeeps
  <2> QED
    BY <2>1 DEF ReadKept
<1>5. ~RequestServed'
  BY <1>1, <1>4 DEF HandshakeInv, ServedOK
<1>6. ParserOK' /\ ServedOK'
  BY <1>1, <1>2, <1>4, <1>5 DEF ParserOK, ServedOK
<1>7. client_uname = 0 /\ authenticated = {} /\ logged = NotLogged /\ users \in Tables
  BY <1>1 DEF HandshakeInv, AccessOK, LogOK, EntryOK
<1>8. AccessOK' /\ EntryOK'
  <2>1. CASE UNCHANGED <<client_uname, authenticated, removed>> /\ state' \in {"ERROR", "AUTH_READ"}
    BY <1>1, <1>5, <2>1 DEF HandshakeInv, AccessOK, EntryOK
  <2>2. CASE /\ state' = "AUTH_WRITE" /\ wb' = auth_marshall(IF entry = 0 THEN 1 ELSE 0)
             /\ client_uname' = IF entry = 0 THEN client_uname ELSE entry
             /\ authenticated' = IF entry = 0 THEN authenticated ELSE {CStr(q.uname)}
             /\ removed' = FALSE
    <3>1. CASE entry = 0
      <4>1. wb' = <<1, 1>> /\ client_uname' = 0 /\ authenticated' = {}
        BY <1>7, <2>2, <3>1 DEF auth_marshall, VERSION_AUTH
      <4>2. wb' \in Seq(Nat) /\ wb' # <<>> /\ wb'[Len(wb')] = 1
        BY <4>1
      <4>3. AccessOK'
        BY <1>1, <1>5, <2>2, <4>1, <4>2 DEF HandshakeInv, AccessOK
      <4>4. users' \in Tables /\ removed' \in BOOLEAN
        BY <1>1, <1>7, <2>2
      <4>5. EntryOK'
        <5> HIDE DEF entry, q
        <5> QED
          BY <4>1, <4>4 DEF EntryOK
      <4> QED
        BY <4>3, <4>5
    <3>2. CASE entry # 0
      <4>1. entry \in 1 .. users.n /\ users.slot[entry].uname = CStr(q.uname)
        BY <1>7, <3>2, AuthEntryOK
      <4>2. wb' = <<1, 0>> /\ client_uname' = entry /\ authenticated' = {CStr(q.uname)}
        BY <2>2, <3>2 DEF auth_marshall, VERSION_AUTH
      <4>3. wb' \in Seq(Nat) /\ wb' # <<>>
        BY <4>2
      <4>4. users.n \in Nat
        BY <1>7, MaxUsersAssumption DEF MaxUsersAssumption, Tables
      <4> HIDE DEF entry, q
      <4>5. entry \in Nat /\ entry <= users.n
        BY <4>1, <4>4
      <4>6. AccessOK'
        BY <1>1, <1>5, <2>2, <4>2, <4>3 DEF HandshakeInv, AccessOK
      <4>7. EntryOK'
        BY <1>1, <1>7, <2>2, <3>2, <4>1, <4>2, <4>5 DEF EntryOK
      <4> QED
        BY <4>6, <4>7
    <3> QED
      BY <3>1, <3>2
  <2> QED
    BY <1>1, <1>2, <2>1, <2>2
<1>9. LogOK'
  BY <1>1, <1>7 DEF LogOK, LoggedNameRight
<1> QED
  BY <1>4, <1>6, <1>8, <1>9 DEF HandshakeInv

(* request_read keeps it.                                                  *)
LEMMA RequestReadStep ==
  ASSUME HandshakeInv, NEW k \in 1 .. BufSize, request_read(k)
  PROVE  HandshakeInv'
<1>1. /\ state = "REQUEST_READ" /\ Recv(k) /\ recvd' = recvd + k /\ rb' = AfterRead(k, Parsed(k).n)
      /\ parser' = Parsed(k).p
      /\ UNCHANGED <<sent, out, users, is_auth_on, client_uname, authenticated, removed, logged>>
      /\ \/ state' = "ERROR" /\ UNCHANGED <<wb, served>>
         \/ state' = "REQUEST_WRITE" /\ Serve(Parsed(k).p, k, Parsed(k).n)
         \/ UNCHANGED <<state, wb, served>>
  BY DEF request_read, clientVars, userVars
<1>2. ParserOf("request", parser)
  BY <1>1 DEF HandshakeInv, ParserOK
<1>3. /\ BytesOK' /\ ParserOf("request", parser')
      /\ served' \in Seq([p : HelloParsers \cup AuthParsers \cup RequestParsers, upto : Int])
  <2>1. ReadKept("request")
    BY <1>1, <1>2, ReadKeeps
  <2> QED
    BY <2>1 DEF ReadKept
<1>4. ParserOK' /\ ServedOK'
  BY <1>1, <1>3 DEF ParserOK, ServedOK
<1>5. AccessOK'
  BY <1>1 DEF HandshakeInv, AccessOK
<1>6. EntryOK' /\ LogOK'
  BY <1>1 DEF HandshakeInv, EntryOK, LogOK, LoggedNameRight
<1> QED
  BY <1>3, <1>4, <1>5, <1>6 DEF HandshakeInv

(* After the method that was chosen, the switch as it is now decides: with *)
(* it on, only AUTH can follow.                                            *)
LEMMA HelloWriteStep ==
  ASSUME HandshakeInv, NEW k \in 1 .. 10, hello_write(k)
  PROVE  HandshakeInv'
<1>1. /\ state = "HELLO_WRITE"
      /\ UNCHANGED <<sent, out, recvd, rb, users, is_auth_on, client_uname, served, authenticated, removed,
                     logged>>
  BY DEF hello_write, clientVars, userVars, histVars
<1>2. \/ UNCHANGED <<state, parser>>
      \/ is_auth_on /\ state' = "AUTH_READ" /\ parser' = auth_parser_init
      \/ ~is_auth_on /\ state' = "REQUEST_READ" /\ parser' = request_parser_init
  BY DEF hello_write
<1>3. auth_parser_init \in AuthParsers /\ request_parser_init \in RequestParsers
  BY DEF auth_parser_init, request_parser_init, AuthParsers, RequestParsers
<1>4. BytesOK'
  BY <1>1 DEF HandshakeInv, BytesOK
<1>5. ParserOK'
  BY <1>1, <1>2, <1>3 DEF HandshakeInv, ParserOK, ParserOf
<1>6. ServedOK' /\ AccessOK'
  BY <1>1, <1>2 DEF HandshakeInv, ServedOK, AccessOK, RequestServed
<1>7. EntryOK' /\ LogOK'
  BY <1>1 DEF HandshakeInv, EntryOK, LogOK, LoggedNameRight
<1> QED
  BY <1>4, <1>5, <1>6, <1>7 DEF HandshakeInv

(* A status of 0, sent whole or in pieces, is the only way to REQUEST_READ *)
(* and was written for a user that was found.                              *)
LEMMA AuthWriteStep ==
  ASSUME HandshakeInv, NEW k \in 1 .. 10, auth_write(k)
  PROVE  HandshakeInv'
<1>1. /\ state = "AUTH_WRITE" /\ k \in 1 .. Len(wb) /\ wb' = SubSeq(wb, k + 1, Len(wb))
      /\ UNCHANGED <<sent, out, recvd, rb, users, is_auth_on, client_uname, served, authenticated, removed,
                     logged>>
  BY DEF auth_write, clientVars, userVars, histVars
<1>2. \/ wb' # <<>> /\ UNCHANGED <<state, parser>>
      \/ wb' = <<>> /\ Last(wb) = 0 /\ state' = "REQUEST_READ" /\ parser' = request_parser_init
      \/ state' = "ERROR" /\ UNCHANGED parser
  BY DEF auth_write
<1>3. wb \in Seq(Nat) /\ wb # <<>> /\ (wb[Len(wb)] = 0 => authenticated # {})
  BY <1>1 DEF HandshakeInv, AccessOK
<1>4. wb' \in Seq(Nat) /\ (wb' # <<>> => wb'[Len(wb')] = wb[Len(wb)])
  <2>1. k + 1 \in 1 .. Len(wb) + 1 /\ Len(wb) \in (k + 1) - 1 .. Len(wb)
    BY <1>1, <1>3
  <2>2. /\ wb' \in Seq(Nat)
        /\ Len(wb') = Len(wb) - (k + 1) + 1
        /\ \A i \in 1 .. Len(wb) - (k + 1) + 1 : wb'[i] = wb[(k + 1) + i - 1]
    BY <1>1, <1>3, <2>1, SubSeqProperties
  <2>3. Len(wb') = Len(wb) - k
    BY <1>1, <1>3, <2>2
  <2>4. ASSUME wb' # <<>> PROVE wb'[Len(wb')] = wb[Len(wb)]
    <3>1. Len(wb) - k \in 1 .. Len(wb) - (k + 1) + 1 /\ (k + 1) + (Len(wb) - k) - 1 = Len(wb)
      BY <1>1, <1>3, <2>2, <2>3, <2>4
    <3> QED
      BY <2>2, <2>3, <3>1
  <2> QED
    BY <2>2, <2>4
<1>5. Last(wb) = 0 => authenticated # {}
  BY <1>3 DEF Last
<1>6. request_parser_init \in RequestParsers
  BY DEF request_parser_init, RequestParsers
<1>7. BytesOK'
  BY <1>1 DEF HandshakeInv, BytesOK
<1>8. ParserOK'
  BY <1>1, <1>2, <1>6 DEF HandshakeInv, ParserOK, ParserOf
<1>9. ServedOK'
  BY <1>1, <1>2 DEF HandshakeInv, ServedOK, RequestServed
<1>10. AccessOK'
  BY <1>1, <1>2, <1>3, <1>4, <1>5 DEF HandshakeInv, AccessOK, RequestServed
<1>11. EntryOK' /\ LogOK'
  BY <1>1 DEF HandshakeInv, EntryOK, LogOK, LoggedNameRight
<1> QED
  BY <1>7, <1>8, <1>9, <1>10, <1>11 DEF HandshakeInv

(* log_request names who authenticated, if client_uname still points to    *)
(* its entry.                                                              *)
LEMMA RequestWriteStep ==
  ASSUME HandshakeInv, NEW k \in 1 .. 10, request_write(k)
  PROVE  HandshakeInv'
<1>1. /\ state = "REQUEST_WRITE"
      /\ UNCHANGED <<sent, out, recvd, rb, parser, users, is_auth_on, client_uname, served, authenticated,
                     removed>>
  BY DEF request_write, clientVars, userVars
<1>2. \/ UNCHANGED <<state, logged>>
      \/ state' \in {"COPY", "ERROR"} /\ logged' = log_request
  BY DEF request_write
<1>3. BytesOK' /\ ParserOK'
  BY <1>1, <1>2 DEF HandshakeInv, BytesOK, ParserOK
<1>4. ServedOK'
  BY <1>1, <1>2 DEF HandshakeInv, ServedOK, RequestServed
<1>5. AccessOK'
  BY <1>1, <1>2 DEF HandshakeInv, AccessOK, RequestServed
<1>6. EntryOK'
  BY <1>1 DEF HandshakeInv, EntryOK
<1>7. LogOK'
  <2>1. CASE UNCHANGED <<state, logged>>
    BY <1>1, <2>1 DEF HandshakeInv, LogOK, LoggedNameRight
  <2>2. CASE state' \in {"COPY", "ERROR"} /\ logged' = log_request
    <3>1. ASSUME ~is_auth_on PROVE logged' = Anonymous
      BY <2>2, <3>1 DEF log_request
    <3>2. ASSUME is_auth_on, ~removed
          PROVE  \E name \in authenticated : logged' = Shows("user", name)
      <4>1. client_uname # 0
        BY <1>1, <3>2 DEF HandshakeInv, AccessOK, EntryOK
      <4>2. authenticated = {users.slot[client_uname].uname}
        BY <3>2, <4>1 DEF HandshakeInv, EntryOK
      <4>3. logged' = Shows("user", users.slot[client_uname].uname)
        BY <2>2, <3>2, <4>1 DEF log_request
      <4> QED
        BY <4>2, <4>3
    <3> QED
      BY <1>1, <2>2, <3>1, <3>2 DEF LogOK, LoggedNameRight
  <2> QED
    BY <1>2, <2>1, <2>2
<1> QED
  BY <1>3, <1>4, <1>5, <1>6, <1>7 DEF HandshakeInv

(* A connection given up keeps what it has.                                *)
LEMMA FailStep ==
  ASSUME HandshakeInv, ReadFails \/ WriteFails
  PROVE  HandshakeInv'
<1>1. /\ state' = "ERROR"
      /\ UNCHANGED <<sent, out, recvd, rb, parser, users, is_auth_on, client_uname, served, authenticated,
                     removed, logged>>
  BY DEF ReadFails, WriteFails, clientVars, userVars, histVars
<1>2. BytesOK' /\ ParserOK' /\ ServedOK'
  BY <1>1 DEF HandshakeInv, BytesOK, ParserOK, ServedOK, RequestServed
<1>3. AccessOK' /\ EntryOK' /\ LogOK'
  BY <1>1 DEF HandshakeInv, AccessOK, EntryOK, LogOK, RequestServed, LoggedNameRight
<1> QED
  BY <1>2, <1>3 DEF HandshakeInv

(* Every step keeps the invariant.                                         *)
LEMMA HandshakeStep ==
  HandshakeInv /\ [Next]_vars => HandshakeInv'
<1> SUFFICES ASSUME HandshakeInv, [Next]_vars PROVE HandshakeInv'
  OBVIOUS
<1>1. CASE ClientSends \/ ClientSendsAll \/ ClientCloses
  BY <1>1, ClientStep
<1>2. CASE OtherHello
  BY <1>2, OtherHelloStep
<1>3. ASSUME NEW a \in Range(Accounts), AddUser(a) \/ DeleteUser(a) PROVE HandshakeInv'
  BY <1>3, AddUserStep, DeleteUserStep
<1>4. ASSUME NEW k \in 1 .. BufSize, hello_read(k) \/ auth_read(k) \/ request_read(k)
      PROVE  HandshakeInv'
  BY <1>4, HelloReadStep, AuthReadStep, RequestReadStep
<1>5. ASSUME NEW k \in 1 .. 10, hello_write(k) \/ auth_write(k) \/ request_write(k)
      PROVE  HandshakeInv'
  BY <1>5, HelloWriteStep, AuthWriteStep, RequestWriteStep
<1>6. CASE ReadFails \/ WriteFails
  BY <1>6, FailStep
<1>7. CASE UNCHANGED vars
  <2>1. UNCHANGED <<sent, out, state, recvd, rb, wb, parser, users, is_auth_on, client_uname, served,
                    authenticated, removed, logged>>
    BY <1>7 DEF vars, clientVars, userVars, histVars
  <2>2. BytesOK' /\ ParserOK' /\ ServedOK'
    BY <2>1 DEF HandshakeInv, BytesOK, ParserOK, ServedOK, RequestServed
  <2>3. AccessOK' /\ EntryOK' /\ LogOK'
    BY <2>1 DEF HandshakeInv, AccessOK, EntryOK, LogOK, RequestServed, LoggedNameRight
  <2> QED
    BY <2>2, <2>3 DEF HandshakeInv
<1> QED
  BY <1>1, <1>2, <1>3, <1>4, <1>5, <1>6, <1>7 DEF Next

(* The handshake keeps its inductive invariant: read_buffer holds only     *)
(* bytes that arrived, the union holds the parser of the state, nobody     *)
(* passes AUTH without a name while the switch is on, and client_uname     *)
(* points to that name until an entry at or before it is removed.          *)
THEOREM HandshakeInvariant == Spec => []HandshakeInv
BY HandshakeInit, HandshakeStep, PTL DEF Spec

(* While authentication is on, a request is parsed only for a client that  *)
(* authenticated, however hello_read, hello_write and auth_write           *)
(* interleave with the monitor and with other connections.                 *)
THEOREM HandshakeNeedsUser == Spec => []RequestNeedsUser
<1>1. HandshakeInv => RequestNeedsUser
  BY DEF HandshakeInv, AccessOK, RequestServed, RequestNeedsUser
<1> QED
  BY <1>1, HandshakeInvariant, PTL

(* log_request names the user that authenticated, or nobody while the      *)
(* switch is off, as long as no entry at or before its own was removed.    *)
THEOREM HandshakeLogsUser == Spec => []LoggedNameRight
<1>1. HandshakeInv => LoggedNameRight
  BY DEF HandshakeInv, LogOK
<1> QED
  BY <1>1, HandshakeInvariant, PTL

-----------------------------------------------------------------------------
(* The messages, byte by byte.                                             *)

Messages == Hellos \cup Auths \cup Requests

(* z is s followed by t.                                                   *)
Glued(s, t, z) ==
  /\ z \in Seq(Nat) /\ Len(z) = Len(s) + Len(t)
  /\ \A x \in 1 .. Len(s) : z[x] = s[x]
  /\ \A x \in 1 .. Len(t) : z[Len(s) + x] = t[x]

(* What two sequences put together are made of.                            *)
LEMMA Glue ==
  ASSUME NEW s \in Seq(Nat), NEW t \in Seq(Nat)
  PROVE  Glued(s, t, s \o t)
<1> DEFINE z == s \o t
<1>1. /\ z \in Seq(Nat) /\ Len(z) = Len(s) + Len(t) /\ Len(s) \in Nat /\ Len(t) \in Nat
      /\ \A i \in 1 .. Len(s) + Len(t) : z[i] = IF i <= Len(s) THEN s[i] ELSE t[i - Len(s)]
  BY ConcatProperties
<1> HIDE DEF z
<1>2. ASSUME NEW x \in 1 .. Len(t) PROVE z[Len(s) + x] = t[x]
  <2>1. Len(s) + x \in 1 .. Len(s) + Len(t) /\ ~(Len(s) + x <= Len(s)) /\ (Len(s) + x) - Len(s) = x
    BY <1>1
  <2> QED
    BY <1>1, <2>1
<1>3. ASSUME NEW x \in 1 .. Len(s) PROVE z[x] = s[x]
  <2>1. x \in 1 .. Len(s) + Len(t) /\ x <= Len(s)
    BY <1>1
  <2> QED
    BY <1>1, <2>1
<1>4. Glued(s, t, z)
  BY <1>1, <1>2, <1>3 DEF Glued
<1> QED
  BY <1>4 DEF z

(* What a hello message is made of.                                        *)
LEMMA HelloLayout ==
  ASSUME NEW m \in Hellos
  PROVE  /\ m.kind = "hello" /\ m.ver \in Nat /\ m.methods \in Seq(Nat)
         /\ MessageBytes(m) \in Seq(Nat) /\ Len(MessageBytes(m)) = 2 + Len(m.methods)
         /\ MessageBytes(m)[1] = m.ver /\ MessageBytes(m)[2] = Len(m.methods)
         /\ \A x \in 1 .. Len(m.methods) : MessageBytes(m)[2 + x] = m.methods[x]
<1>1. m \in [kind : {"hello"}, ver : Nat, methods : Seq(Nat)]
  BY HandshakeAssumption DEF HandshakeAssumption
<1> DEFINE f == m.methods
           v == m.ver
<1>2. m.kind = "hello" /\ v \in Nat /\ f \in Seq(Nat)
  BY <1>1
<1>3. MessageBytes(m) = <<v, Len(f)>> \o f
  BY <1>2 DEF MessageBytes, HelloBytes
<1> HIDE DEF f, v
<1>4. /\ <<v, Len(f)>> \o f \in Seq(Nat) /\ Len(<<v, Len(f)>> \o f) = 2 + Len(f)
      /\ (<<v, Len(f)>> \o f)[1] = v /\ (<<v, Len(f)>> \o f)[2] = Len(f)
      /\ \A x \in 1 .. Len(f) : (<<v, Len(f)>> \o f)[2 + x] = f[x]
  BY <1>2
<1> QED
  BY <1>2, <1>3, <1>4 DEF f, v

(* What an auth message is made of.                                        *)
LEMMA AuthLayout ==
  ASSUME NEW m \in Auths
  PROVE  /\ m.kind = "auth" /\ m.uname \in Seq(Nat) /\ m.passwd \in Seq(Nat)
         /\ MessageBytes(m) \in Seq(Nat)
         /\ Len(MessageBytes(m)) = 3 + Len(m.uname) + Len(m.passwd)
         /\ MessageBytes(m)[1] = VERSION_AUTH /\ MessageBytes(m)[2] = Len(m.uname)
         /\ \A x \in 1 .. Len(m.uname) : MessageBytes(m)[2 + x] = m.uname[x]
         /\ MessageBytes(m)[3 + Len(m.uname)] = Len(m.passwd)
         /\ \A x \in 1 .. Len(m.passwd) : MessageBytes(m)[3 + Len(m.uname) + x] = m.passwd[x]
<1>1. m \in [kind : {"auth"}, uname : Seq(Nat), passwd : Seq(Nat)]
  BY HandshakeAssumption DEF HandshakeAssumption
<1> DEFINE u == m.uname
           w == m.passwd
           head == <<VERSION_AUTH, Len(u)>>
           left == head \o u
           part == left \o <<Len(w)>>
           all == part \o w
<1>2. m.kind = "auth" /\ u \in Seq(Nat) /\ w \in Seq(Nat)
  BY <1>1
<1>3. MessageBytes(m) = all
  BY <1>2 DEF MessageBytes, AuthBytes
<1> HIDE DEF u, w
<1>4. /\ head \in Seq(Nat) /\ Len(head) = 2 /\ head[1] = VERSION_AUTH /\ head[2] = Len(u)
      /\ Len(u) \in Nat /\ Len(w) \in Nat
  BY <1>2 DEF VERSION_AUTH
<1> HIDE DEF head
<1>5. /\ left \in Seq(Nat) /\ Len(left) = 2 + Len(u)
      /\ \A x \in 1 .. 2 : left[x] = head[x]
      /\ \A x \in 1 .. Len(u) : left[2 + x] = u[x]
  <2>1. Glued(head, u, left)
    BY <1>2, <1>4, Glue
  <2> HIDE DEF left
  <2> QED
    BY <1>4, <2>1 DEF Glued
<1> HIDE DEF left
<1>6. /\ part \in Seq(Nat) /\ Len(part) = 3 + Len(u) /\ part[3 + Len(u)] = Len(w)
      /\ \A x \in 1 .. 2 + Len(u) : part[x] = left[x]
  BY <1>4, <1>5
<1> HIDE DEF part
<1>7. /\ all \in Seq(Nat) /\ Len(all) = 3 + Len(u) + Len(w)
      /\ \A x \in 1 .. 3 + Len(u) : all[x] = part[x]
      /\ \A x \in 1 .. Len(w) : all[3 + Len(u) + x] = w[x]
  <2>1. Glued(part, w, all)
    BY <1>2, <1>6, Glue
  <2> HIDE DEF all
  <2> QED
    BY <1>4, <1>6, <2>1 DEF Glued
<1> HIDE DEF all
<1>8. all[1] = VERSION_AUTH /\ all[2] = Len(u) /\ all[3 + Len(u)] = Len(w)
  <2>1. \A x \in 1 .. 2 : x \in 1 .. 2 + Len(u) /\ x \in 1 .. 3 + Len(u)
    BY <1>4
  <2>2. 3 + Len(u) \in 1 .. 3 + Len(u)
    BY <1>4
  <2>3. all[3 + Len(u)] = Len(w)
    BY <1>6, <1>7, <2>2
  <2>4. \A x \in 1 .. 2 : all[x] = head[x]
    BY <1>5, <1>6, <1>7, <2>1
  <2> QED
    BY <1>4, <2>3, <2>4
<1>9. ASSUME NEW x \in 1 .. Len(u) PROVE all[2 + x] = u[x]
  <2>1. 2 + x \in 1 .. 2 + Len(u) /\ 2 + x \in 1 .. 3 + Len(u)
    BY <1>4
  <2> QED
    BY <1>5, <1>6, <1>7, <2>1
<1> QED
  BY <1>2, <1>3, <1>7, <1>8, <1>9 DEF u, w

(* Where the address of a request begins.                                  *)
AddrAt(m) == IF m.atyp = socks_req_addrtype_domain THEN 5 ELSE 4

(* What a request is made of.                                              *)
LEMMA RequestLayout ==
  ASSUME NEW m \in Requests
  PROVE  /\ m.kind = "request" /\ m.cmd \in Nat /\ m.atyp \in Nat
         /\ m.addr \in Seq(Nat) /\ m.port \in Seq(Nat) /\ Len(m.port) = 2
         /\ m.atyp = socks_req_addrtype_ipv4 => Len(m.addr) = Ipv4Len
         /\ m.atyp = socks_req_addrtype_ipv6 => Len(m.addr) = Ipv6Len
         /\ MessageBytes(m) \in Seq(Nat)
         /\ Len(MessageBytes(m)) = AddrAt(m) + Len(m.addr) + 2
         /\ MessageBytes(m)[1] = VERSION_SOCKS /\ MessageBytes(m)[2] = m.cmd
         /\ MessageBytes(m)[4] = m.atyp
         /\ m.atyp = socks_req_addrtype_domain => MessageBytes(m)[5] = Len(m.addr)
         /\ \A x \in 1 .. Len(m.addr) : MessageBytes(m)[AddrAt(m) + x] = m.addr[x]
         /\ \A x \in 1 .. 2 : MessageBytes(m)[AddrAt(m) + Len(m.addr) + x] = m.port[x]
<1>1. /\ m \in [kind : {"request"}, cmd : Nat, atyp : Nat, addr : Seq(Nat), port : Seq(Nat)]
      /\ m.atyp = socks_req_addrtype_ipv4 => Len(m.addr) = Ipv4Len
      /\ m.atyp = socks_req_addrtype_ipv6 => Len(m.addr) = Ipv6Len
      /\ Len(m.port) = 2
  BY HandshakeAssumption DEF HandshakeAssumption
<1> DEFINE c == m.cmd
           t == m.atyp
           a == m.addr
           w == m.port
           D == t = socks_req_addrtype_domain
           at == IF D THEN 5 ELSE 4
           four == <<VERSION_SOCKS, c, 0, t>>
           len == IF D THEN <<Len(a)>> ELSE <<>>
           head == four \o len
           part == head \o a
           all == part \o w
<1>2. m.kind = "request" /\ c \in Nat /\ t \in Nat /\ a \in Seq(Nat) /\ w \in Seq(Nat) /\ Len(w) = 2
  BY <1>1
<1>3. MessageBytes(m) = all /\ AddrAt(m) = at
  BY <1>2 DEF MessageBytes, RequestBytes, AddrAt
<1> HIDE DEF c, t, a, w
<1>4. /\ four \in Seq(Nat) /\ Len(four) = 4 /\ four[1] = VERSION_SOCKS /\ four[2] = c /\ four[4] = t
      /\ Len(a) \in Nat
  BY <1>2 DEF VERSION_SOCKS
<1>5. len \in Seq(Nat) /\ Len(len) = at - 4 /\ (D => len[1] = Len(a)) /\ at \in Nat
  BY <1>4
<1> HIDE DEF four, len, D
<1>6. at \in {4, 5} /\ (D => at = 5)
  OBVIOUS
<1> HIDE DEF at
<1>7. /\ head \in Seq(Nat) /\ Len(head) = at
      /\ \A x \in 1 .. 4 : head[x] = four[x]
      /\ \A x \in 1 .. at - 4 : head[4 + x] = len[x]
  <2>1. Len(len) \in Nat /\ 4 + Len(len) = at
    BY <1>5, <1>6
  <2> QED
    <3>1. Glued(four, len, head)
      BY <1>4, <1>5, Glue
    <3> HIDE DEF head
    <3> QED
      BY <1>4, <1>5, <2>1, <3>1 DEF Glued
<1> HIDE DEF head
<1>8. /\ part \in Seq(Nat) /\ Len(part) = at + Len(a)
      /\ \A x \in 1 .. at : part[x] = head[x]
      /\ \A x \in 1 .. Len(a) : part[at + x] = a[x]
  <2>1. Glued(head, a, part)
    BY <1>2, <1>7, Glue
  <2> HIDE DEF part
  <2> QED
    BY <1>4, <1>5, <1>7, <2>1 DEF Glued
<1> HIDE DEF part
<1>9. /\ all \in Seq(Nat) /\ Len(all) = at + Len(a) + 2
      /\ \A x \in 1 .. at + Len(a) : all[x] = part[x]
      /\ \A x \in 1 .. 2 : all[at + Len(a) + x] = w[x]
  <2>1. Glued(part, w, all)
    BY <1>2, <1>8, Glue
  <2> HIDE DEF all
  <2> QED
    BY <1>2, <1>4, <1>5, <1>8, <2>1 DEF Glued
<1> HIDE DEF all
<1>10. all[1] = VERSION_SOCKS /\ all[2] = c /\ all[4] = t
  <2>1. \A x \in 1 .. 4 : x \in 1 .. at /\ x \in 1 .. at + Len(a)
    BY <1>4, <1>6
  <2> QED
    BY <1>4, <1>7, <1>8, <1>9, <2>1
<1>11. ASSUME D PROVE all[5] = Len(a)
  <2>1. at = 5
    BY <1>6, <1>11
  <2>2. head[5] = len[1]
    BY <1>7, <2>1
  <2>3. all[5] = head[5]
    BY <1>4, <1>8, <1>9, <2>1
  <2> QED
    BY <1>5, <1>11, <2>2, <2>3
<1>12. ASSUME NEW x \in 1 .. Len(a) PROVE all[at + x] = a[x]
  <2>1. at + x \in 1 .. at + Len(a)
    BY <1>4, <1>6
  <2> QED
    BY <1>8, <1>9, <2>1
<1> QED
  BY <1>1, <1>2, <1>3, <1>9, <1>10, <1>11, <1>12 DEF c, t, a, w, D

-----------------------------------------------------------------------------
(* What a parser has found in the first bytes of a message.                *)

(* s is the beginning of t.                                                *)
Begins(s, t) == Len(s) <= Len(t) /\ \A x \in 1 .. Len(s) : s[x] = t[x]

(* p is what the first i bytes of the hello message m say.                 *)
HelloIs(m, p, i) ==
  /\ p \in HelloParsers
  /\ p.method \in Range(m.methods) \cup {SOCKS_HELLO_NO_ACCEPTABLE_METHODS}
  /\ p.state = "version" => i = 0
  /\ p.state = "nmethods" => i = 1
  /\ p.state = "methods" => p.remaining \in 1 .. Len(m.methods) /\ i = 2 + Len(m.methods) - p.remaining
  /\ p.state = "done" => i = Len(MessageBytes(m))
  /\ p.state = "error" => ~WellFormed(m)

(* ... of the auth message m.                                              *)
AuthIs(m, p, i) ==
  /\ p \in AuthParsers
  /\ p.state # "error"
  /\ p.state = "version" => i = 0 /\ p.uname = <<>> /\ p.passwd = <<>>
  /\ p.state = "ulen" => i = 1 /\ p.uname = <<>> /\ p.passwd = <<>>
  /\ p.state = "uname" =>
       /\ p.len = Len(m.uname) /\ Len(p.uname) < p.len /\ Begins(p.uname, m.uname)
       /\ i = 2 + Len(p.uname) /\ p.passwd = <<>>
  /\ p.state = "plen" => i = 2 + Len(m.uname) /\ p.uname = m.uname /\ p.passwd = <<>>
  /\ p.state = "passwd" =>
       /\ p.len = Len(m.passwd) /\ Len(p.passwd) < p.len /\ Begins(p.passwd, m.passwd)
       /\ i = 3 + Len(m.uname) + Len(p.passwd) /\ p.uname = m.uname
  /\ p.state = "done" => i = Len(MessageBytes(m)) /\ p.uname = m.uname /\ p.passwd = m.passwd

(* ... of the request m.                                                   *)
RequestIs(m, p, i) ==
  /\ p \in RequestParsers
  /\ p.state = "version" => i = 0 /\ p.addr = <<>> /\ p.port = <<>>
  /\ p.state = "cmd" => i = 1 /\ p.addr = <<>> /\ p.port = <<>>
  /\ p.state = "rsv" => i = 2 /\ p.addr = <<>> /\ p.port = <<>> /\ p.cmd = m.cmd
  /\ p.state = "atyp" => i = 3 /\ p.addr = <<>> /\ p.port = <<>> /\ p.cmd = m.cmd
  /\ p.state = "dstaddr_fqdn" =>
       /\ i = 4 /\ p.addr = <<>> /\ p.port = <<>> /\ p.cmd = m.cmd /\ p.atyp = m.atyp
       /\ m.atyp = socks_req_addrtype_domain
  /\ p.state = "dstaddr" =>
       /\ p.n = Len(m.addr) /\ Len(p.addr) < p.n /\ Begins(p.addr, m.addr)
       /\ i = AddrAt(m) + Len(p.addr) /\ p.port = <<>> /\ p.cmd = m.cmd /\ p.atyp = m.atyp
  /\ p.state = "dstport" =>
       /\ Len(p.port) < 2 /\ Begins(p.port, m.port) /\ p.addr = m.addr
       /\ i = AddrAt(m) + Len(m.addr) + Len(p.port) /\ p.cmd = m.cmd /\ p.atyp = m.atyp
  /\ p.state = "done" =>
       /\ i = Len(MessageBytes(m)) /\ p.cmd = m.cmd /\ p.atyp = m.atyp /\ p.addr = m.addr
       /\ p.port = m.port
  /\ p.state = "error" => ~WellFormed(m)

(* p is what the first i bytes of m say.                                   *)
ParserIs(m, p, i) ==
  \/ m.kind = "hello" /\ HelloIs(m, p, i)
  \/ m.kind = "auth" /\ AuthIs(m, p, i)
  \/ m.kind = "request" /\ RequestIs(m, p, i)

(* Another byte of a field of which some are stored.                       *)
LEMMA BeginsMore ==
  ASSUME NEW s \in Seq(Nat), NEW t \in Seq(Nat), Begins(s, t), Len(s) < Len(t),
         NEW b \in Nat, b = t[Len(s) + 1]
  PROVE  /\ Append(s, b) \in Seq(Nat) /\ Len(Append(s, b)) = Len(s) + 1
         /\ Begins(Append(s, b), t)
         /\ Len(s) + 1 >= Len(t) => Append(s, b) = t
<1> DEFINE z == Append(s, b)
           j == Len(s)
           l == Len(t)
<1>1. /\ z \in Seq(Nat) /\ Len(z) = j + 1 /\ z[j + 1] = b /\ \A x \in 1 .. j : z[x] = s[x]
      /\ j \in Nat /\ l \in Nat
  OBVIOUS
<1> HIDE DEF z
<1>2. j < l /\ b = t[j + 1] /\ \A x \in 1 .. j : s[x] = t[x]
  BY DEF Begins
<1> HIDE DEF j, l
<1>3. \A x \in 1 .. j + 1 : z[x] = t[x]
  <2>1. \A x \in 1 .. j + 1 : x \in 1 .. j \/ x = j + 1
    BY <1>1
  <2> QED
    BY <1>1, <1>2, <2>1
<1>4. Begins(z, t)
  BY <1>1, <1>2, <1>3 DEF Begins, l
<1>5. ASSUME j + 1 >= l PROVE z = t
  <2>1. l = j + 1
    BY <1>1, <1>2, <1>5
  <2> QED
    BY <1>1, <1>3, <2>1, SeqEqual DEF l
<1> QED
  BY <1>1, <1>4, <1>5 DEF z, j, l

(* The next byte of a hello message.                                       *)
LEMMA HelloFed ==
  ASSUME NEW m \in Hellos, NEW p, NEW i \in Nat, HelloIs(m, p, i), ~IsDone(p),
         NEW b, b = MessageBytes(m)[i + 1], NEW a, NEW q, q = hello_parser_feed(p, b, a)
  PROVE  i + 1 <= Len(MessageBytes(m)) /\ HelloIs(m, q, i + 1)
<1> DEFINE L == Len(m.methods)
           B == MessageBytes(m)
           R == Range(m.methods) \cup {SOCKS_HELLO_NO_ACCEPTABLE_METHODS}
           rem == p.remaining
<1>1. /\ m.kind = "hello" /\ m.ver \in Nat /\ m.methods \in Seq(Nat) /\ L \in Nat /\ B \in Seq(Nat)
      /\ Len(B) = 2 + L /\ B[1] = m.ver /\ B[2] = L
      /\ \A x \in 1 .. L : B[2 + x] = m.methods[x]
  BY HelloLayout
<1>2. /\ p \in HelloParsers /\ p.method \in R /\ p.state \in {"version", "nmethods", "methods"}
      /\ p.state = "version" => i = 0
      /\ p.state = "nmethods" => i = 1
      /\ p.state = "methods" => rem \in 1 .. L /\ i = 2 + L - rem
      /\ rem \in Int
  BY DEF HelloIs, HelloParsers, IsDone
<1> HIDE DEF B, L, R, rem
<1>3. i + 1 <= Len(B)
  BY <1>1, <1>2
<1>4. b \in Nat /\ b = B[i + 1]
  BY <1>1, <1>3 DEF B
<1>5. q \in HelloParsers
  BY <1>2, <1>4, HelloFeeds
<1>6. CASE p.state = "version"
  <2>1. q = [p EXCEPT !.state = IF b = VERSION_SOCKS THEN "nmethods" ELSE "error"]
    BY <1>6 DEF hello_parser_feed
  <2>2. q.method = p.method /\ q.state = IF b = VERSION_SOCKS THEN "nmethods" ELSE "error"
    BY <1>2, <2>1 DEF HelloParsers
  <2>3. b # VERSION_SOCKS => ~WellFormed(m)
    BY <1>1, <1>2, <1>4, <1>6 DEF WellFormed
  <2> QED
    BY <1>2, <1>3, <1>5, <1>6, <2>2, <2>3 DEF HelloIs, R, B
<1>7. CASE p.state = "nmethods"
  <2>1. q = [p EXCEPT !.remaining = b, !.state = IF b = 0 THEN "done" ELSE "methods"]
    BY <1>7 DEF hello_parser_feed
  <2>2. /\ q.method = p.method /\ q.remaining = b
        /\ q.state = IF b = 0 THEN "done" ELSE "methods"
    BY <1>2, <2>1 DEF HelloParsers
  <2>3. b = L /\ i + 1 = 2
    BY <1>1, <1>2, <1>4, <1>7
  <2>4. q.state = "done" => i + 1 = Len(B)
    BY <1>1, <2>2, <2>3
  <2>5. q.state = "methods" => q.remaining \in 1 .. L /\ i + 1 = 2 + L - q.remaining
    BY <1>1, <2>2, <2>3
  <2>6. q.state \in {"done", "methods"}
    BY <2>2
  <2> QED
    BY <1>2, <1>3, <1>5, <2>2, <2>4, <2>5, <2>6 DEF HelloIs, R, B, L
<1>8. CASE p.state = "methods"
  <2> DEFINE g == on_hello_method(p, b, a)
             st == IF rem = 1 THEN "done" ELSE g.state
             left == g.remaining - 1
  <2>1. q = [g EXCEPT !.remaining = left, !.state = st]
    BY <1>8 DEF hello_parser_feed, rem
  <2>2. g = p \/ g = [p EXCEPT !.method = b]
    BY DEF on_hello_method
  <2>3. b \in Range(m.methods)
    <3> DEFINE x == L - rem + 1
    <3>1. x \in 1 .. L /\ i + 1 = 2 + x
      BY <1>1, <1>2, <1>8
    <3>2. b = m.methods[x]
      BY <1>1, <1>4, <3>1
    <3> HIDE DEF x
    <3>3. x \in DOMAIN m.methods
      BY <1>1, <3>1 DEF L
    <3> QED
      BY <3>2, <3>3 DEF Range
  <2> HIDE DEF g
  <2>4. g \in HelloParsers /\ g.state = "methods" /\ g.remaining = rem /\ g.method \in R
    BY <1>2, <1>4, <1>8, <2>2, <2>3 DEF HelloParsers, R, rem
  <2>5. left = rem - 1 /\ st = IF rem = 1 THEN "done" ELSE "methods"
    BY <2>4
  <2> HIDE DEF left, st
  <2>6. q.method = g.method /\ q.remaining = left /\ q.state = st
    BY <2>1, <2>4 DEF HelloParsers
  <2>7. ASSUME q.state = "done" PROVE i + 1 = Len(B)
    <3>1. rem = 1
      BY <2>5, <2>6, <2>7
    <3> QED
      BY <1>1, <1>2, <1>8, <3>1
  <2>8. ASSUME q.state = "methods" PROVE left \in 1 .. L /\ i + 1 = 2 + L - left
    <3>1. rem # 1
      BY <2>5, <2>6, <2>8
    <3> QED
      BY <1>1, <1>2, <1>8, <2>5, <3>1
  <2>9. q.state \in {"done", "methods"}
    BY <2>5, <2>6
  <2> QED
    BY <1>3, <1>5, <2>4, <2>6, <2>7, <2>8, <2>9 DEF HelloIs, R, B, L
<1> QED
  BY <1>2, <1>6, <1>7, <1>8

(* The next byte of an auth message.                                       *)
LEMMA AuthFed ==
  ASSUME NEW m \in Auths, NoEmptyField(m), NEW p, NEW i \in Nat, AuthIs(m, p, i), ~IsDone(p),
         NEW b, b = MessageBytes(m)[i + 1], NEW q, q = auth_parser_feed(p, b)
  PROVE  i + 1 <= Len(MessageBytes(m)) /\ AuthIs(m, q, i + 1)
<1> DEFINE u == m.uname
           w == m.passwd
           U == Len(u)
           W == Len(w)
           B == MessageBytes(m)
           pu == p.uname
           pw == p.passwd
           J == Len(pu)
           K == Len(pw)
<1>1. /\ m.kind = "auth" /\ u \in Seq(Nat) /\ w \in Seq(Nat) /\ B \in Seq(Nat)
      /\ Len(B) = 3 + U + W /\ B[1] = VERSION_AUTH /\ B[2] = U
      /\ \A x \in 1 .. U : B[2 + x] = u[x]
      /\ B[3 + U] = W
      /\ \A x \in 1 .. W : B[3 + U + x] = w[x]
  BY AuthLayout, Zenon
<1>2. U \in Nat /\ W \in Nat /\ U > 0 /\ W > 0
  <2>1. u \in Seq(Nat) /\ u # <<>> /\ w \in Seq(Nat) /\ w # <<>>
    BY <1>1 DEF NoEmptyField
  <2> HIDE DEF u, w
  <2> QED
    BY ONLY <2>1 DEF U, W
<1>3. /\ p \in AuthParsers /\ p.state \in {"version", "ulen", "uname", "plen", "passwd"}
      /\ pu \in Seq(Nat) /\ pw \in Seq(Nat) /\ p.len \in Nat /\ J \in Nat /\ K \in Nat
      /\ p.state = "version" => i = 0 /\ pu = <<>> /\ pw = <<>>
      /\ p.state = "ulen" => i = 1 /\ pu = <<>> /\ pw = <<>>
      /\ p.state = "uname" => p.len = U /\ J < U /\ Begins(pu, u) /\ i = 2 + J /\ pw = <<>>
      /\ p.state = "plen" => i = 2 + U /\ pu = u /\ pw = <<>>
      /\ p.state = "passwd" => p.len = W /\ K < W /\ Begins(pw, w) /\ i = 3 + U + K /\ pu = u
  BY DEF AuthIs, AuthParsers, IsDone
<1> HIDE DEF B, U, W, pu, pw, J, K
<1>4. i + 1 <= Len(B)
  <2>1. i = 0 \/ i = 1 \/ (i = 2 + J /\ J < U) \/ i = 2 + U \/ (i = 3 + U + K /\ K < W)
    BY <1>3
  <2>2. J \in Nat /\ K \in Nat /\ Len(B) = 3 + U + W
    BY <1>1, <1>3
  <2> QED
    BY ONLY <1>2, <2>1, <2>2
<1>5. b \in Nat /\ b = B[i + 1]
  <2>1. b = B[i + 1] /\ i + 1 \in 1 .. Len(B)
    BY <1>4 DEF B
  <2>2. B \in Seq(Nat)
    BY <1>1
  <2> QED
    BY ONLY <2>1, <2>2
<1>6. q \in AuthParsers
  BY <1>3, <1>5, AuthFeeds
<1>7. CASE p.state = "version"
  <2>1. b = VERSION_AUTH
    BY <1>1, <1>2, <1>3, <1>5, <1>7
  <2>2. q = [p EXCEPT !.state = "ulen"]
    BY <1>7, <2>1 DEF auth_parser_feed, pu, pw, J, K
  <2>3. q.uname = pu /\ q.passwd = pw /\ q.state = "ulen"
    BY <1>3, <2>2 DEF AuthParsers, pu, pw
  <2> QED
    BY <1>3, <1>4, <1>6, <1>7, <2>3 DEF AuthIs, B
<1>8. CASE p.state = "ulen"
  <2>1. b = U
    BY <1>1, <1>2, <1>3, <1>5, <1>8
  <2>2. q = [p EXCEPT !.len = b, !.state = "uname"]
    BY <1>8 DEF auth_parser_feed, pu, pw, J, K
  <2>3. q.uname = <<>> /\ q.passwd = <<>> /\ q.state = "uname" /\ q.len = U
    BY <1>3, <1>8, <2>1, <2>2 DEF AuthParsers, pu, pw
  <2>4. Len(q.uname) = 0 /\ Begins(q.uname, u)
    BY <1>1, <1>2, <2>3 DEF Begins, U
  <2>5. i + 1 = 2 + Len(q.uname) /\ Len(q.uname) < q.len
    BY <1>2, <1>3, <1>8, <2>3, <2>4
  <2> QED
    BY <1>4, <1>6, <2>3, <2>4, <2>5 DEF AuthIs, B, U
<1>9. CASE p.state = "uname"
  <2> DEFINE field == Append(pu, b)
             st == IF J + 1 >= p.len THEN "plen" ELSE p.state
  <2>1. q = [p EXCEPT !.uname = field, !.state = st]
    BY <1>9 DEF auth_parser_feed, pu, pw, J, K
  <2>2. b = u[J + 1]
    <3>1. J + 1 \in 1 .. U /\ i + 1 = 2 + (J + 1)
      BY <1>1, <1>2, <1>3, <1>9
    <3> QED
      BY <1>1, <1>2, <1>5, <3>1
  <2>3. field \in Seq(Nat) /\ Len(field) = J + 1 /\ Begins(field, u)
        /\ (J + 1 >= U => field = u)
    <3>1. u \in Seq(Nat) /\ pu \in Seq(Nat) /\ Begins(pu, u) /\ J < U
      BY <1>1, <1>3, <1>9
    <3> QED
      BY ONLY <1>5, <2>2, <3>1, BeginsMore DEF U, J
  <2>4. st \in {"uname", "plen"} /\ (st = "plen" <=> J + 1 >= U)
    BY <1>3, <1>9
  <2> HIDE DEF field, st
  <2>5. q.uname = field /\ q.state = st /\ q.passwd = <<>> /\ q.len = U
    BY <1>3, <1>9, <2>1 DEF AuthParsers, pu, pw
  <2>6. CASE st = "plen"
    <3>1. field = u /\ i + 1 = 2 + U
      BY <1>1, <1>2, <1>3, <1>9, <2>3, <2>4, <2>6 DEF U
    <3> QED
      BY <1>4, <1>6, <2>5, <2>6, <3>1 DEF AuthIs, B, U
  <2>7. CASE st = "uname"
    <3>1. Len(field) < U /\ i + 1 = 2 + Len(field)
      BY <1>1, <1>2, <1>3, <1>9, <2>3, <2>4, <2>7
    <3> QED
      BY <1>4, <1>6, <2>3, <2>5, <2>7, <3>1 DEF AuthIs, B, U
  <2> QED
    BY <2>4, <2>6, <2>7
<1>10. CASE p.state = "plen"
  <2>1. b = W
    <3>1. i + 1 = 3 + U
      BY <1>1, <1>2, <1>3, <1>10
    <3> QED
      BY <1>1, <1>2, <1>5, <3>1
  <2>2. q = [p EXCEPT !.len = b, !.state = "passwd"]
    BY <1>10 DEF auth_parser_feed, pu, pw, J, K
  <2>3. q.uname = u /\ q.passwd = <<>> /\ q.state = "passwd" /\ q.len = W
    BY <1>3, <1>10, <2>1, <2>2 DEF AuthParsers, pu, pw
  <2>4. Len(q.passwd) = 0 /\ Begins(q.passwd, w)
    BY <1>1, <1>2, <2>3 DEF Begins, W
  <2>5. i + 1 = 3 + U + Len(q.passwd) /\ Len(q.passwd) < q.len
    BY <1>1, <1>2, <1>3, <1>10, <2>3, <2>4
  <2> QED
    BY <1>4, <1>6, <2>3, <2>4, <2>5 DEF AuthIs, B, U, W
<1>11. CASE p.state = "passwd"
  <2> DEFINE field == Append(pw, b)
             st == IF K + 1 >= p.len THEN "done" ELSE p.state
  <2>1. q = [p EXCEPT !.passwd = field, !.state = st]
    BY <1>11 DEF auth_parser_feed, pu, pw, J, K
  <2>2. b = w[K + 1]
    <3>1. K + 1 \in 1 .. W /\ i + 1 = 3 + U + (K + 1)
      BY <1>1, <1>2, <1>3, <1>11
    <3> QED
      BY <1>1, <1>2, <1>5, <3>1
  <2>3. field \in Seq(Nat) /\ Len(field) = K + 1 /\ Begins(field, w)
        /\ (K + 1 >= W => field = w)
    <3>1. w \in Seq(Nat) /\ pw \in Seq(Nat) /\ Begins(pw, w) /\ K < W
      BY <1>1, <1>3, <1>11
    <3> QED
      BY ONLY <1>5, <2>2, <3>1, BeginsMore DEF W, K
  <2>4. st \in {"passwd", "done"} /\ (st = "done" <=> K + 1 >= W)
    BY <1>3, <1>11
  <2> HIDE DEF field, st
  <2>5. q.passwd = field /\ q.state = st /\ q.uname = u /\ q.len = W
    BY <1>3, <1>11, <2>1 DEF AuthParsers, pu, pw
  <2>6. CASE st = "done"
    <3>1. K \in Nat /\ K < W /\ K + 1 >= W /\ i = 3 + U + K
      BY <1>3, <1>11, <2>4, <2>6
    <3>2. i + 1 = Len(B)
      BY ONLY <1>1, <1>2, <3>1
    <3>3. field = w
      BY <2>3, <3>1
    <3> QED
      BY <1>4, <1>6, <2>5, <2>6, <3>2, <3>3 DEF AuthIs, B
  <2>7. CASE st = "passwd"
    <3>1. K \in Nat /\ K < W /\ ~(K + 1 >= W) /\ i = 3 + U + K
      BY <1>3, <1>11, <2>4, <2>7
    <3>2. Len(field) < W /\ i + 1 = 3 + U + Len(field)
      BY ONLY <1>2, <2>3, <3>1
    <3> QED
      BY <1>4, <1>6, <2>3, <2>5, <2>7, <3>2 DEF AuthIs, B, U, W
  <2> QED
    BY <2>4, <2>6, <2>7
<1> QED
  BY <1>3, <1>7, <1>8, <1>9, <1>10, <1>11

(* The next byte of a request.                                             *)
LEMMA RequestFed ==
  ASSUME NEW m \in Requests, NoEmptyField(m), NEW p, NEW i \in Nat, RequestIs(m, p, i), ~IsDone(p),
         NEW b, b = MessageBytes(m)[i + 1], NEW q, q = request_parser_feed(p, b)
  PROVE  i + 1 <= Len(MessageBytes(m)) /\ RequestIs(m, q, i + 1)
<1> DEFINE u == m.addr
           w == m.port
           c == m.cmd
           t == m.atyp
           U == Len(u)
           O == AddrAt(m)
           B == MessageBytes(m)
           pu == p.addr
           pw == p.port
           J == Len(pu)
           K == Len(pw)
<1>1. /\ m.kind = "request" /\ c \in Nat /\ t \in Nat /\ u \in Seq(Nat) /\ w \in Seq(Nat)
      /\ B \in Seq(Nat) /\ Len(B) = O + U + 2 /\ Len(w) = 2
      /\ t = socks_req_addrtype_ipv4 => U = Ipv4Len
      /\ t = socks_req_addrtype_ipv6 => U = Ipv6Len
      /\ B[1] = VERSION_SOCKS /\ B[2] = c /\ B[4] = t
      /\ t = socks_req_addrtype_domain => B[5] = U
      /\ \A x \in 1 .. U : B[O + x] = u[x]
      /\ \A x \in 1 .. 2 : B[O + U + x] = w[x]
  BY RequestLayout, Zenon
<1>2. /\ U \in Nat /\ U > 0 /\ Len(w) = 2 /\ O \in {4, 5} /\ O \in Nat
      /\ O = IF t = socks_req_addrtype_domain THEN 5 ELSE 4
  <2>1. U \in Nat /\ U > 0
    <3>1. m.kind = "request" /\ u \in Seq(Nat)
      BY <1>1
    <3>2. u # <<>>
      BY ONLY NoEmptyField(m), <3>1 DEF NoEmptyField
    <3> QED
      BY ONLY <3>1, <3>2
  <2>2. O = IF t = socks_req_addrtype_domain THEN 5 ELSE 4
    BY DEF AddrAt
  <2> QED
    BY <1>1, <2>1, <2>2
<1>3. /\ p \in RequestParsers
      /\ p.state \in {"version", "cmd", "rsv", "atyp", "dstaddr_fqdn", "dstaddr", "dstport"}
      /\ pu \in Seq(Nat) /\ pw \in Seq(Nat) /\ J \in Nat /\ K \in Nat
      /\ p.state = "version" => i = 0 /\ pu = <<>> /\ pw = <<>>
      /\ p.state = "cmd" => i = 1 /\ pu = <<>> /\ pw = <<>>
      /\ p.state = "rsv" => i = 2 /\ pu = <<>> /\ pw = <<>> /\ p.cmd = c
      /\ p.state = "atyp" => i = 3 /\ pu = <<>> /\ pw = <<>> /\ p.cmd = c
      /\ p.state = "dstaddr_fqdn" =>
           /\ i = 4 /\ pu = <<>> /\ pw = <<>> /\ p.cmd = c /\ p.atyp = t
           /\ t = socks_req_addrtype_domain
      /\ p.state = "dstaddr" =>
           /\ p.n = U /\ J < U /\ Begins(pu, u) /\ i = O + J /\ pw = <<>> /\ p.cmd = c /\ p.atyp = t
      /\ p.state = "dstport" =>
           /\ K < 2 /\ Begins(pw, w) /\ pu = u /\ i = O + U + K /\ p.cmd = c /\ p.atyp = t
  BY DEF RequestIs, RequestParsers, IsDone
<1> HIDE DEF B, U, O, c, t, pu, pw, J, K
<1>4. i + 1 <= Len(B)
  <2>1. i \in {0, 1, 2, 3, 4} \/ (i = O + J /\ J < U) \/ (i = O + U + K /\ K < 2)
    BY <1>3
  <2>2. J \in Nat /\ K \in Nat /\ Len(B) = O + U + 2
    BY <1>1, <1>3
  <2> QED
    BY ONLY <1>2, <2>1, <2>2
<1>5. b \in Nat /\ b = B[i + 1]
  <2>1. b = B[i + 1] /\ i + 1 \in 1 .. Len(B)
    BY <1>4 DEF B
  <2>2. B \in Seq(Nat)
    BY <1>1
  <2> QED
    BY ONLY <2>1, <2>2
<1>6. q \in RequestParsers
  BY <1>3, <1>5, RequestFeeds
<1>7. CASE p.state = "version"
  <2>1. b = VERSION_SOCKS
    BY <1>1, <1>3, <1>5, <1>7
  <2>2. q = [p EXCEPT !.state = "cmd"]
    BY <1>7, <2>1 DEF request_parser_feed
  <2>3. q.addr = pu /\ q.port = pw /\ q.state = "cmd"
    BY <1>3, <2>2 DEF RequestParsers, pu, pw
  <2> QED
    BY <1>3, <1>4, <1>6, <1>7, <2>3 DEF RequestIs, B
<1>8. CASE p.state = "cmd"
  <2>1. b = c
    BY <1>1, <1>3, <1>5, <1>8
  <2>2. q = [p EXCEPT !.cmd = b, !.state = "rsv"]
    BY <1>8 DEF request_parser_feed
  <2>3. q.addr = pu /\ q.port = pw /\ q.state = "rsv" /\ q.cmd = c
    BY <1>3, <2>1, <2>2 DEF RequestParsers, pu, pw
  <2> QED
    BY <1>3, <1>4, <1>6, <1>8, <2>3 DEF RequestIs, B, c
<1>9. CASE p.state = "rsv"
  <2>1. q = [p EXCEPT !.state = "atyp"]
    BY <1>9 DEF request_parser_feed
  <2>2. q.addr = pu /\ q.port = pw /\ q.state = "atyp" /\ q.cmd = c
    BY <1>3, <1>9, <2>1 DEF RequestParsers, pu, pw
  <2> QED
    BY <1>3, <1>4, <1>6, <1>9, <2>2 DEF RequestIs, B, c
<1>10. CASE p.state = "atyp"
  <2> DEFINE g == [p EXCEPT !.atyp = b]
  <2>1. b = t /\ i + 1 = 4
    BY <1>1, <1>3, <1>5, <1>10
  <2>2. q = atyp(p, b)
    BY <1>10 DEF request_parser_feed
  <2>3. /\ b = socks_req_addrtype_ipv4 => q = [g EXCEPT !.n = Ipv4Len, !.state = "dstaddr"]
        /\ b = socks_req_addrtype_ipv6 => q = [g EXCEPT !.n = Ipv6Len, !.state = "dstaddr"]
        /\ b = socks_req_addrtype_domain => q = [g EXCEPT !.state = "dstaddr_fqdn"]
        /\ b \notin {socks_req_addrtype_ipv4, socks_req_addrtype_ipv6, socks_req_addrtype_domain} =>
             q = [g EXCEPT !.state = "error"]
    BY <2>2 DEF atyp, socks_req_addrtype_ipv4, socks_req_addrtype_ipv6, socks_req_addrtype_domain
  <2>4. g \in RequestParsers /\ g.addr = <<>> /\ g.port = <<>> /\ g.cmd = c /\ g.atyp = t
    BY <1>3, <1>5, <1>10, <2>1 DEF RequestParsers, pu, pw
  <2> HIDE DEF g
  <2>5. CASE b \in {socks_req_addrtype_ipv4, socks_req_addrtype_ipv6}
    <3>1. /\ q.addr = <<>> /\ q.port = <<>> /\ q.cmd = c /\ q.atyp = t /\ q.state = "dstaddr"
          /\ q.n = U
      BY <1>1, <2>1, <2>3, <2>4, <2>5 DEF RequestParsers
    <3>2. O = 4
      BY <1>2, <2>1, <2>5 DEF socks_req_addrtype_ipv4, socks_req_addrtype_ipv6,
                              socks_req_addrtype_domain
    <3>3. Len(q.addr) = 0 /\ Begins(q.addr, u)
      BY <1>1, <1>2, <3>1 DEF Begins, U
    <3>4. Len(q.addr) < q.n /\ i + 1 = O + Len(q.addr)
      <4>1. q.n = U
        BY <3>1
      <4> QED
        BY ONLY <1>2, <2>1, <3>2, <3>3, <4>1
    <3> QED
      BY <1>4, <1>6, <3>1, <3>3, <3>4 DEF RequestIs, B, U, O, c, t
  <2>6. CASE b = socks_req_addrtype_domain
    <3>1. /\ q.addr = <<>> /\ q.port = <<>> /\ q.cmd = c /\ q.atyp = t /\ q.state = "dstaddr_fqdn"
      BY <2>3, <2>4, <2>6 DEF RequestParsers
    <3> QED
      BY <1>4, <1>6, <2>1, <2>6, <3>1 DEF RequestIs, B, c, t
  <2>7. CASE b \notin {socks_req_addrtype_ipv4, socks_req_addrtype_ipv6, socks_req_addrtype_domain}
    <3>1. q.state = "error"
      BY <2>3, <2>4, <2>7 DEF RequestParsers
    <3>2. ~WellFormed(m)
      BY <1>1, <2>1, <2>7 DEF WellFormed, t
    <3> QED
      BY <1>4, <1>6, <3>1, <3>2 DEF RequestIs, B
  <2> QED
    BY <2>5, <2>6, <2>7
<1>11. CASE p.state = "dstaddr_fqdn"
  <2>1. b = U /\ O = 5 /\ i + 1 = 5
    BY <1>1, <1>2, <1>3, <1>5, <1>11
  <2>2. q = [p EXCEPT !.n = b, !.state = "dstaddr"]
    BY <1>11 DEF request_parser_feed
  <2>3. /\ q.addr = <<>> /\ q.port = <<>> /\ q.cmd = c /\ q.atyp = t /\ q.state = "dstaddr"
        /\ q.n = U
    BY <1>3, <1>11, <2>1, <2>2 DEF RequestParsers, pu, pw
  <2>4. Len(q.addr) = 0 /\ Begins(q.addr, u)
    BY <1>1, <1>2, <2>3 DEF Begins, U
  <2>5. Len(q.addr) < q.n /\ i + 1 = O + Len(q.addr)
    <3>1. q.n = U
      BY <2>3
    <3> QED
      BY ONLY <1>2, <2>1, <2>4, <3>1
  <2> QED
    BY <1>4, <1>6, <2>3, <2>4, <2>5 DEF RequestIs, B, U, O, c, t
<1>12. CASE p.state = "dstaddr"
  <2> DEFINE field == Append(pu, b)
             st == IF J + 1 >= p.n THEN "dstport" ELSE p.state
  <2>1. q = [p EXCEPT !.addr = field, !.state = st]
    BY <1>12 DEF request_parser_feed, pu, J
  <2>2. J \in Nat /\ J < U /\ i = O + J /\ Begins(pu, u) /\ pu \in Seq(Nat)
    BY <1>3, <1>12
  <2>3. b = u[J + 1]
    <3>1. J + 1 \in 1 .. U /\ i + 1 = O + (J + 1)
      BY ONLY <1>2, <2>2
    <3>2. \A x \in 1 .. U : B[O + x] = u[x]
      BY <1>1
    <3>3. B[O + (J + 1)] = u[J + 1]
      BY ONLY <3>1, <3>2
    <3> QED
      BY <1>5, <3>1, <3>3
  <2>4. field \in Seq(Nat) /\ Len(field) = J + 1 /\ Begins(field, u) /\ (J + 1 >= U => field = u)
    BY ONLY <1>1, <1>5, <2>2, <2>3, BeginsMore DEF U, J
  <2>5. st \in {"dstaddr", "dstport"} /\ (st = "dstport" <=> J + 1 >= U)
    BY <1>3, <1>12
  <2> HIDE DEF field, st
  <2>6. /\ q.addr = field /\ q.state = st /\ q.port = <<>> /\ q.n = U /\ q.cmd = c /\ q.atyp = t
    BY <1>3, <1>12, <2>1 DEF RequestParsers, pw
  <2>7. CASE st = "dstport"
    <3>1. i + 1 = O + U
      BY ONLY <1>2, <2>2, <2>5, <2>7
    <3>2. Len(q.port) = 0 /\ Begins(q.port, w)
      BY <1>1, <1>2, <2>6 DEF Begins
    <3>3. Len(q.port) < 2 /\ i + 1 = O + U + Len(q.port)
      BY <1>2, <3>1, <3>2
    <3>4. q.addr = u
      BY <2>4, <2>5, <2>6, <2>7
    <3> QED
      BY <1>4, <1>6, <2>6, <2>7, <3>2, <3>3, <3>4 DEF RequestIs, B, U, O, c, t
  <2>8. CASE st = "dstaddr"
    <3>1. Len(field) < U /\ i + 1 = O + Len(field)
      BY ONLY <1>2, <2>2, <2>4, <2>5, <2>8
    <3> QED
      BY <1>4, <1>6, <2>4, <2>6, <2>8, <3>1 DEF RequestIs, B, U, O, c, t
  <2> QED
    BY <2>5, <2>7, <2>8
<1>13. CASE p.state = "dstport"
  <2> DEFINE field == Append(pw, b)
             st == IF K + 1 >= 2 THEN "done" ELSE p.state
  <2>1. q = [p EXCEPT !.port = field, !.state = st]
    BY <1>13 DEF request_parser_feed, pw, K
  <2>2. K \in Nat /\ K < 2 /\ i = O + U + K /\ Begins(pw, w) /\ pw \in Seq(Nat)
    BY <1>3, <1>13
  <2>3. b = w[K + 1]
    <3>1. K + 1 \in 1 .. 2 /\ i + 1 = O + U + (K + 1)
      BY ONLY <1>2, <2>2
    <3>2. \A x \in 1 .. 2 : B[O + U + x] = w[x]
      BY <1>1
    <3>3. b = B[i + 1]
      BY <1>5
    <3> QED
      BY ONLY <3>1, <3>2, <3>3
  <2>4. field \in Seq(Nat) /\ Len(field) = K + 1 /\ Begins(field, w) /\ (K + 1 >= 2 => field = w)
    <3>1. w \in Seq(Nat) /\ K < Len(w)
      BY <1>1, <1>2, <2>2
    <3> QED
      BY ONLY <1>2, <1>5, <2>2, <2>3, <3>1, BeginsMore DEF K
  <2>5. st \in {"dstport", "done"} /\ (st = "done" <=> K + 1 >= 2)
    BY <1>13
  <2> HIDE DEF field, st
  <2>6. q.port = field /\ q.state = st /\ q.addr = u /\ q.cmd = c /\ q.atyp = t
    BY <1>3, <1>13, <2>1 DEF RequestParsers, pu
  <2>7. CASE st = "done"
    <3>1. i + 1 = O + U + 2
      BY ONLY <1>2, <2>2, <2>5, <2>7
    <3>2. field = w
      BY <2>4, <2>5, <2>7
    <3> QED
      BY <1>1, <1>4, <1>6, <2>6, <2>7, <3>1, <3>2 DEF RequestIs, B, c, t
  <2>8. CASE st = "dstport"
    <3>1. Len(field) < 2 /\ i + 1 = O + U + Len(field)
      BY ONLY <1>2, <2>2, <2>4, <2>5, <2>8
    <3> QED
      BY <1>4, <1>6, <2>4, <2>6, <2>8, <3>1 DEF RequestIs, B, U, O, c, t
  <2> QED
    BY <2>5, <2>7, <2>8
<1> QED
  BY <1>3, <1>7, <1>8, <1>9, <1>10, <1>11, <1>12, <1>13

(* The kind of a message is that of its set.                               *)
LEMMA KindOf ==
  ASSUME NEW m \in Messages
  PROVE  /\ m.kind = "hello" => m \in Hellos
         /\ m.kind = "auth" => m \in Auths
         /\ m.kind = "request" => m \in Requests
         /\ m.kind \in {"hello", "auth", "request"}
         /\ MessageBytes(m) \in Seq(Nat) /\ Len(MessageBytes(m)) \in Nat /\ Len(MessageBytes(m)) > 0
<1>1. CASE m \in Hellos
  <2>1. m.kind = "hello" /\ MessageBytes(m) \in Seq(Nat) /\ Len(MessageBytes(m)) = 2 + Len(m.methods)
        /\ Len(m.methods) \in Nat
    BY <1>1, HelloLayout
  <2> QED
    BY <1>1, <2>1
<1>2. CASE m \in Auths
  <2>1. m.kind = "auth" /\ m.uname \in Seq(Nat) /\ m.passwd \in Seq(Nat) /\ MessageBytes(m) \in Seq(Nat)
        /\ Len(MessageBytes(m)) = 3 + Len(m.uname) + Len(m.passwd)
    BY <1>2, AuthLayout, Zenon
  <2>2. Len(m.uname) \in Nat /\ Len(m.passwd) \in Nat
    BY <2>1
  <2> DEFINE x == Len(m.uname)
             y == Len(m.passwd)
             z == Len(MessageBytes(m))
  <2>3. z \in Nat /\ z > 0
    <3>1. z = 3 + x + y /\ x \in Nat /\ y \in Nat
      BY <2>1, <2>2
    <3> HIDE DEF x, y, z
    <3> QED
      BY ONLY <3>1
  <2> QED
    BY <1>2, <2>1, <2>3
<1>3. CASE m \in Requests
  <2>1. m.kind = "request" /\ m.addr \in Seq(Nat) /\ MessageBytes(m) \in Seq(Nat)
        /\ Len(MessageBytes(m)) = AddrAt(m) + Len(m.addr) + 2
    BY <1>3, RequestLayout, Zenon
  <2>2. Len(m.addr) \in Nat /\ AddrAt(m) \in Nat
    BY <2>1 DEF AddrAt
  <2> QED
    BY <1>3, <2>1, <2>2
<1> QED
  BY <1>1, <1>2, <1>3 DEF Messages

(* The next byte of a message.                                             *)
LEMMA MessageFed ==
  ASSUME NEW m \in Messages, NoEmptyField(m), NEW p, NEW i \in Nat, ParserIs(m, p, i), ~IsDone(p),
         NEW b, b = MessageBytes(m)[i + 1], NEW a
  PROVE  i + 1 <= Len(MessageBytes(m)) /\ ParserIs(m, Feed(p, b, a), i + 1)
<1>1. CASE m.kind = "hello" /\ HelloIs(m, p, i)
  <2>1. p.kind = "hello" /\ m \in Hellos
    BY <1>1, KindOf DEF HelloIs, HelloParsers
  <2>2. Feed(p, b, a) = hello_parser_feed(p, b, a)
    BY <2>1 DEF Feed
  <2>3. i + 1 <= Len(MessageBytes(m)) /\ HelloIs(m, Feed(p, b, a), i + 1)
    BY <1>1, <2>1, <2>2, HelloFed
  <2> QED
    BY <1>1, <2>3 DEF ParserIs
<1>2. CASE m.kind = "auth" /\ AuthIs(m, p, i)
  <2>1. p.kind = "auth" /\ m \in Auths
    BY <1>2, KindOf DEF AuthIs, AuthParsers
  <2>2. Feed(p, b, a) = auth_parser_feed(p, b)
    BY <2>1 DEF Feed
  <2>3. i + 1 <= Len(MessageBytes(m)) /\ AuthIs(m, Feed(p, b, a), i + 1)
    BY <1>2, <2>1, <2>2, AuthFed
  <2> QED
    BY <1>2, <2>3 DEF ParserIs
<1>3. CASE m.kind = "request" /\ RequestIs(m, p, i)
  <2>1. p.kind = "request" /\ m \in Requests
    BY <1>3, KindOf DEF RequestIs, RequestParsers
  <2>2. Feed(p, b, a) = request_parser_feed(p, b)
    BY <2>1 DEF Feed
  <2>3. i + 1 <= Len(MessageBytes(m)) /\ RequestIs(m, Feed(p, b, a), i + 1)
    BY <1>3, <2>1, <2>2, RequestFed
  <2> QED
    BY <1>3, <2>3 DEF ParserIs
<1> QED
  BY <1>1, <1>2, <1>3 DEF ParserIs

(* The loop of the consume functions, unfolded.                            *)
LEMMA ConsumeRuns ==
  ASSUME NEW p, NEW bytes \in Seq(Nat), NEW a
  PROVE  \E run : Runs(p, bytes, a, Len(bytes), run) /\ Consume(p, bytes, a) = run[Len(bytes)]
<1> DEFINE L == Len(bytes)
           run == CHOOSE f : f = [k \in 0 .. L |-> Fed(p, bytes, a, f, k)]
<1>0. L \in Nat
  OBVIOUS
<1>1. PICK f : Runs(p, bytes, a, L, f)
  BY <1>0, RunExists
<1>2. f = [k \in 0 .. L |-> Fed(p, bytes, a, f, k)]
  BY <1>1 DEF Runs
<1>3. run = [k \in 0 .. L |-> Fed(p, bytes, a, run, k)]
  BY <1>2
<1>4. Consume(p, bytes, a) = run[L]
  BY DEF Consume, Fed
<1> HIDE DEF run
<1>5. Runs(p, bytes, a, L, run)
  BY <1>3 DEF Runs
<1> QED
  BY <1>4, <1>5

(* A parser that is not done takes at least a byte, and all of them unless *)
(* it is done then.                                                        *)
LEMMA ConsumeTakes ==
  ASSUME NEW p, ~IsDone(p), NEW bytes \in Seq(Nat), bytes # <<>>, NEW a
  PROVE  /\ Consume(p, bytes, a).n \in 1 .. Len(bytes)
         /\ ~IsDone(Consume(p, bytes, a).p) => Consume(p, bytes, a).n = Len(bytes)
<1> DEFINE L == Len(bytes)
<1>1. PICK run : Runs(p, bytes, a, L, run) /\ Consume(p, bytes, a) = run[L]
  BY ConsumeRuns
<1>2. L \in Nat /\ L > 0 /\ \A k \in 0 .. L : run[k] = Fed(p, bytes, a, run, k)
  <2>1. L \in Nat /\ L > 0
    OBVIOUS
  <2>2. run = [k \in 0 .. L |-> Fed(p, bytes, a, run, k)]
    BY <1>1 DEF Runs
  <2>3. ASSUME NEW k \in 0 .. L PROVE run[k] = Fed(p, bytes, a, run, k)
    BY <2>2, Zenon
  <2> QED
    BY <2>1, <2>3
<1> DEFINE Good(k) == /\ run[k].n \in 0 .. k /\ (k > 0 => run[k].n > 0)
                      /\ (~IsDone(run[k].p) => run[k].n = k)
                      /\ (k = 0 => run[k].p = p)
           bad == {k \in 0 .. L : ~Good(k)}
<1>3. bad = {}
  <2>1. SUFFICES ASSUME bad # {} PROVE FALSE
    OBVIOUS
  <2>2. PICK m \in bad : \A y \in bad : m <= y
    <3>1. bad \in SUBSET Nat
      BY <1>2
    <3> HIDE DEF bad
    <3> QED
      BY <2>1, <3>1, SmallestExists
  <2>3. m \in 0 .. L /\ run[m] = Fed(p, bytes, a, run, m)
    BY <1>2
  <2>4. CASE m = 0
    <3>1. run[m] = [p |-> p, n |-> 0]
      BY <2>3, <2>4 DEF Fed
    <3> QED
      BY <2>2, <2>4, <3>1
  <2>5. CASE m # 0
    <3>1. m - 1 \in 0 .. L /\ m - 1 \notin bad /\ m - 1 \in Nat
      BY <1>2, <2>2, <2>3, <2>5
    <3>2. Good(m - 1)
      BY <3>1
    <3>3. CASE IsDone(run[m - 1].p)
      <4>1. run[m] = run[m - 1]
        BY <2>3, <2>5, <3>3 DEF Fed
      <4>2. m - 1 # 0
        BY <3>2, <3>3
      <4> QED
        BY <1>2, <2>2, <2>3, <3>1, <3>2, <3>3, <4>1, <4>2
    <3>4. CASE ~IsDone(run[m - 1].p)
      <4>1. run[m] = [p |-> Feed(run[m - 1].p, bytes[m], a), n |-> m]
        BY <2>3, <2>5, <3>4 DEF Fed
      <4>2. run[m].n = m
        BY <4>1
      <4> QED
        BY <1>2, <2>2, <2>3, <2>5, <4>2
    <3> QED
      BY <3>3, <3>4
  <2> QED
    BY <2>4, <2>5
<1>4. Good(L)
  BY <1>2, <1>3
<1> QED
  BY <1>1, <1>2, <1>4

(* Bytes that continue message m are parsed as what m says.                *)
LEMMA ConsumeIs ==
  ASSUME NEW m \in Messages, NoEmptyField(m), NEW p, NEW i \in Nat, ParserIs(m, p, i), ~IsDone(p),
         NEW bytes \in Seq(Nat), NEW a,
         \A x \in 1 .. Len(bytes) : i + x <= Len(MessageBytes(m)) => bytes[x] = MessageBytes(m)[i + x]
  PROVE  ParserIs(m, Consume(p, bytes, a).p, i + Consume(p, bytes, a).n)
<1> DEFINE L == Len(bytes)
           B == MessageBytes(m)
<1>1. PICK run : Runs(p, bytes, a, L, run) /\ Consume(p, bytes, a) = run[L]
  BY ConsumeRuns
<1>2. L \in Nat /\ \A k \in 0 .. L : run[k] = Fed(p, bytes, a, run, k)
  <2>1. run = [k \in 0 .. L |-> Fed(p, bytes, a, run, k)]
    BY <1>1 DEF Runs
  <2>2. ASSUME NEW k \in 0 .. L PROVE run[k] = Fed(p, bytes, a, run, k)
    BY <2>1, Zenon
  <2> QED
    BY <2>2
<1> DEFINE Good(k) == /\ run[k].n \in 0 .. k /\ ParserIs(m, run[k].p, i + run[k].n)
                      /\ (~IsDone(run[k].p) => run[k].n = k)
           bad == {k \in 0 .. L : ~Good(k)}
<1>3. bad = {}
  <2>1. SUFFICES ASSUME bad # {} PROVE FALSE
    OBVIOUS
  <2>2. PICK k \in bad : \A y \in bad : k <= y
    <3>1. bad \in SUBSET Nat
      BY <1>2
    <3> HIDE DEF bad
    <3> QED
      BY <2>1, <3>1, SmallestExists
  <2>3. k \in 0 .. L /\ run[k] = Fed(p, bytes, a, run, k) /\ ~Good(k)
    BY <1>2
  <2>4. CASE k = 0
    <3>1. run[k] = [p |-> p, n |-> 0]
      BY <2>3, <2>4 DEF Fed
    <3>2. run[k].p = p /\ run[k].n = 0 /\ i + 0 = i
      BY <3>1
    <3> QED
      BY <2>3, <2>4, <3>2
  <2>5. CASE k # 0
    <3>1. k - 1 \in 0 .. L /\ k - 1 \notin bad /\ k - 1 \in Nat /\ k \in Nat
      BY <1>2, <2>2, <2>3, <2>5
    <3>2. Good(k - 1)
      BY <3>1
    <3>3. CASE IsDone(run[k - 1].p)
      <4>1. run[k] = run[k - 1]
        BY <2>3, <2>5, <3>3 DEF Fed
      <4>2. run[k].n \in 0 .. k
        BY <3>1, <3>2, <4>1
      <4> QED
        BY <2>3, <3>2, <3>3, <4>1, <4>2
    <3>4. CASE ~IsDone(run[k - 1].p)
      <4> DEFINE g == run[k - 1].p
                 d == Feed(g, bytes[k], a)
                 j == i + (k - 1)
      <4>1. run[k] = [p |-> d, n |-> k]
        BY <2>3, <2>5, <3>4 DEF Fed
      <4>2. ParserIs(m, g, j) /\ j \in Nat /\ j + 1 = i + k
        BY <3>1, <3>2, <3>4
      <4> HIDE DEF j
      <4>3. j + 1 <= Len(B)
        BY <3>4, <4>2, MessageFed
      <4>4. bytes[k] = B[j + 1]
        <5>1. k \in 1 .. Len(bytes) /\ i + k <= Len(MessageBytes(m))
          BY <1>2, <2>3, <2>5, <3>1, <4>2, <4>3
        <5> QED
          BY <4>2, <5>1
      <4>5. ParserIs(m, d, j + 1)
        BY <3>4, <4>2, <4>4, MessageFed
      <4> HIDE DEF d
      <4>6. run[k].p = d /\ run[k].n = k
        BY <4>1
      <4> QED
        <5>1. ParserIs(m, run[k].p, i + run[k].n)
          BY <4>2, <4>5, <4>6
        <5>2. run[k].n \in 0 .. k
          BY <3>1, <4>6
        <5> QED
          BY <2>3, <4>6, <5>1, <5>2
    <3> QED
      BY <3>3, <3>4
  <2> QED
    BY <2>4, <2>5
<1>4. Good(L)
  BY <1>2, <1>3
<1> QED
  BY <1>1, <1>4

-----------------------------------------------------------------------------
(* Where the messages lie in what the client sent.                         *)

(* The sizes of the messages of s summed up to j, by f.                    *)
EndAt(s, f, j) == IF j = 0 THEN 0 ELSE f[j - 1] + Len(MessageBytes(s[j]))

Sums(s, k, f) == f = [j \in 0 .. k |-> EndAt(s, f, j)]

(* EndOf for the messages s.                                               *)
Ends(s, k) == LET e[j \in 0 .. k] == IF j = 0 THEN 0 ELSE e[j - 1] + Len(MessageBytes(s[j]))
              IN  e[k]

(* The recursive function of EndOf exists.                                 *)
LEMMA SumsExist ==
  ASSUME NEW s, NEW k \in Nat
  PROVE  \E f : Sums(s, k, f)
<1> DEFINE Sum(m, f) == f = [j \in 0 .. m |-> EndAt(s, f, j)]
           bad == {m \in Nat : ~\E f : Sum(m, f)}
<1>1. SUFFICES ASSUME k \in bad PROVE FALSE
  BY DEF Sums
<1>2. PICK m \in bad : \A y \in bad : m <= y
  <2>1. bad \in SUBSET Nat /\ bad # {}
    BY <1>1
  <2> HIDE DEF bad
  <2> QED
    BY <2>1, SmallestExists
<1>3. m # 0
  <2>1. SUFFICES ASSUME m = 0 PROVE \E f : Sum(0, f)
    OBVIOUS
  <2> DEFINE g == [j \in 0 .. 0 |-> 0]
  <2>2. \A j \in 0 .. 0 : EndAt(s, g, j) = 0
    BY DEF EndAt
  <2>3. Sum(0, g)
    BY <2>2
  <2> QED
    BY <2>3
<1>4. m - 1 \in Nat /\ m - 1 \notin bad
  BY <1>2, <1>3
<1>5. PICK g : Sum(m - 1, g)
  BY <1>4
<1> DEFINE h == [j \in 0 .. m |-> IF j < m THEN g[j] ELSE EndAt(s, g, m)]
<1>6. ASSUME NEW j \in 0 .. m PROVE h[j] = EndAt(s, h, j)
  <2>1. j > 0 => h[j - 1] = g[j - 1]
    OBVIOUS
  <2>2. EndAt(s, h, j) = EndAt(s, g, j)
    <3> HIDE DEF h
    <3> QED
      BY <2>1 DEF EndAt
  <2>3. CASE j < m
    <3>1. j \in 0 .. m - 1
      BY <1>4, <2>3
    <3>2. g[j] = EndAt(s, g, j)
      BY <1>5, <3>1
    <3> QED
      BY <2>2, <2>3, <3>2
  <2>4. CASE j = m
    BY <2>2, <2>4
  <2> QED
    BY <2>3, <2>4
<1>7. Sum(m, h)
  <2>1. h = [j \in 0 .. m |-> h[j]]
    OBVIOUS
  <2> HIDE DEF h
  <2> QED
    BY <1>6, <2>1
<1> QED
  BY <1>7

(* Ends is the last of such sums.                                          *)
LEMMA EndsSums ==
  ASSUME NEW s, NEW k \in Nat
  PROVE  \E f : Sums(s, k, f) /\ Ends(s, k) = f[k]
<1> DEFINE e == CHOOSE f : f = [j \in 0 .. k |-> EndAt(s, f, j)]
<1>1. PICK f : f = [j \in 0 .. k |-> EndAt(s, f, j)]
  BY SumsExist DEF Sums
<1>2. e = [j \in 0 .. k |-> EndAt(s, e, j)]
  BY <1>1
<1>3. Ends(s, k) = e[k]
  BY DEF Ends, EndAt
<1> HIDE DEF e
<1> QED
  BY <1>2, <1>3 DEF Sums

Agree(s, t, m) == \A j \in 1 .. m : s[j] = t[j]

(* Two sums over messages that are the same so far agree.                  *)
LEMMA SumsAgree ==
  ASSUME NEW s, NEW t, NEW k \in Nat, NEW l \in Nat, NEW f, Sums(s, k, f), NEW g, Sums(t, l, g),
         NEW m \in Nat, m <= k, m <= l, Agree(s, t, m)
  PROVE  f[m] = g[m]
<1> DEFINE bad == {j \in 0 .. m : f[j] # g[j]}
<1>1. SUFFICES ASSUME bad # {} PROVE FALSE
  OBVIOUS
<1>2. PICK j \in bad : \A y \in bad : j <= y
  <2>1. bad \in SUBSET Nat
    OBVIOUS
  <2> HIDE DEF bad
  <2> QED
    BY <1>1, <2>1, SmallestExists
<1>3. j \in 0 .. k /\ j \in 0 .. l
  OBVIOUS
<1>4. f[j] = EndAt(s, f, j)
  BY <1>3 DEF Sums
<1>5. g[j] = EndAt(t, g, j)
  BY <1>3 DEF Sums
<1>6. CASE j = 0
  BY <1>2, <1>4, <1>5, <1>6 DEF EndAt
<1>7. CASE j # 0
  <2>1. j - 1 \in 0 .. m /\ ~(j <= j - 1) /\ j \in 1 .. m
    BY <1>2, <1>7
  <2>2. f[j - 1] = g[j - 1]
    BY <1>2, <2>1
  <2>3. s[j] = t[j]
    BY <2>1 DEF Agree
  <2> QED
    BY <1>2, <1>4, <1>5, <1>7, <2>2, <2>3 DEF EndAt
<1> QED
  BY <1>6, <1>7

(* A message ends its length after the one before it.                      *)
LEMMA EndsStep ==
  ASSUME NEW s, NEW k \in Nat
  PROVE  Ends(s, 0) = 0 /\ Ends(s, k + 1) = Ends(s, k) + Len(MessageBytes(s[k + 1]))
<1>1. PICK z : Sums(s, 0, z) /\ Ends(s, 0) = z[0]
  BY EndsSums
<1>2. PICK f : Sums(s, k, f) /\ Ends(s, k) = f[k]
  BY EndsSums
<1>3. k + 1 \in Nat
  OBVIOUS
<1>4. PICK g : Sums(s, k + 1, g) /\ Ends(s, k + 1) = g[k + 1]
  BY <1>3, EndsSums
<1>5. z[0] = 0
  BY <1>1 DEF Sums, EndAt
<1>6. f[k] = g[k]
  <2>1. Agree(s, s, k) /\ k <= k /\ k <= k + 1
    BY DEF Agree
  <2> QED
    BY <1>2, <1>3, <1>4, <2>1, SumsAgree
<1>7. g[k + 1] = EndAt(s, g, k + 1)
  BY <1>4 DEF Sums
<1>8. EndAt(s, g, k + 1) = g[k] + Len(MessageBytes(s[k + 1]))
  BY DEF EndAt
<1> QED
  BY <1>1, <1>2, <1>4, <1>5, <1>6, <1>7, <1>8

(* It does not matter what comes after.                                    *)
LEMMA EndsSame ==
  ASSUME NEW s, NEW t, NEW k \in Nat, \A j \in 1 .. k : s[j] = t[j]
  PROVE  Ends(s, k) = Ends(t, k)
<1>1. PICK f : Sums(s, k, f) /\ Ends(s, k) = f[k]
  BY EndsSums
<1>2. PICK g : Sums(t, k, g) /\ Ends(t, k) = g[k]
  BY EndsSums
<1>3. k <= k /\ Agree(s, t, k)
  BY DEF Agree
<1>4. f[k] = g[k]
  BY <1>1, <1>2, <1>3, SumsAgree
<1> QED
  BY <1>1, <1>2, <1>4

(* Where messages end is a number, and grows.                              *)
LEMMA EndsNat ==
  ASSUME NEW s \in Seq(Messages), NEW k \in 0 .. Len(s)
  PROVE  Ends(s, k) \in Nat
<1> DEFINE bad == {j \in 0 .. Len(s) : Ends(s, j) \notin Nat}
<1>1. SUFFICES ASSUME bad # {} PROVE FALSE
  OBVIOUS
<1>2. PICK j \in bad : \A y \in bad : j <= y
  <2>1. bad \in SUBSET Nat
    OBVIOUS
  <2> HIDE DEF bad
  <2> QED
    BY <1>1, <2>1, SmallestExists
<1>3. CASE j = 0
  BY <1>2, <1>3, EndsStep
<1>4. CASE j # 0
  <2> DEFINE i == j - 1
  <2>1. i \in 0 .. Len(s) /\ i \in Nat /\ ~(j <= i) /\ j = i + 1 /\ i + 1 \in 1 .. Len(s)
    BY <1>2, <1>4
  <2>2. Ends(s, i) \in Nat
    BY <1>2, <2>1
  <2>3. Len(MessageBytes(s[i + 1])) \in Nat
    BY <2>1, KindOf
  <2> HIDE DEF i
  <2>4. Ends(s, i + 1) = Ends(s, i) + Len(MessageBytes(s[i + 1]))
    BY <2>1, EndsStep
  <2> QED
    BY <1>2, <2>1, <2>2, <2>3, <2>4
<1> QED
  BY <1>3, <1>4

(* No message ends after the last.                                         *)
LEMMA EndsGrow ==
  ASSUME NEW s \in Seq(Messages), NEW k \in 0 .. Len(s)
  PROVE  Ends(s, k) <= Ends(s, Len(s))
<1> DEFINE n == Len(s)
           bad == {d \in 0 .. n : ~(Ends(s, n - d) <= Ends(s, n))}
<1>1. n \in Nat /\ \A j \in 0 .. n : Ends(s, j) \in Nat
  BY EndsNat
<1>2. bad = {}
  <2>1. SUFFICES ASSUME bad # {} PROVE FALSE
    OBVIOUS
  <2>2. PICK d \in bad : \A y \in bad : d <= y
    <3>1. bad \in SUBSET Nat
      BY <1>1
    <3> HIDE DEF bad
    <3> QED
      BY <2>1, <3>1, SmallestExists
  <2>3. d # 0
    <3>1. n - 0 = n /\ n \in 0 .. n
      BY <1>1
    <3> QED
      BY <1>1, <2>2, <3>1
  <2> DEFINE j == n - d
  <2>4. d - 1 \in 0 .. n /\ ~(d <= d - 1) /\ j \in 0 .. n /\ j + 1 = n - (d - 1) /\ j + 1 \in 1 .. n
        /\ j \in Nat /\ j + 1 \in 0 .. n
    BY <1>1, <2>2, <2>3
  <2>5. Ends(s, j + 1) <= Ends(s, n)
    BY <2>2, <2>4
  <2>6. Len(MessageBytes(s[j + 1])) \in Nat
    BY <2>4, KindOf
  <2>7. ~(Ends(s, j) <= Ends(s, n))
    BY <2>2
  <2> HIDE DEF j, n
  <2>8. Ends(s, j + 1) = Ends(s, j) + Len(MessageBytes(s[j + 1]))
    BY <2>4, EndsStep
  <2>9. n \in 0 .. n
    BY <1>1
  <2> QED
    BY <1>1, <2>4, <2>5, <2>6, <2>7, <2>8, <2>9
<1>3. n - k \in 0 .. n /\ n - (n - k) = k
  BY <1>1
<1>4. ~(n - k \in bad)
  BY <1>2
<1> QED
  BY <1>3, <1>4

(* The bytes o are the messages s one after the other.                     *)
Laid(s, o) ==
  /\ o \in Seq(Nat) /\ Len(o) = Ends(s, Len(s))
  /\ \A j \in 1 .. Len(s) : \A x \in 1 .. Len(MessageBytes(s[j])) :
       o[Ends(s, j - 1) + x] = MessageBytes(s[j])[x]

(* Another message goes after the rest.                                    *)
LEMMA LaidMore ==
  ASSUME NEW s \in Seq(Messages), NEW o, Laid(s, o), NEW m \in Messages
  PROVE  Laid(Append(s, m), o \o MessageBytes(m)) /\ Append(s, m) \in Seq(Messages)
<1> DEFINE t == Append(s, m)
           B == MessageBytes(m)
           z == o \o B
           n == Len(s)
<1>1. /\ t \in Seq(Messages) /\ Len(t) = n + 1 /\ t[n + 1] = m /\ n \in Nat
      /\ \A j \in 1 .. n : t[j] = s[j]
  OBVIOUS
<1>2. B \in Seq(Nat) /\ Len(B) \in Nat /\ o \in Seq(Nat) /\ Len(o) = Ends(s, n)
  BY KindOf DEF Laid
<1>3. Glued(o, B, z)
  BY <1>2, Glue
<1>4. \A j \in 0 .. n : Ends(t, j) = Ends(s, j) /\ Ends(s, j) \in Nat /\ Ends(s, j) <= Ends(s, n)
  <2> TAKE j \in 0 .. n
  <2>1. j \in Nat /\ \A i \in 1 .. j : t[i] = s[i]
    BY <1>1
  <2>2. Ends(t, j) = Ends(s, j)
    BY <2>1, EndsSame
  <2> QED
    BY <2>2, EndsNat, EndsGrow
<1> HIDE DEF t, B, z, n
<1>5. Ends(t, n + 1) = Ends(s, n) + Len(B)
  <2>1. n \in 0 .. n
    BY <1>1
  <2> QED
    BY <1>1, <1>4, <2>1, EndsStep DEF B
<1>6. z \in Seq(Nat) /\ Len(z) = Ends(t, n + 1)
  BY <1>2, <1>3, <1>5 DEF Glued
<1>7. ASSUME NEW j \in 1 .. n + 1, NEW x \in 1 .. Len(MessageBytes(t[j]))
      PROVE  z[Ends(t, j - 1) + x] = MessageBytes(t[j])[x]
  <2>1. CASE j = n + 1
    <3>1. j - 1 = n /\ n \in 0 .. n /\ t[j] = m
      BY <1>1, <2>1
    <3>2. Ends(t, j - 1) = Len(o) /\ x \in 1 .. Len(B)
      BY <1>2, <1>4, <3>1 DEF B
    <3> QED
      BY <1>3, <3>1, <3>2 DEF Glued, B
  <2>2. CASE j # n + 1
    <3> DEFINE i == j - 1
               y == Ends(s, i) + x
    <3>1. j \in 1 .. n /\ i \in 0 .. n /\ i \in Nat /\ i + 1 = j /\ j \in 0 .. n /\ t[j] = s[j]
      BY <1>1, <2>2
    <3>2. Ends(t, i) = Ends(s, i) /\ Ends(s, i) \in Nat /\ Ends(s, j) <= Ends(s, n) /\ Ends(s, j) \in Nat
      BY <1>4, <3>1
    <3>3. Ends(s, j) = Ends(s, i) + Len(MessageBytes(s[j]))
      BY <3>1, EndsStep
    <3>4. Len(MessageBytes(s[j])) \in Nat
      BY <3>1, KindOf DEF n
    <3>5. y \in 1 .. Len(o)
      <4> DEFINE e == Ends(s, i)
                 f == Ends(s, j)
                 l == Len(MessageBytes(s[j]))
                 k == Len(o)
      <4>1. e \in Nat /\ f \in Nat /\ l \in Nat /\ f = e + l /\ y = e + x /\ x \in 1 .. l
        BY <3>1, <3>2, <3>3, <3>4
      <4>2. k \in Nat /\ f <= k
        BY <1>2, <3>2
      <4> HIDE DEF e, f, l, k, y
      <4>3. y \in 1 .. k
        BY ONLY <4>1, <4>2
      <4> QED
        BY <4>3 DEF k
    <3>6. o[y] = MessageBytes(s[j])[x]
      BY <3>1 DEF Laid, n
    <3> QED
      BY <1>3, <3>1, <3>2, <3>5, <3>6 DEF Glued
  <2> QED
    BY <2>1, <2>2
<1>8. Laid(t, z)
  BY <1>1, <1>6, <1>7 DEF Laid
<1> QED
  BY <1>1, <1>8 DEF t, z, B

-----------------------------------------------------------------------------
(* The frames: what was parsed is what was sent.                           *)

(* The j-th message parsed is of the kind of the j-th sent, which has no   *)
(* empty field.                                                            *)
Matches(j) == sent[j].kind = served[j].p.kind /\ NoEmptyField(sent[j])

(* ... and so are all up to the k-th, as far as they were sent.            *)
InStep(k) == \A j \in 1 .. k : j \in DOMAIN sent => Matches(j)

(* How many bytes the parsers have taken.                                  *)
Taken == recvd - buffer_read_ptr(rb)

(* The parser a state starts with.                                         *)
ParserInit ==
  CASE state = "HELLO_READ"   -> hello_parser_init
    [] state = "AUTH_READ"    -> auth_parser_init
    [] state = "REQUEST_READ" -> request_parser_init

Writing == state \in {"HELLO_WRITE", "AUTH_WRITE", "REQUEST_WRITE", "COPY"}

(* What was parsed is what was sent, to its last byte.                     *)
FramesOK ==
  \A k \in DOMAIN served :
    InStep(k) => k \in DOMAIN sent /\ AsSent(sent[k], served[k].p) /\ served[k].upto = EndOf(k)

(* Between two messages the parsers have taken the messages so far; in the *)
(* middle of one, the parser holds what its bytes so far say.              *)
PlaceOK ==
  LET k == Len(served)
  IN  InStep(k) =>
        /\ Writing => Taken = EndOf(k)
        /\ Reading =>
             /\ Taken - EndOf(k) \in Nat
             /\ k = Len(sent) => Taken = EndOf(k) /\ parser = ParserInit
             /\ k < Len(sent) /\ sent[k + 1].kind = parser.kind /\ NoEmptyField(sent[k + 1]) =>
                  ParserIs(sent[k + 1], parser, Taken - EndOf(k))

FrameInv ==
  /\ HandshakeInv
  /\ Laid(sent, out)
  /\ Reading => ~IsDone(parser)
  /\ FramesOK
  /\ PlaceOK

FrameRest ==
  /\ Laid(sent, out)
  /\ Reading => ~IsDone(parser)
  /\ FramesOK
  /\ PlaceOK

(* A parser that has not started has read nothing of any message.          *)
LEMMA InitIs ==
  ASSUME NEW m \in Messages, NEW p, p.kind = m.kind,
         p \in {hello_parser_init, auth_parser_init, request_parser_init}
  PROVE  ParserIs(m, p, 0)
<1>1. CASE p = hello_parser_init
  <2>1. m.kind = "hello"
    BY <1>1 DEF hello_parser_init
  <2>2. HelloIs(m, p, 0)
    BY <1>1 DEF hello_parser_init, HelloIs, HelloParsers, SOCKS_HELLO_NO_ACCEPTABLE_METHODS
  <2> QED
    BY <2>1, <2>2 DEF ParserIs
<1>2. CASE p = auth_parser_init
  <2>1. m.kind = "auth"
    BY <1>2 DEF auth_parser_init
  <2>2. AuthIs(m, p, 0)
    BY <1>2 DEF auth_parser_init, AuthIs, AuthParsers
  <2> QED
    BY <2>1, <2>2 DEF ParserIs
<1>3. CASE p = request_parser_init
  <2>1. m.kind = "request"
    BY <1>3 DEF request_parser_init
  <2>2. RequestIs(m, p, 0)
    BY <1>3 DEF request_parser_init, RequestIs, RequestParsers
  <2> QED
    BY <2>1, <2>2 DEF ParserIs
<1> QED
  BY <1>1, <1>2, <1>3

(* The state's own parser is not done when it starts.                      *)
LEMMA ParserInitOK ==
  ASSUME Reading
  PROVE  /\ ParserInit \in {hello_parser_init, auth_parser_init, request_parser_init}
         /\ ~IsDone(ParserInit)
<1>1. ParserInit \in {hello_parser_init, auth_parser_init, request_parser_init}
  BY DEF Reading, ParserInit
<1> QED
  BY <1>1 DEF IsDone, hello_parser_init, auth_parser_init, request_parser_init

(* Messages in step were sent.                                             *)
LEMMA InStepSent ==
  ASSUME FrameInv
  PROVE  /\ sent \in Seq(Messages) /\ Len(sent) \in Nat /\ Len(served) \in Nat
         /\ DOMAIN sent = 1 .. Len(sent) /\ DOMAIN served = 1 .. Len(served)
         /\ InStep(Len(served)) => Len(served) <= Len(sent)
         /\ out \in Seq(Nat) /\ recvd \in 0 .. Len(out) /\ Taken \in Nat /\ Taken <= recvd
<1>1. /\ sent \in Seq(Messages) /\ out \in Seq(Nat) /\ recvd \in 0 .. Len(out) /\ rb \in Buffers
      /\ buffer_read_ptr(rb) <= recvd
  BY DEF FrameInv, HandshakeInv, BytesOK, Messages
<1>2. served \in Seq([p : HelloParsers \cup AuthParsers \cup RequestParsers, upto : Int])
  BY DEF FrameInv, HandshakeInv, ServedOK
<1> DEFINE S == [p : HelloParsers \cup AuthParsers \cup RequestParsers, upto : Int]
<1>3. Len(sent) \in Nat /\ Len(served) \in Nat /\ DOMAIN sent = 1 .. Len(sent)
      /\ DOMAIN served = 1 .. Len(served)
  <2> HIDE DEF S
  <2>1. served \in Seq(S)
    BY <1>2 DEF S
  <2> QED
    BY ONLY <1>1, <2>1
<1>4. InStep(Len(served)) => Len(served) <= Len(sent)
  <2>1. CASE Len(served) = 0
    BY <1>3, <2>1
  <2>2. CASE Len(served) # 0
    <3>1. Len(served) \in DOMAIN served
      BY <1>3, <2>2
    <3> QED
      BY <1>3, <3>1 DEF FrameInv, FramesOK
  <2> QED
    BY <2>1, <2>2
<1>5. Taken \in Nat /\ Taken <= recvd
  <2> DEFINE h == buffer_read_ptr(rb)
  <2>1. h \in Nat /\ h <= recvd /\ Taken = recvd - h
    BY <1>1, BufSizeAssumption DEF Taken, Buffers, buffer_read_ptr, BufSizeAssumption
  <2> HIDE DEF h
  <2>2. Len(out) \in Nat
    BY <1>1
  <2> QED
    BY <1>1, <2>1, <2>2
<1> QED
  BY <1>1, <1>3, <1>4, <1>5

(* A step that reads nothing keeps the frames.                             *)
LEMMA FrameQuiet ==
  ASSUME FrameInv, UNCHANGED <<sent, out, recvd, rb, served>>,
         \/ UNCHANGED <<state, parser>>
         \/ state' = "ERROR"
         \/ Writing /\ state' = "COPY"
         \/ Writing /\ Reading' /\ parser' = ParserInit'
  PROVE  FrameRest'
<1> DEFINE k == Len(served)
<1>1. Laid(sent, out)' /\ FramesOK' /\ Taken' = Taken /\ EndOf(k)' = EndOf(k)
      /\ (InStep(k)' <=> InStep(k)) /\ k' = k
  BY DEF FrameInv, FramesOK, Taken, EndOf, InStep, Matches
<1>2. CASE UNCHANGED <<state, parser>>
  <2>1. (Reading' <=> Reading) /\ (Writing' <=> Writing) /\ ParserInit' = ParserInit
    BY <1>2 DEF Reading, Writing, ParserInit
  <2>2. (Reading => ~IsDone(parser))'
    BY <1>2, <2>1 DEF FrameInv
  <2>3. PlaceOK'
    BY <1>1, <1>2, <2>1 DEF FrameInv, PlaceOK
  <2> QED
    BY <1>1, <2>2, <2>3 DEF FrameRest
<1>3. CASE state' = "ERROR"
  <2>1. ~Reading' /\ ~Writing'
    BY <1>3 DEF Reading, Writing
  <2> QED
    BY <1>1, <2>1 DEF FrameRest, PlaceOK
<1>4. CASE Writing /\ state' = "COPY"
  <2>1. ~Reading'
    BY <1>4 DEF Reading
  <2>2. InStep(k) => Taken = EndOf(k)
    BY <1>4 DEF FrameInv, PlaceOK
  <2> QED
    BY <1>1, <2>1, <2>2 DEF FrameRest, PlaceOK
<1>5. CASE Writing /\ Reading' /\ parser' = ParserInit'
  <2>1. /\ ParserInit' \in {hello_parser_init, auth_parser_init, request_parser_init}
        /\ ~IsDone(ParserInit')
    <3>1. ParserInit' \in {hello_parser_init, auth_parser_init, request_parser_init}
      BY <1>5 DEF Reading, ParserInit
    <3> QED
      BY <3>1 DEF IsDone, hello_parser_init, auth_parser_init, request_parser_init
  <2>2. ~Writing'
    BY <1>5 DEF Writing, Reading
  <2>3. PlaceOK'
    <3> SUFFICES ASSUME InStep(k)'
                 PROVE  /\ (Taken - EndOf(k) \in Nat)'
                        /\ (k = Len(sent) => Taken = EndOf(k) /\ parser = ParserInit)'
                        /\ (k < Len(sent) /\ sent[k + 1].kind = parser.kind /\ NoEmptyField(sent[k + 1])
                              => ParserIs(sent[k + 1], parser, Taken - EndOf(k)))'
      BY <1>5, <2>2 DEF PlaceOK
    <3>1. Taken = EndOf(k)
      BY <1>1, <1>5 DEF FrameInv, PlaceOK
    <3>2. Taken \in Nat /\ sent \in Seq(Messages) /\ Len(sent) \in Nat /\ k \in Nat
      BY InStepSent
    <3>3. Taken' - EndOf(k)' = 0
      BY <1>1, <3>1, <3>2
    <3>4. ASSUME k < Len(sent), sent[k + 1].kind = parser'.kind
          PROVE  ParserIs(sent[k + 1], parser', 0)
      <4>1. sent[k + 1] \in Messages
        BY <3>2, <3>4
      <4> QED
        BY <1>5, <2>1, <3>4, <4>1, InitIs
    <3> QED
      BY <1>1, <1>5, <3>1, <3>3, <3>4
  <2> QED
    BY <1>1, <1>5, <2>1, <2>3 DEF FrameRest
<1> QED
  BY <1>2, <1>3, <1>4, <1>5

(* What the client adds to what it sent is not parsed yet.                 *)
LEMMA FrameMore ==
  ASSUME FrameInv, UNCHANGED <<state, recvd, rb, parser, served>>, Laid(sent, out)',
         sent' \in Seq(Messages), Len(sent) <= Len(sent'),
         \A j \in 1 .. Len(sent) : sent'[j] = sent[j]
  PROVE  FrameRest'
<1> DEFINE k == Len(served)
<1>1. /\ sent \in Seq(Messages) /\ Len(sent) \in Nat /\ k \in Nat /\ Len(sent') \in Nat
      /\ DOMAIN sent = 1 .. Len(sent) /\ DOMAIN served = 1 .. k /\ DOMAIN sent' = 1 .. Len(sent')
      /\ InStep(k) => k <= Len(sent)
      /\ Taken \in Nat
  BY InStepSent
<1>2. /\ Taken' = Taken /\ k' = k /\ (Reading' <=> Reading) /\ (Writing' <=> Writing)
      /\ ParserInit' = ParserInit
  BY DEF Taken, Reading, Writing, ParserInit
<1>3. ASSUME NEW i \in Nat, InStep(i)' PROVE InStep(i)
  BY <1>1, <1>3 DEF InStep, Matches
<1>4. ASSUME NEW i \in 0 .. Len(sent) PROVE EndOf(i)' = EndOf(i)
  <2>1. EndOf(i)' = Ends(sent', i) /\ EndOf(i) = Ends(sent, i)
    BY DEF EndOf, Ends
  <2>2. \A j \in 1 .. i : sent'[j] = sent[j]
    BY <1>1
  <2> QED
    BY <1>1, <2>1, <2>2, EndsSame
<1>5. FramesOK'
  <2> SUFFICES ASSUME NEW i \in DOMAIN served, InStep(i)'
               PROVE  i \in DOMAIN sent' /\ AsSent(sent[i], served[i].p)' /\ served[i].upto = EndOf(i)'
    BY DEF FramesOK
  <2>1. i \in DOMAIN sent /\ AsSent(sent[i], served[i].p) /\ served[i].upto = EndOf(i)
    BY <1>1, <1>3 DEF FrameInv, FramesOK
  <2>2. sent'[i] = sent[i] /\ EndOf(i)' = EndOf(i) /\ i \in DOMAIN sent'
    BY <1>1, <1>4, <2>1
  <2> QED
    BY <2>1, <2>2 DEF AsSent
<1>6. PlaceOK'
  <2> SUFFICES ASSUME InStep(k)'
               PROVE  /\ (Writing => Taken = EndOf(k))'
                      /\ Reading' =>
                           /\ (Taken - EndOf(k) \in Nat)'
                           /\ (k = Len(sent) => Taken = EndOf(k) /\ parser = ParserInit)'
                           /\ (k < Len(sent) /\ sent[k + 1].kind = parser.kind
                                 /\ NoEmptyField(sent[k + 1])
                                 => ParserIs(sent[k + 1], parser, Taken - EndOf(k)))'
    BY DEF PlaceOK
  <2>1. InStep(k) /\ k <= Len(sent) /\ EndOf(k)' = EndOf(k)
    BY <1>1, <1>2, <1>3, <1>4
  <2>2. /\ Writing => Taken = EndOf(k)
        /\ Reading =>
             /\ Taken - EndOf(k) \in Nat
             /\ k = Len(sent) => Taken = EndOf(k) /\ parser = ParserInit
             /\ k < Len(sent) /\ sent[k + 1].kind = parser.kind /\ NoEmptyField(sent[k + 1]) =>
                  ParserIs(sent[k + 1], parser, Taken - EndOf(k))
    BY <2>1 DEF FrameInv, PlaceOK
  <2>3. ASSUME Reading, k < Len(sent'), sent'[k + 1].kind = parser.kind, NoEmptyField(sent'[k + 1])
        PROVE  ParserIs(sent'[k + 1], parser, Taken - EndOf(k))
    <3>1. CASE k < Len(sent)
      <4>1. sent'[k + 1] = sent[k + 1]
        BY <1>1, <3>1
      <4> QED
        BY <2>2, <2>3, <3>1, <4>1
    <3>2. CASE k = Len(sent)
      <4>1. Taken - EndOf(k) = 0 /\ parser = ParserInit
        BY <1>1, <2>2, <2>3, <3>2
      <4>2. sent'[k + 1] \in Messages
        BY <1>1, <2>3
      <4> QED
        BY <2>3, <4>1, <4>2, InitIs, ParserInitOK
    <3>3. k <= Len(sent) /\ k \in Nat /\ Len(sent) \in Nat
      BY <1>1, <2>1
    <3>4. k < Len(sent) \/ k = Len(sent)
      BY ONLY <3>3
    <3> QED
      BY <3>1, <3>2, <3>4
  <2>4. k = Len(sent') => k = Len(sent)
    <3>1. k <= Len(sent) /\ k \in Nat /\ Len(sent) \in Nat /\ Len(sent) <= Len(sent')
      BY <1>1, <2>1
    <3> QED
      BY ONLY <3>1
  <2>5. k' = k /\ Taken' = Taken /\ parser' = parser
    BY <1>2
  <2> QED
    BY <1>2, <2>1, <2>2, <2>3, <2>4, <2>5
<1>7. (Reading => ~IsDone(parser))'
  BY <1>2 DEF FrameInv
<1> QED
  BY <1>5, <1>6, <1>7 DEF FrameRest

(* What a handler has to parse when it has read k bytes: the bytes behind  *)
(* the last one taken.                                                     *)
Fetched(bytes, k) ==
  /\ bytes \in Seq(Nat) /\ bytes # <<>> /\ Taken \in Nat
  /\ Taken + Len(bytes) = recvd + k /\ recvd + k <= Len(out)
  /\ \A x \in 1 .. Len(bytes) : bytes[x] = out[Taken + x]

(* The bytes a read hands to the parser follow those already taken.        *)
LEMMA ReadBytes ==
  ASSUME BytesOK, NEW k \in 1 .. BufSize, Recv(k),
         NEW bytes, bytes = Unread \o SubSeq(out, recvd + 1, recvd + k)
  PROVE  Fetched(bytes, k)
<1> DEFINE have == buffer_read_ptr(rb)
           old == Unread
           new == SubSeq(out, recvd + 1, recvd + k)
           T == Taken
<1>1. /\ BufSize \in Nat \ {0} /\ rb.read \in 0 .. BufSize /\ rb.write \in 0 .. BufSize
      /\ rb.read <= rb.write /\ have = rb.write - rb.read
  BY BufSizeAssumption DEF BufSizeAssumption, BytesOK, Buffers, buffer_read_ptr
<1>2. out \in Seq(Nat) /\ recvd \in Nat /\ recvd <= Len(out) /\ have <= recvd /\ Len(out) \in Nat
  BY DEF BytesOK
<1>3. k \in Nat /\ k >= 1 /\ recvd + k <= Len(out)
  BY <1>1, <1>2 DEF Recv
<1>4. have \in Nat /\ T = recvd - have /\ T \in Nat
  BY <1>1, <1>2 DEF Taken
<1>5. old = SubSeq(out, T + 1, recvd)
  BY DEF Unread, Taken
<1> HIDE DEF have, T, old
<1>6. old \in Seq(Nat) /\ Len(old) = have /\ \A x \in 1 .. have : old[x] = out[T + x]
  <2> DEFINE a == T + 1
  <2>1. a \in 1 .. Len(out) + 1 /\ recvd \in a - 1 .. Len(out) /\ recvd - a + 1 = have
    BY <1>2, <1>4
  <2>2. \A x \in 1 .. have : a + x - 1 = T + x
    BY <1>4
  <2>3. old = SubSeq(out, a, recvd)
    BY <1>5
  <2> HIDE DEF a
  <2>4. /\ old \in Seq(Nat) /\ Len(old) = recvd - a + 1
        /\ \A i \in 1 .. recvd - a + 1 : old[i] = out[a + i - 1]
    <3>1. a \in Int /\ recvd \in Int /\ \A i \in a .. recvd : out[i] \in Nat
      BY <1>2, <2>1
    <3>2. /\ SubSeq(out, a, recvd) \in Seq(Nat)
          /\ Len(SubSeq(out, a, recvd)) = IF a <= recvd THEN recvd - a + 1 ELSE 0
          /\ \A i \in 1 .. recvd - a + 1 : SubSeq(out, a, recvd)[i] = out[a + i - 1]
      BY ONLY <3>1, SubSeqProperties
    <3>3. (IF a <= recvd THEN recvd - a + 1 ELSE 0) = recvd - a + 1
      BY <1>2, <2>1, <3>1
    <3> QED
      BY <2>3, <3>2, <3>3
  <2> QED
    BY <2>1, <2>2, <2>4
<1>7. new \in Seq(Nat) /\ Len(new) = k /\ \A x \in 1 .. k : new[x] = out[recvd + x]
  <2>1. recvd + 1 \in 1 .. Len(out) + 1 /\ recvd + k \in (recvd + 1) - 1 .. Len(out)
        /\ (recvd + k) - (recvd + 1) + 1 = k
    BY <1>2, <1>3
  <2>2. /\ new \in Seq(Nat) /\ Len(new) = (recvd + k) - (recvd + 1) + 1
        /\ \A i \in 1 .. (recvd + k) - (recvd + 1) + 1 : new[i] = out[(recvd + 1) + i - 1]
    BY <1>2, <2>1, SubSeqProperties
  <2>3. \A x \in 1 .. k : (recvd + 1) + x - 1 = recvd + x
    BY <1>2
  <2> QED
    BY <2>1, <2>2, <2>3
<1> HIDE DEF new
<1>8. Glued(old, new, bytes)
  BY <1>6, <1>7, Glue DEF old, new
<1>9. bytes \in Seq(Nat) /\ Len(bytes) = have + k
  BY <1>6, <1>7, <1>8 DEF Glued
<1>10. ASSUME NEW x \in 1 .. have + k PROVE bytes[x] = out[T + x]
  <2>1. CASE x <= have
    <3>1. x \in 1 .. Len(old) /\ x \in 1 .. have
      BY <1>3, <1>4, <1>6, <2>1
    <3> QED
      BY <1>6, <1>8, <3>1 DEF Glued
  <2>2. CASE ~(x <= have)
    <3> DEFINE y == x - have
    <3>1. y \in 1 .. k /\ x = have + y /\ recvd + y = T + x
      BY <1>2, <1>3, <1>4, <2>2
    <3> HIDE DEF y
    <3> QED
      BY <1>6, <1>7, <1>8, <3>1 DEF Glued
  <2> QED
    BY <2>1, <2>2
<1>11. T + (have + k) = recvd + k /\ have + k > 0
  BY <1>2, <1>3, <1>4
<1>12. bytes # <<>>
  <2>1. Len(bytes) > 0
    BY <1>9, <1>11
  <2> QED
    BY ONLY <1>9, <2>1
<1>13. \A x \in 1 .. Len(bytes) : bytes[x] = out[T + x]
  BY <1>9, <1>10
<1>14. T + Len(bytes) = recvd + k
  BY <1>9, <1>11
<1> QED
  BY <1>3, <1>4, <1>9, <1>12, <1>13, <1>14 DEF T, Fetched

(* What the parsers have taken after a read.                               *)
LEMMA ReadMoves ==
  ASSUME BytesOK, NEW k \in 1 .. BufSize, Recv(k), NEW used \in Nat, Taken + used <= recvd + k,
         recvd' = recvd + k, rb' = AfterRead(k, used)
  PROVE  /\ Taken' = Taken + used
         /\ Taken + used = recvd + k => rb' = buffer_init
<1>1. /\ BufSize \in Nat \ {0} /\ rb.read \in 0 .. BufSize /\ rb.write \in 0 .. BufSize
      /\ rb.read <= rb.write /\ rb = [read |-> rb.read, write |-> rb.write]
      /\ buffer_read_ptr(rb) = rb.write - rb.read /\ recvd \in Nat /\ k \in Nat
  BY BufSizeAssumption DEF BufSizeAssumption, BytesOK, Buffers, buffer_read_ptr
<1> DEFINE x == rb.read + used
           y == rb.write + k
           v == [read |-> x, write |-> y]
<1>2. x \in Nat /\ y \in Nat /\ x <= y /\ Taken + used = recvd + k - (y - x)
  BY <1>1 DEF Taken
<1>3. rb' = IF x = y THEN [read |-> 0, write |-> y - x] ELSE v
  <2> DEFINE b == buffer_write_adv(rb, k)
  <2>1. b = [read |-> rb.read, write |-> y]
    BY <1>1 DEF buffer_write_adv
  <2>2. rb' = buffer_read_adv(b, used)
    BY DEF AfterRead
  <2> HIDE DEF b
  <2> QED
    BY <2>1, <2>2 DEF buffer_read_adv, buffer_compact
<1> HIDE DEF x, y
<1>4. buffer_read_ptr(rb') = y - x
  BY <1>2, <1>3 DEF buffer_read_ptr
<1>5. Taken' = recvd' - buffer_read_ptr(rb')
  BY DEF Taken
<1>6. ASSUME Taken + used = recvd + k PROVE rb' = buffer_init
  <2>1. x = y /\ y - x = 0
    BY <1>1, <1>2, <1>6
  <2> QED
    BY <1>3, <2>1 DEF buffer_init
<1>7. Taken' = Taken + used
  BY ONLY <1>1, <1>2, <1>4, <1>5, recvd' = recvd + k
<1> QED
  BY <1>6, <1>7

(* A message that was parsed whole was parsed as it was sent.              *)
LEMMA DoneAsSent ==
  ASSUME NEW m \in Messages, NEW p, NEW i, ParserIs(m, p, i), p.state = "done"
  PROVE  i = Len(MessageBytes(m)) /\ AsSent(m, p)
<1>1. CASE m.kind = "hello" /\ HelloIs(m, p, i)
  BY <1>1 DEF HelloIs, AsSent
<1>2. CASE m.kind = "auth" /\ AuthIs(m, p, i)
  BY <1>2 DEF AuthIs, AsSent
<1>3. CASE m.kind = "request" /\ RequestIs(m, p, i)
  <2>1. p.cmd = m.cmd /\ p.atyp = m.atyp /\ p.addr = m.addr /\ p.port = m.port
        /\ i = Len(MessageBytes(m))
    BY <1>3 DEF RequestIs
  <2>2. \A f \in {"cmd", "atyp", "addr", "port"} : p[f] = m[f]
    BY <2>1
  <2> QED
    BY <1>3, <2>1, <2>2 DEF AsSent
<1> QED
  BY <1>1, <1>2, <1>3 DEF ParserIs

(* What the bytes of a read say of the message they are read from.         *)
ReadIs(kind, n) ==
  LET k == Len(served)
      m == sent[k + 1]
      i == Taken - EndOf(k)
  IN  /\ k + 1 \in DOMAIN sent /\ m \in Messages /\ i \in Nat
      /\ EndOf(k) \in Nat /\ EndOf(k + 1) = EndOf(k) + Len(MessageBytes(m))
      /\ m.kind = kind /\ NoEmptyField(m) => ParserIs(m, Parsed(n).p, i + Parsed(n).n)

(* A read goes on in the message the parser is in, or begins the next.     *)
LEMMA ReadInFrame ==
  ASSUME FrameInv, Reading, NEW kind, ParserOf(kind, parser), NEW n \in 1 .. BufSize, Recv(n),
         InStep(Len(served))
  PROVE  ReadIs(kind, n)
<1>0. PICK k \in Nat : k = Len(served)
  BY InStepSent
<1> DEFINE bytes == Unread \o SubSeq(out, recvd + 1, recvd + n)
           T == Taken
           q == Parsed(n).p
           used == Parsed(n).n
<1>1. BytesOK /\ ~IsDone(parser)
  BY DEF FrameInv, HandshakeInv
<1>2. Parsed(n) = Consume(parser, bytes, is_auth_on)
  BY DEF Parsed
<1> HIDE DEF bytes
<1>3. /\ bytes \in Seq(Nat) /\ bytes # <<>> /\ T \in Nat /\ T + Len(bytes) = recvd + n
      /\ recvd + n <= Len(out) /\ \A x \in 1 .. Len(bytes) : bytes[x] = out[T + x]
  <2>1. Fetched(bytes, n)
    BY <1>1, ReadBytes DEF bytes
  <2> QED
    BY ONLY <2>1 DEF Fetched
<1>4. used \in 1 .. Len(bytes) /\ (~IsDone(q) => used = Len(bytes))
  BY <1>1, <1>2, <1>3, ConsumeTakes
<1>5. ParserOf(kind, q)
  BY <1>2, <1>3, ConsumeOK
<1>6. q.kind = kind /\ parser.kind = kind
  BY <1>5 DEF ParserOf, HelloParsers, AuthParsers, RequestParsers
<1>7. /\ sent \in Seq(Messages) /\ Len(sent) \in Nat /\ k \in Nat
      /\ DOMAIN sent = 1 .. Len(sent) /\ DOMAIN served = 1 .. k
      /\ InStep(k) => k <= Len(sent)
  BY <1>0, InStepSent
<1> HIDE DEF used, q
<1>8. Laid(sent, out) /\ Len(out) = Ends(sent, Len(sent))
  BY DEF FrameInv, Laid
<1>9. \A i : EndOf(i) = Ends(sent, i)
  BY DEF EndOf, Ends
<1> DEFINE m == sent[k + 1]
<1>10. /\ k + 1 \in DOMAIN sent /\ m \in Messages /\ T - EndOf(k) \in Nat
       /\ EndOf(k) \in Nat /\ EndOf(k + 1) = EndOf(k) + Len(MessageBytes(m))
       /\ m.kind = kind /\ NoEmptyField(m) => ParserIs(m, q, T - EndOf(k) + used)
  <2>1. /\ T - EndOf(k) \in Nat
        /\ k = Len(sent) => T = EndOf(k)
        /\ k < Len(sent) /\ m.kind = kind /\ NoEmptyField(m) => ParserIs(m, parser, T - EndOf(k))
    BY <1>0, <1>6 DEF FrameInv, PlaceOK
  <2>2. k # Len(sent)
    <3>1. SUFFICES ASSUME k = Len(sent) PROVE FALSE
      OBVIOUS
    <3>2. Len(out) = T
      BY <1>8, <1>9, <2>1, <3>1
    <3>3. Len(bytes) \in Nat /\ Len(bytes) > 0
      BY <1>3
    <3> QED
      BY ONLY <1>3, <3>2, <3>3
  <2>3. k < Len(sent) /\ k + 1 \in 1 .. Len(sent) /\ k \in 0 .. Len(sent)
    <3>1. k <= Len(sent) /\ Len(sent) \in Nat
      BY <1>7
    <3> QED
      BY ONLY <2>2, <3>1, k \in Nat
  <2>4. m \in Messages /\ EndOf(k) \in Nat /\ EndOf(k + 1) = EndOf(k) + Len(MessageBytes(m))
    <3>1. m \in Messages
      BY <1>7, <2>3
    <3>2. Ends(sent, k) \in Nat
      BY <1>7, <2>3, EndsNat
    <3>3. Ends(sent, k + 1) = Ends(sent, k) + Len(MessageBytes(m))
      BY EndsStep
    <3> QED
      BY <1>9, <3>1, <3>2, <3>3
  <2>5. ASSUME m.kind = kind, NoEmptyField(m) PROVE ParserIs(m, q, T - EndOf(k) + used)
    <3> DEFINE i == T - EndOf(k)
    <3>1. ParserIs(m, parser, i) /\ i \in Nat
      BY <2>1, <2>3, <2>5
    <3>2. ASSUME NEW x \in 1 .. Len(bytes), i + x <= Len(MessageBytes(m))
          PROVE  bytes[x] = MessageBytes(m)[i + x]
      <4>1. bytes[x] = out[T + x] /\ x \in Nat /\ x >= 1
        BY <1>3
      <4>2. i + x \in 1 .. Len(MessageBytes(m)) /\ T + x = EndOf(k) + (i + x)
        <5>1. Len(MessageBytes(m)) \in Nat /\ EndOf(k) \in Nat /\ T \in Nat /\ i = T - EndOf(k)
          BY <1>3, <2>4, KindOf
        <5>2. i \in Nat /\ i + x <= Len(MessageBytes(m))
          BY <3>1, <3>2
        <5> HIDE DEF i
        <5>3. T + x = EndOf(k) + (i + x)
          <6> DEFINE e == EndOf(k)
          <6>1. e \in Nat /\ T \in Nat /\ x \in Nat /\ i = T - e
            BY <4>1, <5>1
          <6> HIDE DEF e, T
          <6>2. T + x = e + (i + x)
            BY ONLY <6>1
          <6> QED
            BY <6>2 DEF e
        <5> DEFINE L == Len(MessageBytes(m))
        <5>4. L \in Nat /\ i + x <= L
          BY <5>1, <5>2
        <5> HIDE DEF L
        <5>5. i + x \in 1 .. L
          BY ONLY <4>1, <5>2, <5>4
        <5> QED
          BY <5>3, <5>5 DEF L
      <4> HIDE DEF i
      <4>3. out[Ends(sent, (k + 1) - 1) + (i + x)] = MessageBytes(m)[i + x]
        BY <1>8, <2>3, <4>2 DEF Laid
      <4>4. (k + 1) - 1 = k
        BY <1>7
      <4> QED
        BY <1>9, <4>1, <4>2, <4>3, <4>4
    <3> HIDE DEF i
    <3>3. ParserIs(m, Consume(parser, bytes, is_auth_on).p, i + Consume(parser, bytes, is_auth_on).n)
      BY <1>1, <1>3, <2>4, <2>5, <3>1, <3>2, ConsumeIs
    <3> QED
      BY <1>2, <3>3 DEF i, q, used
  <2> QED
    BY <1>7, <2>1, <2>3, <2>4, <2>5
<1> QED
  BY <1>0, <1>10 DEF ReadIs, m, q, used

(* A read keeps the frames: the parser stops at the last byte of the       *)
(* message and what is left belongs to the next.                           *)
LEMMA FrameRead ==
  ASSUME FrameInv, Reading, NEW kind, ParserOf(kind, parser), NEW n \in 1 .. BufSize, Recv(n),
         recvd' = recvd + n, rb' = AfterRead(n, Parsed(n).n), parser' = Parsed(n).p,
         UNCHANGED <<sent, out>>,
         \/ state' = "ERROR" /\ UNCHANGED served
         \/ Parsed(n).p.state = "done" /\ Writing' /\ Serve(Parsed(n).p, n, Parsed(n).n)
         \/ ~IsDone(Parsed(n).p) /\ UNCHANGED <<state, served>>
  PROVE  FrameRest'
<1>0. PICK k \in Nat : k = Len(served)
  BY InStepSent
<1> DEFINE bytes == Unread \o SubSeq(out, recvd + 1, recvd + n)
           T == Taken
           q == Parsed(n).p
           used == Parsed(n).n
<1>1. BytesOK /\ ~IsDone(parser)
  BY DEF FrameInv, HandshakeInv
<1>2. Parsed(n) = Consume(parser, bytes, is_auth_on)
  BY DEF Parsed
<1> HIDE DEF bytes
<1>3. /\ bytes \in Seq(Nat) /\ bytes # <<>> /\ T \in Nat /\ T + Len(bytes) = recvd + n
      /\ recvd + n <= Len(out) /\ \A x \in 1 .. Len(bytes) : bytes[x] = out[T + x]
  <2>1. Fetched(bytes, n)
    BY <1>1, ReadBytes DEF bytes
  <2> QED
    BY ONLY <2>1 DEF Fetched
<1>4. used \in 1 .. Len(bytes) /\ (~IsDone(q) => used = Len(bytes))
  BY <1>1, <1>2, <1>3, ConsumeTakes
<1>5. ParserOf(kind, q)
  BY <1>2, <1>3, ConsumeOK
<1>6. q.kind = kind /\ parser.kind = kind
  BY <1>5 DEF ParserOf, HelloParsers, AuthParsers, RequestParsers
<1>7. /\ sent \in Seq(Messages) /\ Len(sent) \in Nat /\ k \in Nat
      /\ DOMAIN sent = 1 .. Len(sent) /\ DOMAIN served = 1 .. k
      /\ InStep(k) => k <= Len(sent)
  BY <1>0, InStepSent
<1>8. Taken' = T + used
  <2>1. used \in Nat /\ T + used <= recvd + n
    <3>1. used \in Nat /\ used <= Len(bytes) /\ Len(bytes) \in Nat
      BY <1>3, <1>4
    <3> QED
      BY ONLY <1>3, <3>1
  <2> QED
    BY <1>1, <2>1, ReadMoves
<1> HIDE DEF used, q
<1>9. Laid(sent, out) /\ Laid(sent, out)' /\ Len(out) = Ends(sent, Len(sent))
  BY DEF FrameInv, Laid
<1>10. \A i : EndOf(i) = Ends(sent, i) /\ EndOf(i)' = EndOf(i)
  BY DEF EndOf, Ends
(* What the parser says of the message it is in.                           *)
<1> DEFINE m == sent[k + 1]
           Here == InStep(k) /\ m.kind = kind /\ NoEmptyField(m)
<1>11. ASSUME InStep(k)
       PROVE  /\ k + 1 \in DOMAIN sent /\ m \in Messages /\ T - EndOf(k) \in Nat
              /\ EndOf(k) \in Nat /\ EndOf(k + 1) = EndOf(k) + Len(MessageBytes(m))
              /\ m.kind = kind /\ NoEmptyField(m) => ParserIs(m, q, T - EndOf(k) + used)
  BY <1>0, <1>11, ReadInFrame DEF ReadIs, q, used
<1> HIDE DEF m
<1>12. CASE state' = "ERROR" /\ UNCHANGED served
  <2>1. ~Reading' /\ ~Writing'
    BY <1>12 DEF Reading, Writing
  <2>2. FramesOK'
    BY <1>10, <1>12 DEF FrameInv, FramesOK, InStep, Matches
  <2> QED
    BY <1>9, <2>1, <2>2 DEF FrameRest, PlaceOK
<1>13. CASE q.state = "done" /\ Writing' /\ Serve(q, n, used)
  <2> DEFINE e == [p |-> q, upto |-> T + used]
  <2>1. served' = Append(served, e)
    BY <1>13 DEF Serve, Taken
  <2> HIDE DEF e
  <2>2. /\ Len(served') = k + 1 /\ DOMAIN served' = 1 .. k + 1 /\ served'[k + 1] = e
        /\ \A j \in 1 .. k : served'[j] = served[j]
    <3> DEFINE S == [p : HelloParsers \cup AuthParsers \cup RequestParsers, upto : Int]
    <3>1. served \in Seq(S) /\ e \in S /\ k = Len(served)
      <4>1. q \in HelloParsers \cup AuthParsers \cup RequestParsers
        BY <1>5 DEF ParserOf
      <4>2. used \in Int /\ T \in Int
        BY <1>3, <1>4
      <4> QED
        BY <1>0, <4>1, <4>2 DEF FrameInv, HandshakeInv, ServedOK, e
    <3> HIDE DEF S
    <3> QED
      BY ONLY <2>1, <3>1
  <2>3. e.p = q /\ e.upto = T + used
    BY DEF e
  <2>4. \A j \in 1 .. k : (InStep(j)' <=> InStep(j))
    BY <1>7, <2>2 DEF InStep, Matches
  <2>5. ASSUME InStep(k + 1)'
        PROVE  /\ k + 1 \in DOMAIN sent /\ AsSent(m, q)
               /\ T + used = EndOf(k + 1)
    <3>1. InStep(k)
      <4>1. \A j \in 1 .. k : j \in 1 .. k + 1
        BY <1>7
      <4> QED
        BY <2>2, <2>5, <4>1 DEF InStep, Matches
    <3>2. k + 1 \in DOMAIN sent /\ m \in Messages /\ EndOf(k) \in Nat
          /\ EndOf(k + 1) = EndOf(k) + Len(MessageBytes(m))
      BY <1>11, <3>1
    <3>3. m.kind = kind /\ NoEmptyField(m)
      <4>1. k + 1 \in 1 .. k + 1
        BY <1>7
      <4>2. Matches(k + 1)'
        BY <2>5, <3>2, <4>1 DEF InStep
      <4> QED
        BY <1>6, <2>2, <2>3, <4>2 DEF Matches, m
    <3>4. ParserIs(m, q, T - EndOf(k) + used)
      BY <1>11, <3>1, <3>3
    <3>5. T - EndOf(k) + used = Len(MessageBytes(m)) /\ AsSent(m, q)
      BY <1>13, <3>2, <3>4, DoneAsSent
    <3>6. T + used = EndOf(k) + Len(MessageBytes(m))
      <4>1. used \in Int
        BY <1>4
      <4> QED
        BY <1>3, <3>2, <3>5, <4>1
    <3> QED
      BY <3>2, <3>5, <3>6
  <2>6. FramesOK'
    <3> SUFFICES ASSUME NEW j \in 1 .. k + 1, InStep(j)'
                 PROVE  /\ j \in DOMAIN sent /\ AsSent(sent[j], served'[j].p)
                        /\ served'[j].upto = EndOf(j)
      <4>1. \A j : AsSent(sent[j], served[j].p)' <=> AsSent(sent[j], served'[j].p)
        BY ONLY UNCHANGED <<sent, out>> DEF AsSent
      <4>2. UNCHANGED sent /\ \A j : EndOf(j)' = EndOf(j)
        BY <1>10
      <4> QED
        BY <2>2, <4>1, <4>2, Zenon DEF FramesOK
    <3>1. CASE j \in 1 .. k
      <4>1. InStep(j) /\ j \in DOMAIN served /\ served'[j] = served[j]
        BY <1>7, <2>2, <2>4, <3>1
      <4> QED
        BY <4>1 DEF FrameInv, FramesOK
    <3>2. CASE j = k + 1
      BY <2>2, <2>3, <2>5, <3>2 DEF m
    <3> QED
      BY <1>7, <3>1, <3>2
  <2>7. PlaceOK'
    <3>1. ~Reading'
      BY <1>13 DEF Writing, Reading
    <3>2. ASSUME InStep(k + 1)' PROVE Taken' = EndOf(k + 1)'
      BY <1>8, <1>10, <2>5, <3>2
    <3> QED
      BY <2>2, <3>1, <3>2 DEF PlaceOK
  <2>8. ~Reading'
    BY <1>13 DEF Writing, Reading
  <2> QED
    BY <1>9, <2>6, <2>7, <2>8 DEF FrameRest
<1>14. CASE ~IsDone(q) /\ UNCHANGED <<state, served>>
  <2>1. Reading' /\ ~Writing' /\ ~IsDone(parser)'
    BY <1>14 DEF Reading, Writing, q, IsDone
  <2>2. FramesOK' /\ (InStep(k)' <=> InStep(k))
    BY <1>10, <1>14 DEF FrameInv, FramesOK, InStep, Matches
  <2>3. PlaceOK'
    <3> SUFFICES ASSUME InStep(k)
                 PROVE  /\ Taken' - EndOf(k) \in Nat
                        /\ k # Len(sent)
                        /\ m.kind = kind /\ NoEmptyField(m) => ParserIs(m, q, Taken' - EndOf(k))
      BY <1>0, <1>6, <1>10, <1>14, <2>1, <2>2 DEF PlaceOK, m, q
    <3>1. /\ k + 1 \in DOMAIN sent /\ T - EndOf(k) \in Nat /\ EndOf(k) \in Nat
          /\ m.kind = kind /\ NoEmptyField(m) => ParserIs(m, q, T - EndOf(k) + used)
      BY <1>11
    <3>2. used \in Nat
      BY <1>3, <1>4
    <3>3. Taken' - EndOf(k) = T - EndOf(k) + used
      BY <1>3, <1>8, <3>1, <3>2
    <3>4. k # Len(sent)
      <4>1. k + 1 <= Len(sent)
        BY <1>7, <3>1
      <4> QED
        BY ONLY <4>1, k \in Nat
    <3> QED
      BY <3>1, <3>2, <3>3, <3>4
  <2> QED
    BY <1>9, <2>1, <2>2, <2>3 DEF FrameRest
<1> QED
  BY <1>12, <1>13, <1>14 DEF q, used

(* One more element after one.                                             *)
LEMMA AppendSecond ==
  ASSUME NEW S, NEW h \in S, NEW a \in S
  PROVE  Append(<<h>>, a) = <<h, a>>
<1> DEFINE x == Append(<<h>>, a)
<1> DEFINE y == <<h, a>>
<1>1. x \in Seq(S) /\ Len(x) = 2 /\ x[1] = h /\ x[2] = a
  OBVIOUS
<1>2. y \in Seq(S) /\ Len(y) = 2 /\ y[1] = h /\ y[2] = a
  OBVIOUS
<1> HIDE DEF x, y
<1>3. \A i \in 1 .. 2 : i = 1 \/ i = 2
  OBVIOUS
<1>4. \A i \in 1 .. 2 : x[i] = y[i]
  BY <1>1, <1>2, <1>3
<1>5. x = y
  BY <1>1, <1>2, <1>4
<1> QED
  BY <1>5 DEF x, y

(* One more element after two.                                            *)
LEMMA AppendThird ==
  ASSUME NEW S, NEW h \in S, NEW a \in S, NEW r \in S
  PROVE  Append(<<h, a>>, r) = <<h, a, r>>
<1> DEFINE x == Append(<<h, a>>, r)
<1> DEFINE y == <<h, a, r>>
<1>1. x \in Seq(S) /\ Len(x) = 3 /\ x[1] = h /\ x[2] = a /\ x[3] = r
  OBVIOUS
<1>2. y \in Seq(S) /\ Len(y) = 3 /\ y[1] = h /\ y[2] = a /\ y[3] = r
  OBVIOUS
<1> HIDE DEF x, y
<1>3. \A i \in 1 .. 3 : i = 1 \/ i = 2 \/ i = 3
  OBVIOUS
<1>4. \A i \in 1 .. 3 : x[i] = y[i]
  BY <1>1, <1>2, <1>3
<1>5. x = y
  BY <1>1, <1>2, <1>4
<1> QED
  BY <1>5 DEF x, y

(* The client's steps keep the frames.                                     *)
LEMMA FrameClient ==
  ASSUME FrameInv, ClientSends \/ ClientSendsAll \/ ClientCloses
  PROVE  FrameRest'
<1>1. UNCHANGED <<state, recvd, rb, parser, served>>
  BY DEF ClientSends, ClientSendsAll, ClientCloses, histVars
<1>2. Laid(sent, out) /\ sent \in Seq(Messages) /\ Len(sent) \in Nat
  BY InStepSent DEF FrameInv
<1>3. CASE ClientSends
  <2>1. PICK m \in Messages : sent' = Append(sent, m) /\ out' = out \o MessageBytes(m)
    BY <1>3 DEF ClientSends, Send, Messages
  <2>2. Laid(sent', out') /\ sent' \in Seq(Messages)
    BY <1>2, <2>1, LaidMore
  <2>3. Len(sent) <= Len(sent') /\ \A j \in 1 .. Len(sent) : sent'[j] = sent[j]
    BY <1>2, <2>1
  <2> QED
    BY <1>1, <2>2, <2>3, FrameMore
<1>4. CASE ClientSendsAll
  <2>1. sent = <<>> /\ out = <<>>
    BY <1>4 DEF ClientSendsAll, FrameInv, HandshakeInv, BytesOK
  <2>2. PICK h \in Hellos, a \in Auths, r \in Requests :
          /\ sent' \in {<<h, a, r>>, <<h, r>>}
          /\ out' = MessageBytes(h) \o (IF Len(sent') = 3 THEN MessageBytes(a) ELSE <<>>) \o MessageBytes(r)
    BY <1>4 DEF ClientSendsAll
  <2>3. h \in Messages /\ a \in Messages /\ r \in Messages
    BY DEF Messages
  <2>4. MessageBytes(h) \in Seq(Nat) /\ MessageBytes(a) \in Seq(Nat)
    BY <2>3, KindOf
  <2>5. Laid(<<h>>, MessageBytes(h)) /\ <<h>> \in Seq(Messages)
    <3>1. Append(sent, h) = <<h>> /\ out \o MessageBytes(h) = MessageBytes(h)
      BY <2>1, <2>4
    <3>2. Laid(Append(sent, h), out \o MessageBytes(h)) /\ Append(sent, h) \in Seq(Messages)
      BY <1>2, <2>3, LaidMore
    <3> QED
      BY <3>1, <3>2
  <2>6. Laid(sent', out') /\ sent' \in Seq(Messages)
    <3>1. CASE sent' = <<h, a, r>>
      <4>1. out' = (MessageBytes(h) \o MessageBytes(a)) \o MessageBytes(r)
        BY <2>2, <3>1
      <4>2. Laid(Append(<<h>>, a), MessageBytes(h) \o MessageBytes(a)) /\ Append(<<h>>, a) \in Seq(Messages)
        BY <2>3, <2>5, LaidMore
      <4>3. Append(<<h>>, a) = <<h, a>>
        BY <2>3, AppendSecond
      <4>4. /\ Laid(Append(<<h, a>>, r), (MessageBytes(h) \o MessageBytes(a)) \o MessageBytes(r))
            /\ Append(<<h, a>>, r) \in Seq(Messages)
        BY <2>3, <4>2, <4>3, LaidMore
      <4>5. Append(<<h, a>>, r) = <<h, a, r>>
        BY <2>3, AppendThird
      <4> QED
        BY <3>1, <4>1, <4>4, <4>5
    <3>2. CASE sent' = <<h, r>>
      <4>1. Len(sent') # 3
        BY <3>2
      <4>2. out' = (MessageBytes(h) \o <<>>) \o MessageBytes(r)
        BY <2>2, <4>1
      <4>3. MessageBytes(h) \o <<>> = MessageBytes(h)
        BY <2>4
      <4>4. Laid(Append(<<h>>, r), MessageBytes(h) \o MessageBytes(r)) /\ Append(<<h>>, r) \in Seq(Messages)
        BY <2>3, <2>5, LaidMore
      <4>5. Append(<<h>>, r) = <<h, r>>
        BY <2>3, AppendSecond
      <4> QED
        BY <3>2, <4>2, <4>3, <4>4, <4>5
    <3> QED
      BY <2>2, <3>1, <3>2
  <2>7. Len(sent) = 0 /\ Len(sent') \in Nat
    BY <2>1, <2>6
  <2>8. Len(sent) <= Len(sent') /\ \A j \in 1 .. Len(sent) : sent'[j] = sent[j]
    BY <2>7
  <2> QED
    BY <1>1, <2>6, <2>8, FrameMore
<1>5. CASE ClientCloses
  <2>1. UNCHANGED <<sent, out>>
    BY <1>5 DEF ClientCloses
  <2> QED
    BY <1>1, <2>1, FrameQuiet
<1> QED
  BY <1>3, <1>4, <1>5

(* The three reading handlers keep the frames.                             *)
LEMMA FrameReads ==
  ASSUME FrameInv, NEW n \in 1 .. BufSize, hello_read(n) \/ auth_read(n) \/ request_read(n)
  PROVE  FrameRest'
<1>1. /\ state \in {"HELLO_READ", "AUTH_READ", "REQUEST_READ"} /\ Recv(n) /\ recvd' = recvd + n
      /\ rb' = AfterRead(n, Parsed(n).n) /\ parser' = Parsed(n).p /\ UNCHANGED <<sent, out>>
  BY DEF hello_read, auth_read, request_read, clientVars
<1>2. \/ state' = "ERROR" /\ UNCHANGED served
      \/ /\ Parsed(n).p.state = "done" /\ state' \in {"HELLO_WRITE", "AUTH_WRITE", "REQUEST_WRITE"}
         /\ Serve(Parsed(n).p, n, Parsed(n).n)
      \/ ~IsDone(Parsed(n).p) /\ UNCHANGED <<state, served>>
  <2>1. CASE hello_read(n)
    BY <2>1 DEF hello_read, IsDone
  <2>2. CASE auth_read(n)
    BY <2>2 DEF auth_read, IsDone
  <2>3. CASE request_read(n)
    BY <2>3 DEF request_read, IsDone
  <2> QED
    BY <2>1, <2>2, <2>3
<1>3. Reading
  BY <1>1 DEF Reading
<1>4. \E kind : ParserOf(kind, parser)
  BY <1>1 DEF FrameInv, HandshakeInv, ParserOK
<1>5. \/ state' = "ERROR" /\ UNCHANGED served
      \/ Parsed(n).p.state = "done" /\ Writing' /\ Serve(Parsed(n).p, n, Parsed(n).n)
      \/ ~IsDone(Parsed(n).p) /\ UNCHANGED <<state, served>>
  BY <1>2 DEF Writing
<1> QED
  BY <1>1, <1>3, <1>4, <1>5, FrameRead

(* The three writing handlers keep the frames.                             *)
LEMMA FrameWrites ==
  ASSUME FrameInv, NEW n \in 1 .. 10, hello_write(n) \/ auth_write(n) \/ request_write(n)
  PROVE  FrameRest'
<1>1. UNCHANGED <<sent, out, recvd, rb, served>>
  BY DEF hello_write, auth_write, request_write, clientVars, histVars
<1>2. Writing
  BY DEF hello_write, auth_write, request_write, Writing
<1>3. \/ UNCHANGED <<state, parser>>
      \/ state' \in {"ERROR", "COPY"}
      \/ state' = "AUTH_READ" /\ parser' = auth_parser_init
      \/ state' = "REQUEST_READ" /\ parser' = request_parser_init
  <2>1. CASE hello_write(n)
    BY <2>1 DEF hello_write
  <2>2. CASE auth_write(n)
    BY <2>2 DEF auth_write
  <2>3. CASE request_write(n)
    BY <2>3 DEF request_write
  <2> QED
    BY <2>1, <2>2, <2>3
<1>4. \/ UNCHANGED <<state, parser>>
      \/ state' = "ERROR"
      \/ Writing /\ state' = "COPY"
      \/ Writing /\ Reading' /\ parser' = ParserInit'
  BY <1>2, <1>3 DEF Reading, ParserInit
<1> QED
  BY <1>1, <1>4, FrameQuiet

(* Every step keeps the frames.                                            *)
LEMMA FrameStep == FrameInv /\ [Next]_vars => FrameInv'
<1> SUFFICES ASSUME FrameInv, [Next]_vars PROVE FrameInv'
  OBVIOUS
<1>1. HandshakeInv'
  BY HandshakeStep DEF FrameInv
<1>2. FrameRest'
  <2>1. CASE ClientSends \/ ClientSendsAll \/ ClientCloses
    BY <2>1, FrameClient
  <2>2. CASE OtherHello \/ UNCHANGED vars \/ \E a \in Range(Accounts) : AddUser(a) \/ DeleteUser(a)
    <3>1. UNCHANGED <<sent, out, recvd, rb, served, state, parser>>
      BY <2>2 DEF OtherHello, AddUser, DeleteUser, vars, clientVars, histVars
    <3> QED
      BY <3>1, FrameQuiet
  <2>3. ASSUME NEW n \in 1 .. BufSize, hello_read(n) \/ auth_read(n) \/ request_read(n)
        PROVE  FrameRest'
    BY <2>3, FrameReads
  <2>4. ASSUME NEW n \in 1 .. 10, hello_write(n) \/ auth_write(n) \/ request_write(n)
        PROVE  FrameRest'
    BY <2>4, FrameWrites
  <2>5. CASE ReadFails \/ WriteFails
    <3>1. UNCHANGED <<sent, out, recvd, rb, served>> /\ state' = "ERROR"
      BY <2>5 DEF ReadFails, WriteFails, clientVars, histVars
    <3> QED
      BY <3>1, FrameQuiet
  <2> QED
    BY <2>1, <2>2, <2>3, <2>4, <2>5 DEF Next
<1> QED
  BY <1>1, <1>2 DEF FrameInv, FrameRest

(* The frames at the start.                                                *)
LEMMA FrameInit == Init => FrameInv
<1> SUFFICES ASSUME Init PROVE FrameInv
  OBVIOUS
<1>1. HandshakeInv
  BY HandshakeInit
<1>2. /\ sent = <<>> /\ out = <<>> /\ served = <<>> /\ state = "HELLO_READ" /\ recvd = 0
      /\ rb = buffer_init /\ parser = hello_parser_init
  BY DEF Init
<1>3. Ends(sent, 0) = 0 /\ EndOf(0) = Ends(sent, 0)
  BY EndsStep DEF EndOf, Ends
<1>4. Laid(sent, out)
  BY <1>2, <1>3 DEF Laid
<1>5. Taken = 0
  BY <1>2 DEF Taken, buffer_init, buffer_read_ptr
<1>6. Reading /\ ~Writing /\ parser = ParserInit /\ ~IsDone(parser)
  BY <1>2 DEF Reading, Writing, ParserInit, IsDone, hello_parser_init
<1>7. Len(served) = 0 /\ Len(sent) = 0 /\ DOMAIN served = {}
  BY <1>2
<1>8. FramesOK
  BY <1>7 DEF FramesOK
<1>9. PlaceOK
  BY <1>3, <1>5, <1>6, <1>7 DEF PlaceOK
<1> QED
  BY <1>1, <1>4, <1>6, <1>8, <1>9 DEF FrameInv

(* The parsers keep to the frames of the messages, for messages of any     *)
(* length cut anywhere, with what follows already in read_buffer or not:   *)
(* between two messages what was taken ends with the last one parsed, and  *)
(* in the middle of one the parser holds what its bytes so far say.        *)
THEOREM HandshakeFrames == Spec => []FrameInv
BY FrameInit, FrameStep, PTL DEF Spec

(* hello_consume, auth_consume and request_consume find in every message   *)
(* what the client put there, to its last byte and no further.             *)
THEOREM HandshakeParsesAsSent == Spec => []ParsedAsSent
<1>1. FrameInv => ParsedAsSent
  <2> SUFFICES ASSUME FrameInv, NEW k \in DOMAIN served,
                      \A j \in 1 .. k : sent[j].kind = served[j].p.kind /\ NoEmptyField(sent[j])
               PROVE  AsSent(sent[k], served[k].p) /\ served[k].upto = EndOf(k)
    BY DEF ParsedAsSent
  <2>1. InStep(k)
    BY DEF InStep, Matches
  <2> QED
    BY <2>1 DEF FrameInv, FramesOK
<1> QED
  BY <1>1, HandshakeFrames, PTL

-----------------------------------------------------------------------------
(* The client that waits for every reply.                                  *)

(* It authenticates while the server no longer asks for it.                *)
SwitchedOff == ToldMethod = SOCKS_HELLO_USERNAME_PASSWORD /\ ~is_auth_on

Polite == ~eager /\ ~SwitchedOff /\ \A j \in DOMAIN sent : WellFormed(sent[j])

Talking == state \in {"HELLO_READ", "HELLO_WRITE", "AUTH_READ", "AUTH_WRITE", "REQUEST_READ"}

(* The client is at most one message ahead, the one the parser of the      *)
(* state is for, and read_buffer is empty between two reads.               *)
InTurn ==
  /\ rb = buffer_init
  /\ InStep(Len(served))
  /\ \/ Len(sent) = Len(served)
     \/ Reading /\ Len(sent) = Len(served) + 1 /\ sent[Len(served) + 1].kind = parser.kind

(* No client is told that it needs no name while one is asked for.         *)
MethodOK(m) == m \in Nat /\ (m = SOCKS_HELLO_NO_AUTHENTICATION_REQUIRED => ~is_auth_on)

(* What is left to send of reply r.                                        *)
Replying(r) == wb # <<>> /\ told \o wb = r

(* What the client was told leads it to send what the state reads.         *)
ToldOK ==
  /\ state = "HELLO_READ" => Len(served) = 0 /\ told = <<>> /\ MethodOK(parser.method)
  /\ state = "HELLO_WRITE" =>
       Len(served) = 1 /\ \E m \in Nat : MethodOK(m) /\ Replying(<<VERSION_SOCKS, m>>)
  /\ state = "AUTH_READ" =>
       /\ Len(served) = 1
       /\ \E m \in Nat : /\ m # SOCKS_HELLO_NO_AUTHENTICATION_REQUIRED
                         /\ Len(sent) = 2 => m = SOCKS_HELLO_USERNAME_PASSWORD
                         /\ told = <<VERSION_SOCKS, m>>
  /\ state = "AUTH_WRITE" =>
       /\ Len(served) = 2
       /\ \E s \in {0, 1} : Replying(<<VERSION_SOCKS, SOCKS_HELLO_USERNAME_PASSWORD, VERSION_AUTH, s>>)
  /\ state = "REQUEST_READ" =>
       \/ Len(served) = 2 /\ told = <<VERSION_SOCKS, SOCKS_HELLO_USERNAME_PASSWORD, VERSION_AUTH, 0>>
       \/ /\ Len(served) = 1
          /\ \E m \in Nat : m # SOCKS_HELLO_USERNAME_PASSWORD /\ told = <<VERSION_SOCKS, m>>

(* A client that is dropped before its request is served was refused.      *)
DropOK == state = "ERROR" /\ ~fin /\ logged = NotLogged => ToldStatus = 1

(* The bytes of the replies.                                               *)
RepliesOK ==
  /\ told \in Seq(Nat) /\ wb \in Seq(Nat)
  /\ state = "REQUEST_WRITE" => Len(wb) \in {2, 4, 6, 8, 10}

PoliteOK == (Talking => InTurn /\ ToldOK) /\ DropOK

PoliteInv == FrameInv /\ RepliesOK /\ (Polite => PoliteOK)

(* on_hello_method picks only the method the switch asks for.              *)
LEMMA HelloMethod ==
  ASSUME NEW p \in HelloParsers, ~IsDone(p), NEW b \in Nat, NEW a \in BOOLEAN,
         p.method = 0 => ~a, NEW q, q = hello_parser_feed(p, b, a)
  PROVE  q.method = 0 => ~a
<1>1. p.state \in {"version", "nmethods", "methods"}
  BY DEF HelloParsers, IsDone
<1>2. CASE p.state = "version"
  BY <1>2 DEF HelloParsers, hello_parser_feed
<1>3. CASE p.state = "nmethods"
  BY <1>3 DEF HelloParsers, hello_parser_feed
<1>4. CASE p.state = "methods"
  <2> DEFINE o == on_hello_method(p, b, a)
  <2>1. o \in HelloParsers /\ (o.method = 0 => ~a)
    BY DEF HelloParsers, on_hello_method, SOCKS_HELLO_USERNAME_PASSWORD,
           SOCKS_HELLO_NO_AUTHENTICATION_REQUIRED
  <2>2. q = [o EXCEPT !.remaining = @ - 1, !.state = IF p.remaining = 1 THEN "done" ELSE @]
    BY <1>4 DEF hello_parser_feed
  <2> HIDE DEF o
  <2>3. q.method = o.method
    BY <2>1, <2>2 DEF HelloParsers
  <2> QED
    BY <2>1, <2>3
<1> QED
  BY <1>1, <1>2, <1>3, <1>4

(* ... however many methods are read at once.                              *)
LEMMA ConsumeMethod ==
  ASSUME NEW p \in HelloParsers, NEW bytes \in Seq(Nat), NEW a \in BOOLEAN, p.method = 0 => ~a
  PROVE  Consume(p, bytes, a).p.method = 0 => ~a
<1> DEFINE L == Len(bytes)
<1>1. L \in Nat
  OBVIOUS
<1>2. PICK run : Runs(p, bytes, a, L, run) /\ Consume(p, bytes, a) = run[L]
  BY ConsumeRuns
<1> DEFINE Good(k) == run[k].p \in HelloParsers /\ (run[k].p.method = 0 => ~a)
           bad == {k \in 0 .. L : ~Good(k)}
<1>3. \A k \in 0 .. L : run[k] = Fed(p, bytes, a, run, k)
  <2>1. run = [k \in 0 .. L |-> Fed(p, bytes, a, run, k)]
    BY <1>2 DEF Runs
  <2> QED
    BY <2>1
<1>4. bad = {}
  <2>1. SUFFICES ASSUME bad # {} PROVE FALSE
    OBVIOUS
  <2>2. PICK m \in bad : \A y \in bad : m <= y
    <3>1. bad \in SUBSET Nat
      BY <1>1
    <3> HIDE DEF bad
    <3> QED
      BY <2>1, <3>1, SmallestExists
  <2>3. m \in 0 .. L /\ run[m] = Fed(p, bytes, a, run, m)
    BY <1>3
  <2>4. CASE m = 0
    <3>1. run[m].p = p
      BY <2>3, <2>4 DEF Fed
    <3> QED
      BY <2>2, <3>1
  <2>5. CASE m # 0
    <3>1. m - 1 \in 0 .. L /\ m - 1 \notin bad
      BY <1>1, <2>2, <2>3, <2>5
    <3>2. Good(m - 1)
      BY <3>1
    <3>3. CASE IsDone(run[m - 1].p)
      <4>1. run[m] = run[m - 1]
        BY <2>3, <2>5, <3>3 DEF Fed
      <4> QED
        BY <2>2, <3>2, <4>1
    <3>4. CASE ~IsDone(run[m - 1].p)
      <4> DEFINE o == run[m - 1].p
                 q == hello_parser_feed(o, bytes[m], a)
      <4>1. run[m] = [p |-> Feed(o, bytes[m], a), n |-> m] /\ o.kind = "hello"
        BY <2>3, <2>5, <3>2, <3>4 DEF Fed, HelloParsers
      <4>2. bytes[m] \in Nat /\ run[m].p = q
        BY <2>3, <2>5, <4>1 DEF Feed
      <4>3. q \in HelloParsers /\ (q.method = 0 => ~a)
        BY <3>2, <3>4, <4>2, HelloFeeds, HelloMethod
      <4> QED
        BY <2>2, <4>2, <4>3
    <3> QED
      BY <3>3, <3>4
  <2> QED
    BY <2>4, <2>5
<1>5. Good(L)
  BY <1>1, <1>4
<1> QED
  BY <1>2, <1>5

(* What a read of a client in turn does: no parser fails, the whole        *)
(* message is taken and read_buffer is empty again.                        *)
LEMMA PoliteRead ==
  ASSUME FrameInv, Reading, InTurn, \A j \in DOMAIN sent : WellFormed(sent[j]),
         NEW n \in 1 .. BufSize, hello_read(n) \/ auth_read(n) \/ request_read(n)
  PROVE  /\ Parsed(n).p.state # "error" /\ Len(sent) = Len(served) + 1
         /\ Len(served') = Len(served) + IF Parsed(n).p.state = "done" THEN 1 ELSE 0
         /\ InTurn'
<1>0. PICK k \in Nat : k = Len(served)
  BY InStepSent
<1> DEFINE bytes == Unread \o SubSeq(out, recvd + 1, recvd + n)
           T == Taken
           q == Parsed(n).p
           used == Parsed(n).n
           m == sent[k + 1]
           kind == parser.kind
<1>1. /\ state \in {"HELLO_READ", "AUTH_READ", "REQUEST_READ"} /\ Recv(n) /\ recvd' = recvd + n
      /\ rb' = AfterRead(n, used) /\ parser' = q /\ UNCHANGED <<sent, out>>
  BY DEF hello_read, auth_read, request_read, clientVars
<1>2. \/ q.state = "error"
      \/ q.state = "done" /\ Serve(q, n, used)
      \/ ~IsDone(q) /\ UNCHANGED <<state, served>>
  <2>1. CASE hello_read(n)
    BY <2>1 DEF hello_read, IsDone
  <2>2. CASE auth_read(n)
    BY <2>2 DEF auth_read, IsDone
  <2>3. CASE request_read(n)
    BY <2>3 DEF request_read, IsDone
  <2> QED
    BY <2>1, <2>2, <2>3
<1>3. ParserOf(kind, parser)
  BY <1>1 DEF FrameInv, HandshakeInv, ParserOK, ParserOf, HelloParsers, AuthParsers, RequestParsers
<1>4. BytesOK /\ ~IsDone(parser)
  BY DEF FrameInv, HandshakeInv
<1>5. Parsed(n) = Consume(parser, bytes, is_auth_on)
  BY DEF Parsed
<1> HIDE DEF bytes
<1>6. /\ bytes \in Seq(Nat) /\ bytes # <<>> /\ T \in Nat /\ T + Len(bytes) = recvd + n
      /\ recvd + n <= Len(out)
  <2>1. Fetched(bytes, n)
    BY <1>1, <1>4, ReadBytes DEF bytes
  <2> QED
    BY ONLY <2>1 DEF Fetched
<1>7. used \in 1 .. Len(bytes) /\ (~IsDone(q) => used = Len(bytes))
  BY <1>4, <1>5, <1>6, ConsumeTakes
<1>8. ParserOf(kind, q)
  BY <1>3, <1>5, <1>6, ConsumeOK
<1>9. q.kind = kind
  BY <1>8 DEF ParserOf, HelloParsers, AuthParsers, RequestParsers
<1>10. /\ k + 1 \in DOMAIN sent /\ m \in Messages /\ T - EndOf(k) \in Nat
       /\ EndOf(k) \in Nat /\ EndOf(k + 1) = EndOf(k) + Len(MessageBytes(m))
       /\ NoEmptyField(m) /\ m.kind = kind => ParserIs(m, q, T - EndOf(k) + used)
  BY <1>0, <1>1, <1>3, ReadInFrame DEF ReadIs, InTurn
<1>11. Len(sent) = k + 1 /\ m.kind = kind
  <2>1. Len(sent) \in Nat /\ k + 1 \in 1 .. Len(sent)
    BY <1>10, InStepSent
  <2>2. Len(sent) # k
    BY <2>1
  <2> QED
    BY <1>0, <2>2 DEF InTurn
<1>12. WellFormed(m) /\ NoEmptyField(m)
  BY <1>10 DEF WellFormed
<1>13. ParserIs(m, q, T - EndOf(k) + used)
  BY <1>10, <1>11, <1>12
<1>14. q.state # "error"
  BY <1>12, <1>13 DEF ParserIs, HelloIs, AuthIs, RequestIs
<1> HIDE DEF q, used, m, kind
<1>15. T + used = recvd + n
  <2> DEFINE l == Len(bytes)
             o == Len(out)
             b == Len(MessageBytes(m))
             e == EndOf(k)
  <2>1. used \in Nat /\ used <= l /\ l \in Nat /\ o \in Nat /\ recvd + n <= o /\ T + l = recvd + n
        /\ T \in Nat /\ recvd \in Nat /\ n \in Nat
    BY <1>4, <1>6, <1>7 DEF BytesOK
  <2>2. CASE ~IsDone(q)
    BY <1>7, <2>1, <2>2
  <2>3. CASE q.state = "done"
    <3>1. T - e + used = b
      BY <1>10, <1>13, <2>3, DoneAsSent
    <3>2. o = e + b
      <4>1. o = Ends(sent, Len(sent)) /\ EndOf(k + 1) = Ends(sent, k + 1)
        BY DEF FrameInv, Laid, EndOf, Ends
      <4> QED
        BY <1>10, <1>11, <4>1
    <3>3. e \in Nat /\ b \in Nat
      BY <1>10, KindOf
    <3> HIDE DEF l, o, b, e
    <3> QED
      BY ONLY <2>1, <3>1, <3>2, <3>3
  <2> QED
    BY <1>14, <2>2, <2>3 DEF IsDone
<1>16. rb' = buffer_init
  <2>1. used \in Nat /\ recvd + n \in Nat /\ T + used <= recvd + n
    <3>1. used \in Nat /\ T \in Nat
      BY <1>6, <1>7
    <3>2. T + used \in Nat
      BY <3>1
    <3> QED
      BY <1>15, <3>1, <3>2
  <2> QED
    BY <1>1, <1>4, <1>15, <2>1, ReadMoves
<1>17. CASE ~IsDone(q) /\ UNCHANGED <<state, served>>
  <2>1. InStep(k)'
    BY <1>0, <1>1, <1>17 DEF InTurn, InStep, Matches
  <2>2. Reading' /\ parser'.kind = kind /\ sent'[k + 1].kind = kind
    BY <1>1, <1>9, <1>11, <1>17 DEF Reading, m
  <2>3. Len(served') = k /\ q.state # "done" /\ Len(sent') = k + 1
    BY <1>0, <1>1, <1>11, <1>17 DEF IsDone
  <2>4. InTurn'
    BY <1>0, <1>16, <1>17, <2>1, <2>2, <2>3 DEF InTurn
  <2> QED
    BY <1>0, <1>11, <1>14, <2>3, <2>4 DEF q
<1>18. CASE q.state = "done" /\ Serve(q, n, used)
  <2> DEFINE e == [p |-> q, upto |-> T + used]
  <2>1. served' = Append(served, e)
    BY <1>18 DEF Serve, Taken
  <2> HIDE DEF e
  <2>2. /\ Len(served') = k + 1 /\ served'[k + 1] = e
        /\ \A j \in 1 .. k : served'[j] = served[j]
    <3> DEFINE S == [p : HelloParsers \cup AuthParsers \cup RequestParsers, upto : Int]
    <3>1. served \in Seq(S) /\ e \in S /\ k = Len(served)
      <4>1. q \in HelloParsers \cup AuthParsers \cup RequestParsers
        BY <1>8 DEF ParserOf
      <4>2. used \in Int /\ T \in Int
        BY <1>6, <1>7
      <4> QED
        BY <1>0, <4>1, <4>2 DEF FrameInv, HandshakeInv, ServedOK, e
    <3> HIDE DEF S
    <3> QED
      BY ONLY <2>1, <3>1
  <2>3. served'[k + 1].p = q
    BY <2>2 DEF e
  <2>4. InStep(k + 1)'
    <3>1. Matches(k + 1)'
      BY <1>1, <1>9, <1>11, <1>12, <2>3 DEF Matches, m
    <3>2. \A j \in 1 .. k : j \in DOMAIN sent => Matches(j)'
      BY <1>0, <1>1, <2>2 DEF InTurn, InStep, Matches
    <3>3. \A j \in 1 .. k + 1 : j \in 1 .. k \/ j = k + 1
      OBVIOUS
    <3> QED
      BY <1>1, <3>1, <3>2, <3>3 DEF InStep
  <2>5. Len(sent') = k + 1
    BY <1>1, <1>11
  <2>6. InTurn'
    BY <1>16, <2>2, <2>4, <2>5 DEF InTurn
  <2> QED
    BY <1>0, <1>11, <1>14, <1>18, <2>2, <2>6 DEF q
<1> QED
  BY <1>2, <1>14, <1>17, <1>18

(* The method and the status in the replies.                               *)
LEMMA ToldTwo ==
  ASSUME NEW m \in Nat, told = <<VERSION_SOCKS, m>>
  PROVE  ToldMethod = m /\ ToldStatus = -1 /\ Len(told) = 2
<1>1. Len(told) = 2 /\ told[2] = m
  OBVIOUS
<1> QED
  BY <1>1 DEF ToldMethod, ToldStatus

(* ... and in both of them.                                                *)
LEMMA ToldFour ==
  ASSUME NEW s \in Nat, told = <<VERSION_SOCKS, SOCKS_HELLO_USERNAME_PASSWORD, VERSION_AUTH, s>>
  PROVE  ToldMethod = SOCKS_HELLO_USERNAME_PASSWORD /\ ToldStatus = s
<1>1. Len(told) = 4 /\ told[2] = SOCKS_HELLO_USERNAME_PASSWORD /\ told[4] = s
  OBVIOUS
<1> QED
  BY <1>1 DEF ToldMethod, ToldStatus

(* Until a reply is out the client has less of it, and the last byte is    *)
(* still to come.                                                          *)
LEMMA ReplyShort ==
  ASSUME RepliesOK, NEW r \in Seq(Nat), Replying(r)
  PROVE  Len(told) \in Nat /\ Len(told) < Len(r) /\ Last(wb) = r[Len(r)]
<1> DEFINE a == Len(told)
           b == Len(wb)
<1>1. a \in Nat /\ b \in Nat /\ b > 0
  BY DEF RepliesOK, Replying
<1>2. Glued(told, wb, r)
  BY Glue DEF RepliesOK, Replying
<1>3. Len(r) = a + b /\ \A x \in 1 .. b : r[a + x] = wb[x]
  BY <1>2 DEF Glued
<1> HIDE DEF a, b
<1>4. a < Len(r) /\ r[Len(r)] = wb[b]
  BY <1>1, <1>3
<1> QED
  BY <1>1, <1>4 DEF a, b, Last

(* A part of a reply goes out.                                             *)
LEMMA Split ==
  ASSUME NEW t \in Seq(Nat), NEW w \in Seq(Nat), NEW n \in 1 .. Len(w)
  PROVE  /\ t \o SubSeq(w, 1, n) \in Seq(Nat) /\ SubSeq(w, n + 1, Len(w)) \in Seq(Nat)
         /\ (t \o SubSeq(w, 1, n)) \o SubSeq(w, n + 1, Len(w)) = t \o w
<1> DEFINE u == SubSeq(w, 1, n)
           v == SubSeq(w, n + 1, Len(w))
           a == Len(t)
           b == Len(w)
           x == t \o u
           y == x \o v
           z == t \o w
<1>1. a \in Nat /\ b \in Nat /\ n \in Nat /\ n >= 1 /\ n <= b
  OBVIOUS
<1>2. u \in Seq(Nat) /\ Len(u) = n /\ \A i \in 1 .. n : u[i] = w[i]
  <2>1. \A i \in 1 .. n : w[i] \in Nat
    BY <1>1
  <2>2. /\ u \in Seq(Nat) /\ Len(u) = IF 1 <= n THEN n - 1 + 1 ELSE 0
        /\ \A i \in 1 .. n - 1 + 1 : u[i] = w[1 + i - 1]
    BY ONLY <1>1, <2>1, SubSeqProperties
  <2>3. n - 1 + 1 = n /\ \A i \in 1 .. n : 1 + i - 1 = i
    BY <1>1
  <2> HIDE DEF u
  <2> QED
    BY <1>1, <2>2, <2>3
<1>3. v \in Seq(Nat) /\ Len(v) = b - n /\ \A i \in 1 .. b - n : v[i] = w[n + i]
  <2> DEFINE c == n + 1
  <2>1. c \in Int /\ b \in Int /\ \A i \in c .. b : w[i] \in Nat
    BY <1>1
  <2>2. b - c + 1 = b - n /\ (IF c <= b THEN b - c + 1 ELSE 0) = b - n /\ \A i \in 1 .. b - n : c + i - 1 = n + i
    BY <1>1
  <2>3. v = SubSeq(w, c, b)
    OBVIOUS
  <2> HIDE DEF b, c, v
  <2>4. /\ v \in Seq(Nat) /\ Len(v) = IF c <= b THEN b - c + 1 ELSE 0
        /\ \A i \in 1 .. b - c + 1 : v[i] = w[c + i - 1]
    BY ONLY <2>1, <2>3, SubSeqProperties
  <2> QED
    BY <2>2, <2>4
<1> HIDE DEF u, v
<1>4. Glued(t, u, x) /\ Glued(t, w, z)
  BY <1>2, Glue
<1>5. x \in Seq(Nat) /\ Len(x) = a + n
  BY <1>2, <1>4 DEF Glued
<1>6. Glued(x, v, y)
  BY <1>3, <1>5, Glue
<1> HIDE DEF x, y, z
<1>7. y \in Seq(Nat) /\ z \in Seq(Nat) /\ Len(y) = a + b /\ Len(z) = a + b
  <2>1. y \in Seq(Nat) /\ Len(y) = (a + n) + (b - n) /\ z \in Seq(Nat) /\ Len(z) = a + b
    BY <1>3, <1>4, <1>5, <1>6 DEF Glued
  <2> HIDE DEF a, b
  <2>2. (a + n) + (b - n) = a + b
    BY ONLY <1>1
  <2> QED
    BY <2>1, <2>2
<1>8. ASSUME NEW i \in 1 .. a + b PROVE y[i] = z[i]
  <2> HIDE DEF a, b
  <2>1. CASE i <= a
    <3>1. i \in 1 .. a /\ i \in 1 .. a + n
      BY <1>1, <2>1
    <3> QED
      BY <1>4, <1>5, <1>6, <3>1 DEF Glued, a
  <2>2. CASE a < i /\ i <= a + n
    <3> DEFINE j == i - a
    <3>1. j \in 1 .. n /\ j \in 1 .. b /\ i = a + j /\ i \in 1 .. a + n
      BY <1>1, <2>2
    <3> HIDE DEF j
    <3> QED
      BY <1>2, <1>4, <1>5, <1>6, <3>1 DEF Glued, a, b
  <2>3. CASE a + n < i
    <3> DEFINE j == i - (a + n)
    <3>1. j \in 1 .. b - n /\ n + j \in 1 .. b /\ i = (a + n) + j /\ i = a + (n + j)
      BY <1>1, <2>3
    <3> HIDE DEF j
    <3>2. y[(a + n) + j] = v[j]
      BY <1>3, <1>5, <1>6, <3>1 DEF Glued
    <3>3. z[a + (n + j)] = w[n + j]
      BY <1>4, <3>1 DEF Glued, a, b
    <3> QED
      BY <1>3, <3>1, <3>2, <3>3
  <2> QED
    BY <1>1, <2>1, <2>2, <2>3
<1> DEFINE c == a + b
<1>9. y = z
  <2>1. Len(y) = c /\ Len(z) = c /\ \A i \in 1 .. c : y[i] = z[i]
    BY <1>7, <1>8
  <2>2. y \in Seq(Nat) /\ z \in Seq(Nat)
    BY <1>7
  <2> HIDE DEF c
  <2>3. Len(y) = Len(z) /\ \A i \in 1 .. Len(y) : y[i] = z[i]
    BY <2>1
  <2> QED
    BY ONLY <2>2, <2>3, SeqEqual
<1> QED
  BY <1>3, <1>5, <1>9 DEF x, y, z, u, v

(* A handler that writes n bytes of a reply.                               *)
LEMMA ReplyMoves ==
  ASSUME RepliesOK, NEW n \in 1 .. Len(wb), told' = told \o SubSeq(wb, 1, n),
         wb' = SubSeq(wb, n + 1, Len(wb))
  PROVE  \A r : Replying(r) => (wb' # <<>> => Replying(r)') /\ (wb' = <<>> => told' = r)
<1>1. told' \in Seq(Nat) /\ wb' \in Seq(Nat) /\ told' \o wb' = told \o wb
  BY Split DEF RepliesOK
<1>2. told' \o <<>> = told'
  BY <1>1
<1> QED
  BY <1>1, <1>2 DEF Replying

(* The replies are bytes, and the client keeps what it was told.           *)
LEMMA RepliesStep ==
  ASSUME FrameInv, RepliesOK, [Next]_vars
  PROVE  /\ RepliesOK'
         /\ Len(told) \in Nat /\ Len(told') \in Nat /\ Len(told) <= Len(told')
         /\ \A i \in 1 .. Len(told) : told'[i] = told[i]
<1>1. SUFFICES RepliesOK' /\ (UNCHANGED told \/ \E n \in DOMAIN wb : told' = told \o SubSeq(wb, 1, n))
  <2>1. CASE UNCHANGED told
    BY <1>1, <2>1 DEF RepliesOK
  <2>2. ASSUME NEW n \in DOMAIN wb, told' = told \o SubSeq(wb, 1, n)
        PROVE  /\ Len(told) \in Nat /\ Len(told') \in Nat /\ Len(told) <= Len(told')
               /\ \A i \in 1 .. Len(told) : told'[i] = told[i]
    <3> DEFINE u == SubSeq(wb, 1, n)
    <3>1. u \in Seq(Nat) /\ told \in Seq(Nat) /\ told' = told \o u
      BY <2>2, SubSeqProperties DEF RepliesOK
    <3> HIDE DEF u
    <3>2. Glued(told, u, told')
      BY <3>1, Glue
    <3>3. Len(told) \in Nat /\ Len(u) \in Nat /\ Len(told') = Len(told) + Len(u)
      BY <3>1, <3>2 DEF Glued
    <3> QED
      BY <3>2, <3>3 DEF Glued
  <2> QED
    BY <1>1, <2>1, <2>2
<1>2. ASSUME UNCHANGED <<told, wb>>, state' = state \/ state' # "REQUEST_WRITE"
      PROVE  RepliesOK' /\ UNCHANGED told
  BY <1>2 DEF RepliesOK
<1>3. ASSUME NEW n \in 1 .. BufSize, hello_read(n)
      PROVE  RepliesOK' /\ UNCHANGED told
  <2>1. /\ UNCHANGED told /\ (UNCHANGED wb \/ wb' = hello_marshall(Parsed(n).p.method))
        /\ state = "HELLO_READ" /\ Recv(n) /\ state' # "REQUEST_WRITE"
    BY <1>3 DEF hello_read
  <2>2. ReadEffect("hello", n)
    BY <2>1, ReadOK DEF FrameInv, HandshakeInv, ParserOK
  <2>3. Parsed(n).p.method \in Nat
    BY <2>2 DEF ReadEffect, ParserOf, HelloParsers
  <2>4. hello_marshall(Parsed(n).p.method) \in Seq(Nat)
    BY <2>3 DEF hello_marshall, VERSION_SOCKS
  <2> QED
    BY <2>1, <2>4 DEF RepliesOK
<1>4. ASSUME NEW n \in 1 .. BufSize, auth_read(n)
      PROVE  RepliesOK' /\ UNCHANGED told
  <2>1. /\ UNCHANGED told /\ (UNCHANGED wb \/ wb' = auth_marshall(1) \/ wb' = auth_marshall(0))
        /\ state' # "REQUEST_WRITE"
    BY <1>4 DEF auth_read
  <2>2. auth_marshall(1) \in Seq(Nat) /\ auth_marshall(0) \in Seq(Nat)
    BY DEF auth_marshall, VERSION_AUTH
  <2> QED
    BY <2>1, <2>2 DEF RepliesOK
<1>5. ASSUME NEW n \in 1 .. BufSize, request_read(n)
      PROVE  RepliesOK' /\ UNCHANGED told
  <2>1. /\ UNCHANGED told
        /\ \/ UNCHANGED wb /\ state' # "REQUEST_WRITE"
           \/ \E s \in {0, 1, 7} : wb' = request_marshall(s)
    BY <1>5 DEF request_read, request_process, status_command_not_supported
  <2>2. \A s \in {0, 1, 7} : request_marshall(s) \in Seq(Nat) /\ Len(request_marshall(s)) = 10
    BY DEF request_marshall, VERSION_SOCKS, socks_req_addrtype_ipv4
  <2> QED
    BY <2>1, <2>2 DEF RepliesOK
<1>6. ASSUME NEW n \in 1 .. 10, hello_write(n) \/ auth_write(n) \/ request_write(n)
      PROVE  RepliesOK' /\ \E i \in DOMAIN wb : told' = told \o SubSeq(wb, 1, i)
  <2>1. told' = told \o SubSeq(wb, 1, n) /\ wb' = SubSeq(wb, n + 1, Len(wb))
    BY <1>6 DEF hello_write, auth_write, request_write
  <2>2. n \in 1 .. Len(wb) /\ DOMAIN wb = 1 .. Len(wb)
    <3>1. CASE hello_write(n) \/ auth_write(n)
      BY <3>1 DEF hello_write, auth_write, RepliesOK
    <3>2. CASE request_write(n)
      BY <3>2 DEF request_write, RepliesOK
    <3> QED
      BY <1>6, <3>1, <3>2
  <2>3. told' \in Seq(Nat) /\ wb' \in Seq(Nat)
    BY <2>1, <2>2, Split DEF RepliesOK
  <2>4. state' = "REQUEST_WRITE" => Len(wb') \in {2, 4, 6, 8, 10}
    <3>1. CASE hello_write(n) \/ auth_write(n)
      BY <3>1 DEF hello_write, auth_write
    <3>2. CASE request_write(n)
      <4>1. state = "REQUEST_WRITE" /\ n \in {2, Len(wb)} /\ (wb' = <<>> => state' # "REQUEST_WRITE")
        BY <3>2 DEF request_write
      <4>2. Len(wb) \in {2, 4, 6, 8, 10}
        BY <4>1 DEF RepliesOK
      <4>3. Len(wb') = Len(wb) - n
        <5> DEFINE a == n + 1
                   b == Len(wb)
        <5>1. a \in Int /\ b \in Int /\ wb \in Seq(Nat) /\ \A i \in a .. b : wb[i] \in Nat
          BY <2>2 DEF RepliesOK
        <5>2. (IF a <= b THEN b - a + 1 ELSE 0) = b - n
          <6>1. b \in Nat /\ n \in Nat /\ n <= b
            BY <2>2 DEF RepliesOK
          <6> HIDE DEF b
          <6> QED
            BY ONLY <6>1 DEF a
        <5>3. wb' = SubSeq(wb, a, b)
          BY <2>1
        <5> HIDE DEF a, b
        <5>4. Len(wb') = IF a <= b THEN b - a + 1 ELSE 0
          BY ONLY <5>1, <5>3, SubSeqProperties
        <5> QED
          BY <5>2, <5>4 DEF b
      <4>4. Len(wb') # 0 \/ wb' = <<>>
        BY <2>3
      <4> DEFINE x == Len(wb)
                 y == Len(wb')
      <4>5. y = x - n /\ x \in {2, 4, 6, 8, 10} /\ n \in {2, x}
        BY <4>1, <4>2, <4>3
      <4> HIDE DEF x, y
      <4>6. y \in {0, 2, 4, 6, 8}
        BY ONLY <4>5
      <4> QED
        BY <4>1, <4>4, <4>6 DEF y
    <3> QED
      BY <1>6, <3>1, <3>2
  <2> QED
    BY <2>1, <2>2, <2>3, <2>4 DEF RepliesOK
<1>7. CASE ClientSends \/ ClientSendsAll \/ ClientCloses \/ OtherHello \/ UNCHANGED vars
  BY <1>2, <1>7 DEF ClientSends, ClientSendsAll, ClientCloses, OtherHello, vars
<1>8. ASSUME NEW a \in Range(Accounts), AddUser(a) \/ DeleteUser(a) PROVE RepliesOK' /\ UNCHANGED told
  BY <1>2, <1>8 DEF AddUser, DeleteUser
<1>9. CASE ReadFails \/ WriteFails
  BY <1>2, <1>9 DEF ReadFails, WriteFails
<1> QED
  BY <1>3, <1>4, <1>5, <1>6, <1>7, <1>8, <1>9 DEF Next

(* A client that is polite was so before.                                  *)
LEMMA PoliteBefore ==
  ASSUME FrameInv, RepliesOK, [Next]_vars, Polite'
  PROVE  Polite /\ (is_auth_on' => is_auth_on) /\ (fin => fin')
<1>1. eager' = eager /\ (fin => fin') /\ (is_auth_on' => is_auth_on)
  <2>1. CASE \E n \in 1 .. BufSize : hello_read(n) \/ auth_read(n) \/ request_read(n)
    BY <2>1 DEF hello_read, auth_read, request_read, clientVars, userVars
  <2>2. CASE \E n \in 1 .. 10 : hello_write(n) \/ auth_write(n) \/ request_write(n)
    BY <2>2 DEF hello_write, auth_write, request_write, clientVars, userVars
  <2>3. CASE ClientSends \/ ClientSendsAll \/ ClientCloses
    BY <2>3 DEF ClientSends, ClientSendsAll, ClientCloses, clientVars, userVars
  <2>4. CASE OtherHello
    <3>1. eager' = eager /\ fin' = fin
      BY <2>4 DEF OtherHello, clientVars
    <3>2. is_auth_on' = (is_auth_on /\ users.n > 0)
      BY <2>4, Zenon DEF OtherHello, HelloReadInit
    <3>3. is_auth_on' => is_auth_on
      BY <3>2, Zenon
    <3> QED
      BY <3>1, <3>3
  <2>5. CASE \E a \in Range(Accounts) : AddUser(a) \/ DeleteUser(a)
    BY <2>5 DEF AddUser, DeleteUser, clientVars
  <2>6. CASE ReadFails \/ WriteFails \/ UNCHANGED vars
    BY <2>6 DEF ReadFails, WriteFails, vars, clientVars, userVars
  <2> QED
    BY <2>1, <2>2, <2>3, <2>4, <2>5, <2>6 DEF Next
<1>2. ~SwitchedOff
  <2>1. SUFFICES ASSUME SwitchedOff PROVE SwitchedOff'
    BY DEF Polite
  <2>2. Len(told) >= 2 /\ told[2] = SOCKS_HELLO_USERNAME_PASSWORD
    BY <2>1 DEF SwitchedOff, ToldMethod, SOCKS_HELLO_USERNAME_PASSWORD
  <2>3. Len(told') >= 2 /\ told'[2] = told[2]
    <3>1. /\ Len(told) \in Nat /\ Len(told') \in Nat /\ Len(told) <= Len(told')
          /\ \A i \in 1 .. Len(told) : told'[i] = told[i]
      BY RepliesStep
    <3> QED
      BY <2>2, <3>1
  <2>4. ~is_auth_on'
    BY <1>1, <2>1 DEF SwitchedOff
  <2> QED
    BY <2>2, <2>3, <2>4 DEF SwitchedOff, ToldMethod
<1>3. ASSUME NEW j \in DOMAIN sent PROVE j \in DOMAIN sent' /\ sent'[j] = sent[j]
  <2>1. UNCHANGED sent \/ (\E m \in Messages : sent' = Append(sent, m)) \/ sent = <<>>
    <3>1. CASE ClientSends \/ ClientSendsAll \/ ClientCloses
      BY <3>1 DEF ClientSends, ClientSendsAll, ClientCloses, Send, Messages
    <3>2. CASE \E n \in 1 .. BufSize : hello_read(n) \/ auth_read(n) \/ request_read(n)
      BY <3>2 DEF hello_read, auth_read, request_read, clientVars
    <3>3. CASE \E n \in 1 .. 10 : hello_write(n) \/ auth_write(n) \/ request_write(n)
      BY <3>3 DEF hello_write, auth_write, request_write, clientVars
    <3>4. CASE OtherHello \/ ReadFails \/ WriteFails \/ UNCHANGED vars
                 \/ \E a \in Range(Accounts) : AddUser(a) \/ DeleteUser(a)
      BY <3>4 DEF OtherHello, AddUser, DeleteUser, ReadFails, WriteFails, vars, clientVars
    <3> QED
      BY <3>1, <3>2, <3>3, <3>4 DEF Next
  <2>2. sent \in Seq(Messages)
    BY InStepSent
  <2> QED
    BY <2>1, <2>2
<1> QED
  BY <1>1, <1>2, <1>3 DEF Polite

(* A step of others changes no turn.                                       *)
LEMMA PoliteQuiet ==
  ASSUME PoliteOK, UNCHANGED <<sent, told, state, rb, wb, parser, served, logged>>,
         is_auth_on' => is_auth_on, fin => fin'
  PROVE  PoliteOK'
<1>1. (Talking' <=> Talking) /\ (InTurn => InTurn')
  BY DEF Talking, InTurn, InStep, Matches, Reading
<1>2. \A m : MethodOK(m) => MethodOK(m)'
  BY DEF MethodOK
<1>3. \A r : Replying(r) => Replying(r)'
  BY DEF Replying
<1>4. ToldOK => ToldOK'
  BY <1>2, <1>3 DEF ToldOK
<1>5. DropOK'
  BY DEF PoliteOK, DropOK, ToldStatus, ToldMethod
<1> QED
  BY <1>1, <1>4, <1>5 DEF PoliteOK

(* The client's next message is the one the parser waits for.              *)
LEMMA PoliteSends ==
  ASSUME FrameInv, RepliesOK, PoliteOK, ClientSends
  PROVE  PoliteOK'
<1>1. UNCHANGED <<told, state, rb, wb, parser, served, logged, is_auth_on, fin>>
  BY DEF ClientSends, userVars, histVars
<1>2. /\ sent \in Seq(Messages) /\ Len(sent) \in Nat /\ Len(served) \in Nat
      /\ DOMAIN sent = 1 .. Len(sent)
  BY InStepSent
<1>3. DropOK'
  BY <1>1 DEF PoliteOK, DropOK, ToldStatus, ToldMethod
<1>4. PICK m \in Messages :
        /\ sent' = Append(sent, m)
        /\ \/ sent = <<>> /\ m \in Hellos
           \/ Len(sent) = 1 /\ ToldMethod = SOCKS_HELLO_USERNAME_PASSWORD /\ m \in Auths
           \/ Len(sent) = 1 /\ ToldMethod = SOCKS_HELLO_NO_AUTHENTICATION_REQUIRED /\ m \in Requests
           \/ Len(sent) = 2 /\ ToldStatus = 0 /\ m \in Requests
  BY DEF ClientSends, Send, Messages
<1>5. sent = <<>> => Len(sent) = 0
  OBVIOUS
<1>6. /\ m \in Hellos => m.kind = "hello"
      /\ m \in Auths => m.kind = "auth"
      /\ m \in Requests => m.kind = "request"
  BY HandshakeAssumption DEF HandshakeAssumption
<1>7. SUFFICES ASSUME Talking PROVE InTurn' /\ ToldOK'
  BY <1>1, <1>3 DEF PoliteOK, Talking
<1>8. InTurn /\ ToldOK
  BY <1>7 DEF PoliteOK
<1>9. Len(sent') = Len(sent) + 1 /\ sent'[Len(sent) + 1] = m /\ \A j \in 1 .. Len(sent) : sent'[j] = sent[j]
  BY <1>2, <1>4
<1>10. ASSUME Reading, Len(sent) = Len(served), m.kind = parser.kind
       PROVE  InTurn'
  <2>1. InStep(Len(served))'
    BY <1>1, <1>2, <1>8, <1>9, <1>10 DEF InTurn, InStep, Matches
  <2>2. Reading'
    BY <1>1, <1>10 DEF Reading
  <2> QED
    BY <1>1, <1>8, <1>9, <1>10, <2>1, <2>2 DEF InTurn
<1>11. CASE state = "HELLO_READ"
  <2>1. Len(served) = 0 /\ told = <<>> /\ MethodOK(parser.method)
    BY <1>8, <1>11 DEF ToldOK
  <2>2. ToldMethod = -1 /\ ToldStatus = -1
    BY <2>1 DEF ToldMethod, ToldStatus, SOCKS_HELLO_USERNAME_PASSWORD
  <2>3. sent = <<>> /\ m \in Hellos
    BY <1>4, <2>2 DEF SOCKS_HELLO_USERNAME_PASSWORD, SOCKS_HELLO_NO_AUTHENTICATION_REQUIRED
  <2>4. parser.kind = "hello" /\ Reading
    BY <1>11 DEF FrameInv, HandshakeInv, ParserOK, ParserOf, HelloParsers, Reading
  <2>5. InTurn'
    BY <1>5, <1>6, <1>10, <2>1, <2>3, <2>4
  <2>6. ToldOK'
    BY <1>1, <1>11, <2>1 DEF ToldOK, MethodOK
  <2> QED
    BY <2>5, <2>6
<1>12. CASE state = "HELLO_WRITE"
  <2>1. PICK i \in Nat : Replying(<<VERSION_SOCKS, i>>)
    BY <1>8, <1>12 DEF ToldOK
  <2>2. <<VERSION_SOCKS, i>> \in Seq(Nat) /\ Len(<<VERSION_SOCKS, i>>) = 2
    BY DEF VERSION_SOCKS
  <2>3. Len(told) \in Nat /\ Len(told) < 2
    BY <2>1, <2>2, ReplyShort
  <2>4. ToldMethod = -1 /\ ToldStatus = -1
    BY <2>3 DEF ToldMethod, ToldStatus, SOCKS_HELLO_USERNAME_PASSWORD
  <2>5. Len(sent) = 1
    BY <1>8, <1>12 DEF ToldOK, InTurn, Reading
  <2> QED
    BY <1>4, <1>5, <2>4, <2>5 DEF SOCKS_HELLO_USERNAME_PASSWORD, SOCKS_HELLO_NO_AUTHENTICATION_REQUIRED
<1>13. CASE state = "AUTH_READ"
  <2>1. Len(served) = 1
    BY <1>8, <1>13 DEF ToldOK
  <2>2. PICK i \in Nat : i # SOCKS_HELLO_NO_AUTHENTICATION_REQUIRED /\ told = <<VERSION_SOCKS, i>>
    BY <1>8, <1>13 DEF ToldOK
  <2>3. ToldMethod = i /\ ToldStatus = -1
    BY <2>2, ToldTwo
  <2>4. Len(sent) \in {1, 2}
    BY <1>8, <2>1 DEF InTurn
  <2>5. Len(sent) = 1 /\ i = SOCKS_HELLO_USERNAME_PASSWORD /\ m \in Auths
    <3>1. Len(sent) # 0 /\ sent # <<>> /\ ToldStatus # 0
      BY <1>5, <2>3, <2>4
    <3>2. ToldMethod # SOCKS_HELLO_NO_AUTHENTICATION_REQUIRED
      BY <2>2, <2>3
    <3>3. Len(sent) = 1 /\ ToldMethod = SOCKS_HELLO_USERNAME_PASSWORD /\ m \in Auths
      BY <1>4, <3>1, <3>2
    <3> QED
      BY <2>3, <3>3
  <2>6. parser.kind = "auth" /\ Reading
    BY <1>13 DEF FrameInv, HandshakeInv, ParserOK, ParserOf, AuthParsers, Reading
  <2>7. InTurn'
    BY <1>6, <1>10, <2>1, <2>5, <2>6
  <2>8. ToldOK'
    BY <1>1, <1>13, <2>1, <2>2, <2>5 DEF ToldOK
  <2> QED
    BY <2>7, <2>8
<1>14. CASE state = "AUTH_WRITE"
  <2> DEFINE r(s) == <<VERSION_SOCKS, SOCKS_HELLO_USERNAME_PASSWORD, VERSION_AUTH, s>>
  <2>1. PICK s \in {0, 1} : Replying(r(s))
    BY <1>8, <1>14 DEF ToldOK
  <2>2. r(s) \in Seq(Nat) /\ Len(r(s)) = 4
    BY DEF VERSION_SOCKS, VERSION_AUTH, SOCKS_HELLO_USERNAME_PASSWORD
  <2> HIDE DEF r
  <2>3. Len(told) \in Nat /\ Len(told) < 4
    BY <2>1, <2>2, ReplyShort
  <2>4. ToldStatus = -1
    BY <2>3 DEF ToldStatus
  <2>5. Len(sent) = 2
    BY <1>8, <1>14 DEF ToldOK, InTurn, Reading
  <2> QED
    BY <1>4, <1>5, <2>4, <2>5
<1>15. CASE state = "REQUEST_READ"
  <2>1. parser.kind = "request" /\ Reading
    BY <1>15 DEF FrameInv, HandshakeInv, ParserOK, ParserOf, RequestParsers, Reading
  <2>2. Len(sent) = Len(served) \/ Len(sent) = Len(served) + 1
    BY <1>8 DEF InTurn
  <2>3. ToldOK'
    BY <1>1, <1>8, <1>15 DEF ToldOK
  <2>4. CASE /\ Len(served) = 2
             /\ told = <<VERSION_SOCKS, SOCKS_HELLO_USERNAME_PASSWORD, VERSION_AUTH, 0>>
    <3>1. Len(sent) \in {2, 3}
      BY <2>2, <2>4
    <3>2. Len(sent) = 2 /\ m \in Requests
      <4>1. sent = <<>> \/ Len(sent) = 1 \/ (Len(sent) = 2 /\ m \in Requests)
        BY <1>4, Zenon
      <4> QED
        BY ONLY <1>5, <3>1, <4>1
    <3> QED
      BY <1>6, <1>10, <2>1, <2>3, <2>4, <3>2
  <2>5. CASE /\ Len(served) = 1
             /\ \E i \in Nat : i # SOCKS_HELLO_USERNAME_PASSWORD /\ told = <<VERSION_SOCKS, i>>
    <3>1. Len(sent) \in {1, 2}
      BY <2>2, <2>5
    <3>2. ToldMethod # SOCKS_HELLO_USERNAME_PASSWORD /\ ToldStatus = -1
      BY <2>5, ToldTwo
    <3>3. Len(sent) = 1 /\ m \in Requests
      BY <1>4, <1>5, <3>1, <3>2
    <3> QED
      BY <1>6, <1>10, <2>1, <2>3, <2>5, <3>3
  <2> QED
    BY <1>8, <1>15, <2>4, <2>5 DEF ToldOK
<1> QED
  BY <1>7, <1>11, <1>12, <1>13, <1>14, <1>15 DEF Talking

(* Two bytes after two.                                                    *)
LEMMA ConcatPairs ==
  ASSUME NEW a \in Nat, NEW b \in Nat, NEW c \in Nat, NEW d \in Nat
  PROVE  <<a, b>> \o <<c, d>> = <<a, b, c, d>>
<1> DEFINE s == <<a, b>>
           t == <<c, d>>
           z == s \o t
           y == <<a, b, c, d>>
<1>1. s \in Seq(Nat) /\ Len(s) = 2 /\ s[1] = a /\ s[2] = b
  OBVIOUS
<1>2. t \in Seq(Nat) /\ Len(t) = 2 /\ t[1] = c /\ t[2] = d
  OBVIOUS
<1>3. y \in Seq(Nat) /\ Len(y) = 4 /\ y[1] = a /\ y[2] = b /\ y[3] = c /\ y[4] = d
  OBVIOUS
<1> HIDE DEF s, t, y
<1>4. Glued(s, t, z)
  BY <1>1, <1>2, Glue
<1> HIDE DEF z
<1>5. z \in Seq(Nat) /\ Len(z) = 4 /\ z[1] = a /\ z[2] = b /\ z[3] = c /\ z[4] = d
  BY <1>1, <1>2, <1>4 DEF Glued
<1>6. \A i \in 1 .. 4 : i \in {1, 2, 3, 4}
  OBVIOUS
<1>7. \A i \in 1 .. 4 : z[i] = y[i]
  BY <1>3, <1>5, <1>6
<1>8. z = y
  BY <1>3, <1>5, <1>7, SeqEqual
<1> QED
  BY <1>8 DEF z, s, t, y

(* The handlers that read keep to the turns.                               *)
LEMMA PoliteReads ==
  ASSUME FrameInv, RepliesOK, PoliteOK, \A j \in DOMAIN sent : WellFormed(sent[j]),
         NEW n \in 1 .. BufSize, hello_read(n) \/ auth_read(n) \/ request_read(n)
  PROVE  PoliteOK'
<1> DEFINE q == Parsed(n).p
<1>1. Reading /\ Talking /\ UNCHANGED <<told, is_auth_on, sent>> /\ parser' = q
  BY DEF hello_read, auth_read, request_read, Reading, Talking, clientVars, userVars
<1>2. InTurn /\ ToldOK
  BY <1>1 DEF PoliteOK
<1>3. /\ q.state # "error" /\ Len(sent) = Len(served) + 1
      /\ Len(served') = Len(served) + IF q.state = "done" THEN 1 ELSE 0
      /\ InTurn'
  BY <1>1, <1>2, PoliteRead
<1>4. told \in Seq(Nat) /\ Len(served) \in Nat
  BY InStepSent DEF RepliesOK
<1>5. told = <<>> => \A w \in Seq(Nat) : told \o w = w
  BY <1>4
<1>6. CASE hello_read(n)
  <2>1. state = "HELLO_READ" /\ Recv(n)
    BY <1>6 DEF hello_read
  <2>2. Len(served) = 0 /\ told = <<>> /\ MethodOK(parser.method)
    BY <1>2, <2>1 DEF ToldOK
  <2>3. MethodOK(q.method)
    <3> DEFINE bytes == Unread \o SubSeq(out, recvd + 1, recvd + n)
    <3>1. parser \in HelloParsers /\ BytesOK /\ is_auth_on \in BOOLEAN
      BY <2>1 DEF FrameInv, HandshakeInv, ParserOK, ParserOf, AccessOK
    <3>2. bytes \in Seq(Nat)
      BY <2>1, <3>1, ReadBytes DEF Fetched
    <3>3. q = Consume(parser, bytes, is_auth_on).p
      BY DEF Parsed
    <3> HIDE DEF bytes, q
    <3>4. q \in HelloParsers
      BY <3>1, <3>2, <3>3, ConsumeOK DEF ParserOf
    <3>5. q.method = 0 => ~is_auth_on
      BY <2>2, <3>1, <3>2, <3>3, ConsumeMethod DEF MethodOK, SOCKS_HELLO_NO_AUTHENTICATION_REQUIRED
    <3> QED
      BY <3>4, <3>5 DEF MethodOK, HelloParsers, SOCKS_HELLO_NO_AUTHENTICATION_REQUIRED
  <2>4. CASE q.state = "done"
    <3>1. state' = "HELLO_WRITE" /\ wb' = <<VERSION_SOCKS, q.method>>
      BY <1>6, <2>4 DEF hello_read, hello_marshall
    <3>2. Len(served') = 1
      BY <1>3, <2>2, <2>4
    <3> HIDE DEF q
    <3>3. PICK m \in Nat : m = q.method
      BY <2>3 DEF MethodOK
    <3>4. wb' = <<VERSION_SOCKS, m>> /\ wb' \in Seq(Nat) /\ wb' # <<>>
      BY <3>1, <3>3 DEF VERSION_SOCKS
    <3>5. Replying(<<VERSION_SOCKS, m>>)'
      BY <1>1, <1>5, <2>2, <3>4 DEF Replying
    <3>6. MethodOK(m)'
      BY <1>1, <2>3, <3>3 DEF MethodOK
    <3> QED
      BY <1>3, <3>1, <3>2, <3>5, <3>6 DEF PoliteOK, ToldOK, DropOK
  <2>5. CASE q.state # "done"
    <3>1. state' = "HELLO_READ" /\ UNCHANGED served
      BY <1>3, <1>6, <2>1, <2>5 DEF hello_read
    <3>2. MethodOK(parser.method)'
      BY <1>1, <2>3 DEF MethodOK
    <3> HIDE DEF q
    <3> QED
      BY <1>1, <1>3, <2>2, <3>1, <3>2 DEF PoliteOK, ToldOK, DropOK
  <2> QED
    BY <2>4, <2>5
<1>7. CASE auth_read(n)
  <2>1. state = "AUTH_READ"
    BY <1>7 DEF auth_read
  <2>2. Len(served) = 1 /\ Len(sent) = 2 /\ told = <<VERSION_SOCKS, SOCKS_HELLO_USERNAME_PASSWORD>>
    <3>1. Len(served) = 1
      BY <1>2, <2>1 DEF ToldOK
    <3>2. Len(sent) = 2
      BY <1>3, <3>1
    <3> QED
      BY <1>2, <2>1, <3>1, <3>2 DEF ToldOK
  <2>3. CASE q.state = "done"
    <3>1. state' = "AUTH_WRITE" /\ \E s \in {0, 1} : wb' = <<VERSION_AUTH, s>>
      BY <1>7, <2>3 DEF auth_read, auth_marshall
    <3>2. PICK s \in {0, 1} : wb' = <<VERSION_AUTH, s>>
      BY <3>1
    <3>3. Len(served') = 2
      BY <1>3, <2>2, <2>3
    <3>4. Replying(<<VERSION_SOCKS, SOCKS_HELLO_USERNAME_PASSWORD, VERSION_AUTH, s>>)'
      <4> DEFINE v == <<VERSION_SOCKS, SOCKS_HELLO_USERNAME_PASSWORD, VERSION_AUTH, s>>
                 u == told \o <<VERSION_AUTH, s>>
      <4>1. VERSION_SOCKS \in Nat /\ SOCKS_HELLO_USERNAME_PASSWORD \in Nat /\ VERSION_AUTH \in Nat /\ s \in Nat
        BY DEF VERSION_SOCKS, SOCKS_HELLO_USERNAME_PASSWORD, VERSION_AUTH
      <4>2. u = v
        BY <2>2, <4>1, ConcatPairs
      <4>3. told' \o wb' = u /\ wb' # <<>>
        BY <1>1, <3>2
      <4> QED
        BY <4>2, <4>3 DEF Replying
    <3> HIDE DEF q
    <3> QED
      BY <1>3, <3>1, <3>3, <3>4 DEF PoliteOK, ToldOK, DropOK
  <2>4. CASE q.state # "done"
    <3>1. state' = "AUTH_READ" /\ UNCHANGED served
      BY <1>3, <1>7, <2>1, <2>4 DEF auth_read
    <3> HIDE DEF q
    <3>2. Len(sent') = 2 /\ told' = <<VERSION_SOCKS, SOCKS_HELLO_USERNAME_PASSWORD>> /\ Len(served') = 1
      BY <1>1, <2>2, <3>1
    <3>3. ToldOK'
      <4>1. SOCKS_HELLO_USERNAME_PASSWORD \in Nat
            /\ SOCKS_HELLO_USERNAME_PASSWORD # SOCKS_HELLO_NO_AUTHENTICATION_REQUIRED
        BY DEF SOCKS_HELLO_USERNAME_PASSWORD, SOCKS_HELLO_NO_AUTHENTICATION_REQUIRED
      <4> QED
        BY <3>1, <3>2, <4>1 DEF ToldOK
    <3> QED
      BY <1>3, <3>1, <3>3 DEF PoliteOK, DropOK
  <2> QED
    BY <2>3, <2>4
<1>8. CASE request_read(n)
  <2>1. state = "REQUEST_READ"
    BY <1>8 DEF request_read
  <2>2. CASE q.state = "done"
    <3>1. state' = "REQUEST_WRITE"
      BY <1>8, <2>2 DEF request_read
    <3> QED
      BY <3>1 DEF PoliteOK, Talking, DropOK
  <2>3. CASE q.state # "done"
    <3>1. state' = "REQUEST_READ" /\ UNCHANGED served
      BY <1>3, <1>8, <2>1, <2>3 DEF request_read
    <3>2. ToldOK'
      BY <1>1, <1>2, <2>1, <3>1 DEF ToldOK
    <3> HIDE DEF q
    <3> QED
      BY <1>3, <3>1, <3>2 DEF PoliteOK, DropOK
  <2> QED
    BY <2>2, <2>3
<1> QED
  BY <1>6, <1>7, <1>8

(* The handlers that write keep to the turns: the client is told what the  *)
(* next state reads, unless authentication was turned off meanwhile.       *)
LEMMA PoliteWrites ==
  ASSUME FrameInv, RepliesOK, PoliteOK, ~SwitchedOff',
         NEW n \in 1 .. 10, hello_write(n) \/ auth_write(n) \/ request_write(n)
  PROVE  PoliteOK'
<1>1. UNCHANGED <<sent, rb, served, is_auth_on, fin>>
  BY DEF hello_write, auth_write, request_write, clientVars, userVars, histVars
<1>2. told' = told \o SubSeq(wb, 1, n) /\ wb' = SubSeq(wb, n + 1, Len(wb))
  BY DEF hello_write, auth_write, request_write
<1>3. CASE hello_write(n)
  <2>1. state = "HELLO_WRITE" /\ n \in 1 .. Len(wb)
    BY <1>3 DEF hello_write
  <2>2. InTurn /\ ToldOK
    BY <2>1 DEF PoliteOK, Talking
  <2>3. Len(served) = 1 /\ Len(sent) = 1
    BY <2>1, <2>2 DEF ToldOK, InTurn, Reading
  <2>4. PICK m \in Nat : MethodOK(m) /\ Replying(<<VERSION_SOCKS, m>>)
    BY <2>1, <2>2 DEF ToldOK
  <2>5. /\ wb' # <<>> => Replying(<<VERSION_SOCKS, m>>)'
        /\ wb' = <<>> => told' = <<VERSION_SOCKS, m>>
    BY <1>2, <2>1, <2>4, ReplyMoves
  <2>6. InTurn'
    <3>1. InStep(Len(served))'
      BY <1>1, <2>2 DEF InTurn, InStep, Matches
    <3> QED
      BY <1>1, <2>2, <2>3, <3>1 DEF InTurn
  <2>7. CASE wb' # <<>>
    <3>1. UNCHANGED state
      BY <1>3, <2>7 DEF hello_write
    <3>2. MethodOK(m)'
      BY <1>1, <2>4 DEF MethodOK
    <3>3. ToldOK'
      BY <1>1, <2>1, <2>3, <2>5, <2>7, <3>1, <3>2 DEF ToldOK
    <3> QED
      BY <2>1, <2>6, <3>1, <3>3 DEF PoliteOK, DropOK
  <2>8. CASE wb' = <<>>
    <3>1. CASE is_auth_on
      <4>1. state' = "AUTH_READ"
        BY <1>3, <2>8, <3>1 DEF hello_write
      <4>2. m # SOCKS_HELLO_NO_AUTHENTICATION_REQUIRED
        BY <2>4, <3>1 DEF MethodOK
      <4>3. ToldOK'
        BY <1>1, <2>3, <2>5, <2>8, <4>1, <4>2 DEF ToldOK
      <4> QED
        BY <2>6, <4>1, <4>3 DEF PoliteOK, DropOK
    <3>2. CASE ~is_auth_on
      <4>1. state' = "REQUEST_READ"
        BY <1>3, <2>8, <3>2 DEF hello_write
      <4>2. ToldMethod' = m
        <5>1. told' = <<VERSION_SOCKS, m>>
          BY <2>5, <2>8
        <5>2. Len(told') = 2 /\ told'[2] = m
          BY <5>1
        <5> QED
          BY <5>2 DEF ToldMethod
      <4>3. m # SOCKS_HELLO_USERNAME_PASSWORD
        BY <1>1, <3>2, <4>2 DEF SwitchedOff
      <4>4. ToldOK'
        BY <1>1, <2>3, <2>5, <2>8, <4>1, <4>3 DEF ToldOK
      <4> QED
        BY <2>6, <4>1, <4>4 DEF PoliteOK, DropOK
    <3> QED
      BY <3>1, <3>2
  <2> QED
    BY <2>7, <2>8
<1>4. CASE auth_write(n)
  <2> DEFINE r(s) == <<VERSION_SOCKS, SOCKS_HELLO_USERNAME_PASSWORD, VERSION_AUTH, s>>
  <2>1. state = "AUTH_WRITE" /\ n \in 1 .. Len(wb)
    BY <1>4 DEF auth_write
  <2>2. InTurn /\ ToldOK
    BY <2>1 DEF PoliteOK, Talking
  <2>3. Len(served) = 2 /\ Len(sent) = 2
    BY <2>1, <2>2 DEF ToldOK, InTurn, Reading
  <2>4. PICK s \in {0, 1} : Replying(r(s))
    BY <2>1, <2>2 DEF ToldOK
  <2>5. r(s) \in Seq(Nat) /\ Len(r(s)) = 4 /\ r(s)[4] = s
    BY DEF VERSION_SOCKS, VERSION_AUTH, SOCKS_HELLO_USERNAME_PASSWORD
  <2> HIDE DEF r
  <2>6. (wb' # <<>> => Replying(r(s))') /\ (wb' = <<>> => told' = r(s))
    BY <1>2, <2>1, <2>4, ReplyMoves
  <2>7. Last(wb) = s
    BY <2>4, <2>5, ReplyShort
  <2>8. InTurn'
    <3>1. InStep(Len(served))'
      BY <1>1, <2>2 DEF InTurn, InStep, Matches
    <3> QED
      BY <1>1, <2>2, <2>3, <3>1 DEF InTurn
  <2>9. CASE wb' # <<>>
    <3>1. UNCHANGED state
      BY <1>4, <2>9 DEF auth_write
    <3>2. ToldOK'
      BY <1>1, <2>1, <2>3, <2>6, <2>9, <3>1 DEF ToldOK, r
    <3> QED
      BY <2>1, <2>8, <3>1, <3>2 DEF PoliteOK, DropOK
  <2>10. CASE wb' = <<>> /\ s = 0
    <3>1. state' = "REQUEST_READ"
      BY <1>4, <2>7, <2>10 DEF auth_write
    <3>2. ToldOK'
      BY <1>1, <2>3, <2>6, <2>10, <3>1 DEF ToldOK, r
    <3> QED
      BY <2>8, <3>1, <3>2 DEF PoliteOK, DropOK
  <2>11. CASE wb' = <<>> /\ s = 1
    <3>1. state' = "ERROR"
      BY <1>4, <2>7, <2>11 DEF auth_write
    <3>2. told' = r(1)
      BY <2>6, <2>11
    <3>3. Len(told') = 4 /\ told'[2] = SOCKS_HELLO_USERNAME_PASSWORD /\ told'[4] = 1
      BY <3>2 DEF r
    <3>4. ToldStatus' = 1
      BY <3>3 DEF ToldStatus, ToldMethod
    <3> QED
      BY <3>1, <3>4 DEF PoliteOK, Talking, DropOK
  <2> QED
    BY <2>9, <2>10, <2>11
<1>5. CASE request_write(n)
  <2>1. \/ state' = "REQUEST_WRITE"
        \/ state' = "COPY"
        \/ state' = "ERROR" /\ logged' = log_request
    BY <1>5 DEF request_write
  <2>2. log_request # NotLogged
    <3>1. log_request.who \in {"<anonymous>", "(null)", "user"}
      BY DEF log_request, Anonymous, Shows
    <3>2. NotLogged.who = "nothing"
      BY DEF NotLogged, Shows
    <3> QED
      BY <3>1, <3>2
  <2> QED
    BY <2>1, <2>2 DEF PoliteOK, Talking, DropOK
<1> QED
  BY <1>3, <1>4, <1>5

(* A polite client that has not closed its side is not given up: there is  *)
(* always room in read_buffer.                                             *)
LEMMA PoliteFails ==
  ASSUME FrameInv, PoliteOK, ReadFails \/ WriteFails
  PROVE  PoliteOK'
<1>1. state' = "ERROR" /\ fin' = fin
  BY DEF ReadFails, WriteFails, clientVars
<1>2. fin
  <2>1. CASE WriteFails
    BY <2>1 DEF WriteFails
  <2>2. CASE ReadFails
    <3>1. Reading /\ Talking /\ RecvNothing
      BY <2>2 DEF ReadFails, Reading, Talking
    <3>2. rb = buffer_init
      BY <3>1 DEF PoliteOK, InTurn
    <3>3. buffer_write_ptr(rb) # 0
      BY <3>2, BufSizeAssumption DEF buffer_init, buffer_write_ptr, BufSizeAssumption
    <3> QED
      BY <3>1, <3>3 DEF RecvNothing
  <2> QED
    BY <2>1, <2>2
<1> QED
  BY <1>1, <1>2 DEF PoliteOK, Talking, DropOK

(* Every step keeps the turns of a polite client.                          *)
LEMMA PoliteStep == PoliteInv /\ [Next]_vars => PoliteInv'
<1> SUFFICES ASSUME PoliteInv, [Next]_vars PROVE PoliteInv'
  OBVIOUS
<1>1. FrameInv /\ FrameInv' /\ RepliesOK /\ RepliesOK'
  BY FrameStep, RepliesStep DEF PoliteInv
<1>2. SUFFICES ASSUME Polite' PROVE PoliteOK'
  BY <1>1 DEF PoliteInv
<1>3. Polite /\ (is_auth_on' => is_auth_on) /\ (fin => fin')
  BY <1>1, <1>2, PoliteBefore
<1>4. PoliteOK /\ ~eager /\ ~SwitchedOff' /\ \A j \in DOMAIN sent : WellFormed(sent[j])
  BY <1>2, <1>3 DEF PoliteInv, Polite
<1>5. CASE ClientSends
  BY <1>1, <1>4, <1>5, PoliteSends
<1>6. CASE ClientSendsAll
  BY <1>4, <1>6 DEF ClientSendsAll
<1>7. CASE ClientCloses \/ OtherHello \/ UNCHANGED vars \/ \E a \in Range(Accounts) : AddUser(a) \/ DeleteUser(a)
  <2>1. UNCHANGED <<sent, told, state, rb, wb, parser, served, logged>>
    BY <1>7 DEF ClientCloses, OtherHello, AddUser, DeleteUser, vars, clientVars, histVars
  <2> QED
    BY <1>3, <1>4, <2>1, PoliteQuiet
<1>8. CASE \E n \in 1 .. BufSize : hello_read(n) \/ auth_read(n) \/ request_read(n)
  BY <1>1, <1>4, <1>8, PoliteReads
<1>9. CASE \E n \in 1 .. 10 : hello_write(n) \/ auth_write(n) \/ request_write(n)
  BY <1>1, <1>4, <1>9, PoliteWrites
<1>10. CASE ReadFails \/ WriteFails
  BY <1>1, <1>4, <1>10, PoliteFails
<1> QED
  BY <1>5, <1>6, <1>7, <1>8, <1>9, <1>10 DEF Next

(* The turns at the start.                                                 *)
LEMMA PoliteInit == Init => PoliteInv
<1> SUFFICES ASSUME Init PROVE PoliteInv
  OBVIOUS
<1>1. FrameInv
  BY FrameInit
<1>2. /\ sent = <<>> /\ told = <<>> /\ wb = <<>> /\ served = <<>> /\ state = "HELLO_READ"
      /\ rb = buffer_init /\ parser = hello_parser_init
  BY DEF Init
<1>3. RepliesOK
  BY <1>2 DEF RepliesOK
<1>4. MethodOK(parser.method)
  BY <1>2 DEF MethodOK, hello_parser_init, SOCKS_HELLO_NO_ACCEPTABLE_METHODS,
              SOCKS_HELLO_NO_AUTHENTICATION_REQUIRED
<1>5. InTurn
  BY <1>2 DEF InTurn, InStep
<1>6. ToldOK /\ DropOK
  BY <1>2, <1>4 DEF ToldOK, DropOK
<1> QED
  BY <1>1, <1>3, <1>5, <1>6 DEF PoliteInv, PoliteOK

(* A client that waits for every reply is in turn with the server: it is   *)
(* at most one message ahead, the one the state's parser waits for, and    *)
(* read_buffer is empty between two reads, however they cut the message.   *)
THEOREM HandshakeTakesTurns == Spec => []PoliteInv
BY PoliteInit, PoliteStep, PTL DEF Spec

(* Such a client is dropped before its request is served only if a message *)
(* of it is not well formed, its credentials are refused, or authentication*)
(* was turned off after it was told to authenticate.                       *)
THEOREM HandshakeDropsNobodyPolite == Spec => []PoliteNotDropped
<1>1. PoliteInv => PoliteNotDropped
  BY DEF PoliteInv, Polite, PoliteOK, DropOK, SwitchedOff, PoliteNotDropped
<1> QED
  BY <1>1, HandshakeTakesTurns, PTL
=============================================================================
