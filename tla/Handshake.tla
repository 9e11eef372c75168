----------------------------- MODULE Handshake -----------------------------
(***************************************************************************)
(* One connection of socks5nio.c up to the reply to its request, byte by   *)
(* byte: HELLO, AUTH and REQUEST messages arrive in pieces of any size and *)
(* pass through read_buffer and the parsers, while the monitor changes the *)
(* users and other connections turn authentication off.                    *)
(*                                                                         *)
(* What happens between request_process and request_write is Socks5's.     *)
(***************************************************************************)
EXTENDS Parsers, Users, Buffer

CONSTANTS
  Hellos,       \* hello messages a client may send
  Auths,        \* auth messages
  Requests,     \* request messages
  Accounts,     \* the accounts of the table of users: a sequence
  MaxChanges    \* bound: changes made to the users and the switch meanwhile

ASSUME HandshakeAssumption ==
  /\ Hellos \subseteq [kind : {"hello"}, ver : Nat, methods : Seq(Nat)]
  /\ Auths \subseteq [kind : {"auth"}, uname : Seq(Nat), passwd : Seq(Nat)]
  /\ Requests \subseteq [kind : {"request"}, cmd : Nat, atyp : Nat, addr : Seq(Nat), port : Seq(Nat)]
  /\ \A r \in Requests :
       /\ r.atyp = socks_req_addrtype_ipv4 => Len(r.addr) = Ipv4Len
       /\ r.atyp = socks_req_addrtype_ipv6 => Len(r.addr) = Ipv6Len
       /\ Len(r.port) = 2
  /\ Accounts \in Seq([uname : Seq(Nat), passwd : Seq(Nat)])
  /\ \A i, j \in DOMAIN Accounts : Accounts[i].uname = Accounts[j].uname => i = j
  /\ MaxChanges \in Nat

VARIABLES
  eager,          \* the client does not wait for replies
  sent,           \* the messages it has sent, in order
  out,            \* ... and their bytes
  fin,            \* it has closed its side
  told,           \* the bytes it was sent back
  state,          \* stm.current
  recvd,          \* bytes taken from the socket so far
  rb,             \* read_buffer
  wb,             \* the bytes of write_buffer
  parser,         \* the union client.{hello,auth,request}
  users,
  is_auth_on,
  client_uname,   \* index of the entry of users it points into, 0 for NULL
  served,         \* what was parsed, and up to which byte: a record per message
  authenticated,  \* the name the client was let in by, {} before
  removed,        \* a user at or before client_uname was unregistered since
  logged,         \* what log_request printed in the place of the user
  changes

clientVars == <<eager, sent, out, fin>>
userVars   == <<users, is_auth_on>>
histVars   == <<served, authenticated, removed, logged, changes>>
vars == <<clientVars, told, state, recvd, rb, wb, parser, userVars, client_uname, histVars>>

(* What the access log may show in the place of the user.                  *)
Shows(who, name) == [who |-> who, name |-> name]
NotLogged == Shows("nothing", <<>>)
Anonymous == Shows("<anonymous>", <<>>)

-----------------------------------------------------------------------------
(* The client, outside the repository: RFC 1928 and 1929.                  *)

HelloBytes(h)   == <<h.ver, Len(h.methods)>> \o h.methods
AuthBytes(a)    == <<VERSION_AUTH, Len(a.uname)>> \o a.uname \o <<Len(a.passwd)>> \o a.passwd
RequestBytes(r) ==
  <<VERSION_SOCKS, r.cmd, 0, r.atyp>>
    \o (IF r.atyp = socks_req_addrtype_domain THEN <<Len(r.addr)>> ELSE <<>>) \o r.addr \o r.port

MessageBytes(m) ==
  CASE m.kind = "hello"   -> HelloBytes(m)
    [] m.kind = "auth"    -> AuthBytes(m)
    [] m.kind = "request" -> RequestBytes(m)

(* The method and the auth status the client was told, if any yet.         *)
ToldMethod == IF Len(told) >= 2 THEN told[2] ELSE -1
ToldStatus == IF ToldMethod = SOCKS_HELLO_USERNAME_PASSWORD /\ Len(told) >= 4 THEN told[4] ELSE -1

Send(m) == sent' = Append(sent, m) /\ out' = out \o MessageBytes(m)

(* A client that waits sends what the last reply asks for.                 *)
ClientSends ==
  /\ ~eager /\ ~fin
  /\ \/ sent = <<>> /\ \E m \in Hellos : Send(m)
     \/ Len(sent) = 1 /\ ToldMethod = SOCKS_HELLO_USERNAME_PASSWORD /\ \E m \in Auths : Send(m)
     \/ Len(sent) = 1 /\ ToldMethod = SOCKS_HELLO_NO_AUTHENTICATION_REQUIRED
          /\ \E m \in Requests : Send(m)
     \/ Len(sent) = 2 /\ ToldStatus = 0 /\ \E m \in Requests : Send(m)
  /\ UNCHANGED <<eager, fin, told, state, recvd, rb, wb, parser, userVars, client_uname, histVars>>

(* One that does not guesses what will be asked and sends it all at once.  *)
ClientSendsAll ==
  /\ eager /\ ~fin
  /\ sent = <<>>
  /\ \E h \in Hellos, a \in Auths, r \in Requests :
       /\ sent' \in {<<h, a, r>>, <<h, r>>}
       /\ out' = MessageBytes(h) \o (IF Len(sent') = 3 THEN MessageBytes(a) ELSE <<>>)
                                \o MessageBytes(r)
  /\ UNCHANGED <<eager, fin, told, state, recvd, rb, wb, parser, userVars, client_uname, histVars>>

ClientCloses ==
  /\ ~fin
  /\ fin' = TRUE
  /\ UNCHANGED <<eager, sent, out, told, state, recvd, rb, wb, parser, userVars, client_uname, histVars>>

-----------------------------------------------------------------------------
(* The switch and the users, changed by others.                            *)

(* The table when main() has registered the first k accounts.              *)
Table(k) ==
  [slot |-> [i \in 1 .. MaxUsers |-> IF i <= k THEN Accounts[i] ELSE NoUsers.slot[i]], n |-> k]

(* Mutant: authentication comes back with the first user.                  *)
HelloReadInitBack(auth_on) == users.n > 0

(* The first event of a connection. Nothing turns is_auth_on on again.     *)
HelloReadInit(auth_on) == auth_on /\ users.n > 0

(* Another connection's first event.                                       *)
OtherHello ==
  /\ changes < MaxChanges
  /\ HelloReadInit(is_auth_on) # is_auth_on
  /\ is_auth_on' = HelloReadInit(is_auth_on)
  /\ changes' = changes + 1
  /\ UNCHANGED <<clientVars, told, state, recvd, rb, wb, parser, users, client_uname,
                 served, authenticated, removed, logged>>

(* The monitor's commands.                                                 *)
AddUser(a) ==
  /\ changes < MaxChanges
  /\ RegisterStatus(users, a.uname) = 0
  /\ users' = socksv5_register_user(users, a.uname, a.passwd)
  /\ changes' = changes + 1
  /\ UNCHANGED <<clientVars, told, state, recvd, rb, wb, parser, is_auth_on, client_uname,
                 served, authenticated, removed, logged>>

DeleteUser(a) ==
  /\ changes < MaxChanges
  /\ Position(users, a.uname) # {}
  /\ users' = socksv5_unregister_user(users, a.uname)
  /\ removed' = (removed \/ \E i \in Position(users, a.uname) : i <= client_uname)
  /\ changes' = changes + 1
  /\ UNCHANGED <<clientVars, told, state, recvd, rb, wb, parser, is_auth_on, client_uname,
                 served, authenticated, logged>>

-----------------------------------------------------------------------------
(* The server.                                                             *)

(* The bytes of read_buffer.                                               *)
Unread == SubSeq(out, recvd - buffer_read_ptr(rb) + 1, recvd)

(* recv() returns n bytes of those that have arrived.                      *)
Recv(n) == n \in 1 .. Len(out) - recvd /\ n <= buffer_write_ptr(rb)

(* What is parsed when recv() returned n bytes, and read_buffer then.      *)
Parsed(n)          == Consume(parser, Unread \o SubSeq(out, recvd + 1, recvd + n), is_auth_on)
AfterRead(n, used) == buffer_read_adv(buffer_write_adv(rb, n), used)

(* recv() returns no bytes: the client closed, or read_buffer has no room. *)
RecvNothing == (fin /\ recvd = Len(out)) \/ buffer_write_ptr(rb) = 0

Reading == state \in {"HELLO_READ", "AUTH_READ", "REQUEST_READ"}

ReadFails ==
  /\ Reading
  /\ RecvNothing
  /\ state' = "ERROR"
  /\ UNCHANGED <<clientVars, told, recvd, rb, wb, parser, userVars, client_uname, histVars>>

(* Remembers what the parser p found in the bytes up to the n-th of this   *)
(* recv(), for the properties.                                             *)
Serve(p, n, used) ==
  served' = Append(served, [p |-> p, upto |-> recvd - buffer_read_ptr(rb) + used])

hello_read(n) ==
  LET r == Parsed(n)
  IN  /\ state = "HELLO_READ"
      /\ Recv(n)
      /\ recvd' = recvd + n
      /\ rb' = AfterRead(n, r.n)
      /\ parser' = r.p
      /\ CASE r.p.state = "error" -> state' = "ERROR" /\ UNCHANGED <<wb, served>>
           [] r.p.state = "done"  -> /\ state' = "HELLO_WRITE"
                                     /\ wb' = hello_marshall(r.p.method)
                                     /\ Serve(r.p, n, r.n)
           [] OTHER               -> UNCHANGED <<state, wb, served>>
      /\ UNCHANGED <<clientVars, told, userVars, client_uname, authenticated, removed, logged, changes>>

(* The method was chosen by on_hello_method, the next state by the switch  *)
(* as it is now.                                                           *)
hello_write(n) ==
  /\ state = "HELLO_WRITE"
  /\ n \in 1 .. Len(wb)
  /\ told' = told \o SubSeq(wb, 1, n)
  /\ wb' = SubSeq(wb, n + 1, Len(wb))
  /\ IF wb' # <<>> THEN UNCHANGED <<state, parser>>
     ELSE /\ state' = IF is_auth_on THEN "AUTH_READ" ELSE "REQUEST_READ"
          /\ parser' = IF is_auth_on THEN auth_parser_init ELSE request_parser_init
  /\ UNCHANGED <<clientVars, recvd, rb, userVars, client_uname, histVars>>

(* The entry auth_process finds, 0 if none.                                *)
AuthEntry(p) ==
  LET found == Found(users, CStr(p.uname), CStr(p.passwd))
  IN  IF found = {} THEN 0 ELSE Min(found)

auth_read(n) ==
  LET r     == Parsed(n)
      entry == AuthEntry(r.p)
  IN  /\ state = "AUTH_READ"
      /\ Recv(n)
      /\ recvd' = recvd + n
      /\ rb' = AfterRead(n, r.n)
      /\ parser' = r.p
      /\ CASE r.p.state = "error" ->
                state' = "ERROR" /\ UNCHANGED <<wb, client_uname, served, authenticated, removed>>
           [] r.p.state = "done" ->
                /\ state' = "AUTH_WRITE"
                /\ wb' = auth_marshall(IF entry = 0 THEN 1 ELSE 0)
                /\ client_uname' = IF entry = 0 THEN client_uname ELSE entry
                /\ authenticated' = IF entry = 0 THEN authenticated ELSE {CStr(r.p.uname)}
                /\ removed' = FALSE
                /\ Serve(r.p, n, r.n)
           [] OTHER -> UNCHANGED <<state, wb, client_uname, served, authenticated, removed>>
      /\ UNCHANGED <<clientVars, told, userVars, logged, changes>>

(* The last byte of wb is the status while any of it is left.              *)
auth_write(n) ==
  /\ state = "AUTH_WRITE"
  /\ n \in 1 .. Len(wb)
  /\ told' = told \o SubSeq(wb, 1, n)
  /\ wb' = SubSeq(wb, n + 1, Len(wb))
  /\ IF wb' # <<>> THEN UNCHANGED <<state, parser>>
     ELSE IF Last(wb) = 0 THEN state' = "REQUEST_READ" /\ parser' = request_parser_init
     ELSE state' = "ERROR" /\ UNCHANGED parser
  /\ UNCHANGED <<clientVars, recvd, rb, userVars, client_uname, histVars>>

status_command_not_supported == 7

(* The statuses of the reply to parsed request p: refused at once, or      *)
(* whatever becomes of the connection to its address (0 is success).       *)
request_process(p) ==
  IF p.cmd # socks_req_cmd_connect THEN {status_command_not_supported} ELSE {0, 1}

request_read(n) ==
  LET r == Parsed(n)
  IN  /\ state = "REQUEST_READ"
      /\ Recv(n)
      /\ recvd' = recvd + n
      /\ rb' = AfterRead(n, r.n)
      /\ parser' = r.p
      /\ CASE r.p.state = "error" -> state' = "ERROR" /\ UNCHANGED <<wb, served>>
           [] r.p.state = "done"  -> /\ state' = "REQUEST_WRITE"
                                     /\ \E s \in request_process(r.p) : wb' = request_marshall(s)
                                     /\ Serve(r.p, n, r.n)
           [] OTHER               -> UNCHANGED <<state, wb, served>>
      /\ UNCHANGED <<clientVars, told, userVars, client_uname, authenticated, removed, logged, changes>>

(* The name log_request prints: what client_uname points to by now.        *)
log_request ==
  IF ~is_auth_on THEN Anonymous
  ELSE IF client_uname = 0 THEN Shows("(null)", <<>>)
  ELSE Shows("user", users.slot[client_uname].uname)

(* The ten bytes of the reply go out at once or in two pieces.             *)
request_write(n) ==
  /\ state = "REQUEST_WRITE"
  /\ n \in {2, Len(wb)}
  /\ told' = told \o SubSeq(wb, 1, n)
  /\ wb' = SubSeq(wb, n + 1, Len(wb))
  /\ IF wb' # <<>> THEN UNCHANGED <<state, logged>>
     ELSE /\ state' = IF told'[Len(told') - 8] = 0 THEN "COPY" ELSE "ERROR"
          /\ logged' = log_request
  /\ UNCHANGED <<clientVars, recvd, rb, parser, userVars, client_uname,
                 served, authenticated, removed, changes>>

(* send() fails once the client is gone.                                   *)
WriteFails ==
  /\ state \in {"HELLO_WRITE", "AUTH_WRITE", "REQUEST_WRITE"}
  /\ fin
  /\ state' = "ERROR"
  /\ UNCHANGED <<clientVars, told, recvd, rb, wb, parser, userVars, client_uname, histVars>>

-----------------------------------------------------------------------------
Init ==
  /\ eager \in BOOLEAN
  /\ sent = <<>>
  /\ out = <<>>
  /\ fin = FALSE
  /\ told = <<>>
  /\ state = "HELLO_READ"
  /\ recvd = 0
  /\ rb = buffer_init
  /\ wb = <<>>
  /\ parser = hello_parser_init
  /\ \E k \in 0 .. Len(Accounts) : k <= MaxUsers /\ users = Table(k)
  /\ is_auth_on = HelloReadInit(TRUE)
  /\ client_uname = 0
  /\ served = <<>>
  /\ authenticated = {}
  /\ removed = FALSE
  /\ logged = NotLogged
  /\ changes = 0

Next ==
  \/ ClientSends \/ ClientSendsAll \/ ClientCloses
  \/ OtherHello
  \/ \E a \in Range(Accounts) : AddUser(a) \/ DeleteUser(a)
  \/ \E n \in 1 .. BufSize : hello_read(n) \/ auth_read(n) \/ request_read(n)
  \/ \E n \in 1 .. 10 : hello_write(n) \/ auth_write(n) \/ request_write(n)
  \/ ReadFails \/ WriteFails

Spec == Init /\ [][Next]_vars

(* The selector serves a socket that is ready: bytes that arrived are read *)
(* and bytes that are queued are sent. (recvd only changes in a read, told  *)
(* only in a write.)                                                       *)
BytesRead    == Reading /\ \E n \in 1 .. BufSize : Recv(n) /\ recvd' = recvd + n
BytesWritten == \E n \in DOMAIN wb : told' = told \o SubSeq(wb, 1, n)

FairSpec == Spec /\ WF_recvd(BytesRead) /\ WF_told(BytesWritten)

-----------------------------------------------------------------------------
(* Properties.                                                             *)

(* A field of no bytes is legal for none of the three parsers: it takes a  *)
(* byte all the same.                                                      *)
NoEmptyField(m) ==
  CASE m.kind = "hello"   -> TRUE
    [] m.kind = "auth"    -> m.uname # <<>> /\ m.passwd # <<>>
    [] m.kind = "request" -> m.addr # <<>>

(* A message the parsers should take.                                      *)
WellFormed(m) ==
  /\ NoEmptyField(m)
  /\ m.kind = "hello" => m.ver = VERSION_SOCKS
  /\ m.kind = "request" => m.atyp \in {socks_req_addrtype_ipv4, socks_req_addrtype_domain,
                                      socks_req_addrtype_ipv6}

(* p is what the server should find in message m.                          *)
AsSent(m, p) ==
  CASE m.kind = "hello"   -> p.method \in Range(m.methods) \cup {SOCKS_HELLO_NO_ACCEPTABLE_METHODS}
    [] m.kind = "auth"    -> p.uname = m.uname /\ p.passwd = m.passwd
    [] m.kind = "request" -> \A f \in {"cmd", "atyp", "addr", "port"} : p[f] = m[f]

(* Where the k-th message ends.                                            *)
EndOf(k) == LET e[j \in 0 .. k] == IF j = 0 THEN 0 ELSE e[j - 1] + Len(MessageBytes(sent[j]))
            IN  e[k]

(* However the bytes are cut, and whether or not the next message is       *)
(* already in read_buffer, each message is parsed as it was sent, to its   *)
(* last byte and no further (hello_consume, auth_consume, request_consume).*)
ParsedAsSent ==
  \A k \in DOMAIN served :
    (\A j \in 1 .. k : sent[j].kind = served[j].p.kind /\ NoEmptyField(sent[j]))
      => AsSent(sent[k], served[k].p) /\ served[k].upto = EndOf(k)

(* While authentication is on, a request is only parsed for a client that  *)
(* gave the name and the password of a user: the method told, the state    *)
(* entered and the switch are read at three different moments.             *)
RequestNeedsUser ==
  is_auth_on /\ (\E k \in DOMAIN served : served[k].p.kind = "request") => authenticated # {}

(* A client that waits for every reply and does what it says is dropped    *)
(* only if a message of it is none, its credentials are refused, or        *)
(* authentication was turned off after it was told to authenticate. (An    *)
(* empty field can be taken for a message that ends early; what is left of *)
(* it then drops the client at the next message.)                          *)
PoliteNotDropped ==
  state = "ERROR" /\ ~fin /\ ~eager /\ logged = NotLogged =>
    \/ \E j \in DOMAIN sent : ~WellFormed(sent[j])
    \/ ToldStatus = 1
    \/ ToldMethod = SOCKS_HELLO_USERNAME_PASSWORD /\ ~is_auth_on

(* The access log names the user that authenticated, or nobody if          *)
(* authentication is off by then, as long as no user at or before its      *)
(* entry was unregistered since: client_uname points into the table.       *)
LoggedNameRight ==
  logged # NotLogged /\ ~removed =>
    \/ \E name \in authenticated : logged = Shows("user", name)
    \/ logged = Anonymous /\ ~is_auth_on

Complete(k) == Len(sent) = k /\ \A j \in 1 .. k : NoEmptyField(sent[j])

(* A message sent whole by a client that waits for replies is answered, or *)
(* the connection is given up: no parser waits for bytes that will never   *)
(* come.                                                                   *)
MessageAnswered ==
  \A k \in 1 .. 3 :
    (~eager /\ Complete(k))
      ~> (Len(told) >= 2 * k \/ state = "ERROR" \/ Len(sent) > k)
=============================================================================
