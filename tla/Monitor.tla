------------------------------ MODULE Monitor ------------------------------
(***************************************************************************)
(* The monitor: the parser of monitor.c, the connections and tables of     *)
(* monitornio.c, and the client program of client.c at the other end.      *)
(*                                                                         *)
(* Requests and replies travel as bytes, cut anywhere. Clients run at the  *)
(* same time; each makes its requests one after the other, one connection  *)
(* for each.                                                               *)
(***************************************************************************)
EXTENDS Users

CONSTANTS
  Clients,
  Requests,       \* what each client may be asked for
  NoRequest,
  MaxRequests,    \* bound: requests of each client (MAX_CLIENT_REQUESTS)
  Cuts,           \* bound: the bytes after which a request may be cut
  Pieces,         \* bound: sizes of the pieces a reply may be cut into
  Mortal,         \* bound: the clients that may be killed
  TokenSize,      \* TOKEN_SIZE
  RootName,       \* default_admin_uname
  RootToken,      \* MONITOR_ROOT_TOKEN
  MaxAdmins,      \* MAX_ADMINS
  StartUsers,     \* the users given on the command line
  Radix,          \* values of a byte, in the two of DLEN: 256
  Stats,          \* values of the statistics
  MaxPool         \* max_pool

ASSUME MonitorAssumption ==
  /\ MaxRequests \in [Clients -> Nat]
  /\ Cuts \subseteq Nat
  /\ Pieces \subseteq Nat
  /\ Mortal \subseteq Clients
  /\ TokenSize \in Nat \ {0}
  /\ Len(RootToken) = TokenSize
  /\ MaxAdmins \in Nat \ {0}
  /\ Radix \in Nat \ {0, 1}
  /\ Stats \subseteq Nat
  /\ MaxPool \in Nat

VARIABLES
  req,            \* the request each client waits for
  made,           \* requests each client has made
  srv,            \* its connection: "none", "queued", "read", "write" or "closed"
  taken,          \* bytes of the request the server has received
  parser,         \* monitor_parser and struct monitor
  combinedlen,                \* static: shared by all connections
  username_len_with_null,     \* static: shared by all connections
  users,
  admins,
  is_disector_on,
  wb,             \* write_buffer: what is left of the reply
  line,           \* bytes of the reply on their way to the client
  buf,            \* what the client's buf holds since this request began
  pieces,         \* calls to recv() that put it there
  pool,           \* struct connection: allocated, in the pool, and pool_size
  done,           \* the server is done with the request
  mixed,          \* another connection wrote a static in the middle of its data
  truth,          \* what the server did: status and data, if it replied to the end
  report,         \* what the client printed
  dead,           \* client programs that were killed
  stopped         \* the server has exited

clientVars == <<req, made, buf, pieces, report, dead>>
staticVars == <<combinedlen, username_len_with_null>>
tableVars  == <<users, admins, is_disector_on>>
serverVars == <<srv, taken, parser, staticVars, tableVars, pool, done, mixed, truth, stopped>>
vars == <<clientVars, serverVars, wb, line>>

-----------------------------------------------------------------------------
(* The protocol.                                                           *)

Get    == 0      \* monitor_method_get
Config == 1      \* monitor_method_config

(* Targets by their code, 0 first.                                         *)
GetTargets    == <<"historic", "concurrent", "transfered", "proxyusers", "adminusers">>
ConfigTargets == <<"disector", "add_user", "del_user", "add_admin", "del_admin">>

(* What a C string is made of.                                             *)
Chars == Nat \ {0}

(* The requests of client programs (tokens of TOKEN_SIZE characters, names *)
(* and secrets without a 0), and those with a wrong header.                *)
ASSUME RequestsAssumption ==
  /\ Requests \in
       [Clients -> SUBSET [cmd : Range(GetTargets) \cup Range(ConfigTargets)
                                   \cup {"bad_version", "bad_method", "bad_target"},
                           token : Seq(Chars), name : Seq(Chars), secret : Seq(Nat)]]
  /\ \A c \in Clients :
       /\ NoRequest \notin Requests[c]
       /\ \A r \in Requests[c] :
            /\ Len(r.token) = TokenSize
            /\ r.secret \in IF r.cmd = "disector" THEN {<<0>>, <<1>>} ELSE Seq(Chars)

(* main() registers root and the users of the command line.                *)
ASSUME StartAssumption ==
  /\ RootName \in Seq(Chars) /\ RootToken \in Seq(Chars)
  /\ DOMAIN StartUsers.slot = 1 .. MaxUsers
  /\ StartUsers.n \in 0 .. MaxUsers
  /\ \A i \in 1 .. StartUsers.n : StartUsers.slot[i].uname \in Seq(Nat)
  /\ \A i, j \in 1 .. StartUsers.n : StartUsers.slot[i].uname = StartUsers.slot[j].uname => i = j

Code(targets, t) == SelectInSeq(targets, LAMBDA x : x = t) - 1

succeeded      == 0
invalid_data   == 4
error_auth     == 5

IsAlnum(c) == c \in 97 .. 122 \/ c \in 65 .. 90 \/ c \in 48 .. 57

TwoBytes(n) == <<n \div Radix, n % Radix>>

-----------------------------------------------------------------------------
(* monitor.c: the parser.                                                  *)

monitor_parser_init ==
  [state |-> "version", i |-> 0, len |-> 0, separated |-> FALSE, token |-> <<>>,
   method |-> 0, target |-> "none", flag |-> 0, user |-> <<>>, extra |-> <<>>]

(* array[at] = c, in an array of zeros that so far holds `bytes'. Before   *)
(* the array there is the unused end of user[].                            *)
Store(bytes, at, c) ==
  IF at < 0 THEN bytes
  ELSE [k \in 1 .. IF at < Len(bytes) THEN Len(bytes) ELSE at + 1 |->
          IF k = at + 1 THEN c ELSE IF k <= Len(bytes) THEN bytes[k] ELSE 0]

(* What feeding the parser leaves: p its own state, s the two statics.     *)
Fed(p, s) == [p |-> p, s |-> s]

token(p, c) ==
  [p EXCEPT !.token = Append(@, c), !.i = @ + 1,
            !.state = IF p.i + 1 >= p.len THEN "method" ELSE @]

method(p, c) ==
  [p EXCEPT !.method = c, !.state = IF c \in {Get, Config} THEN "target" ELSE "unsupported_method"]

target(p, c) ==
  IF c \notin 0 .. 4 THEN [p EXCEPT !.state = "unsupported_target"]
  ELSE IF p.method = Get THEN [p EXCEPT !.target = GetTargets[c + 1], !.state = "done"]
  ELSE [p EXCEPT !.target = ConfigTargets[c + 1], !.i = 0, !.len = 2, !.state = "dlen"]

(* DLEN is put together in the static array. For the dissector it is not   *)
(* used.                                                                   *)
dlen(p, c, s) ==
  LET combined == [s.combined EXCEPT ![p.i + 1] = c]
  IN  Fed(IF p.i + 1 < p.len THEN [p EXCEPT !.i = @ + 1]
          ELSE IF p.target = "disector" THEN [p EXCEPT !.i = @ + 1, !.state = "data"]
          ELSE [p EXCEPT !.i = 0, !.len = combined[1] * Radix + combined[2], !.state = "data"],
          [s EXCEPT !.combined = combined])

(* Mutant: the end is noticed one byte late.                               *)
EndsLate(p) == IF p.i > p.len THEN [p EXCEPT !.state = "done", !.separated = FALSE] ELSE p

(* The end of the data is looked for once a byte is stored.                *)
Ends(p) == IF p.i >= p.len THEN [p EXCEPT !.state = "done", !.separated = FALSE] ELSE p

(* <user> 0 <password or token>: what follows the 0 is stored relative to  *)
(* the static length of the last name that any connection read.            *)
AddData(p, c, s) ==
  CASE IsAlnum(c) /\ ~p.separated ->
         Fed(Ends([p EXCEPT !.user = Append(@, c), !.i = @ + 1]), s)
    [] IsAlnum(c) /\ p.separated ->
         Fed(Ends([p EXCEPT !.extra = Store(@, p.i - s.ulen, c), !.i = @ + 1]), s)
    [] c = 0 /\ p.i > 0 /\ ~p.separated ->
         Fed(Ends([p EXCEPT !.user = Append(@, c), !.i = @ + 1, !.separated = TRUE]),
             [s EXCEPT !.ulen = p.i + 1])
    [] OTHER -> Fed([p EXCEPT !.state = "invalid_data"], s)

DelData(p, c) ==
  IF IsAlnum(c) THEN Ends([p EXCEPT !.user = Append(@, c), !.i = @ + 1])
  ELSE [p EXCEPT !.state = "invalid_data"]

data(p, c, s) ==
  CASE p.target = "disector"                 -> Fed([p EXCEPT !.flag = c, !.state = "done"], s)
    [] p.target \in {"add_user", "add_admin"} -> AddData(p, c, s)
    [] p.target \in {"del_user", "del_admin"} -> Fed(DelData(p, c), s)

monitor_parser_feed(p, c, s) ==
  CASE p.state = "version" ->
         Fed([p EXCEPT !.state = IF c = 1 THEN "token" ELSE "unsupported_version",
                       !.i = 0, !.len = TokenSize], s)
    [] p.state = "token"  -> Fed(token(p, c), s)
    [] p.state = "method" -> Fed(method(p, c), s)
    [] p.state = "target" -> Fed(target(p, c), s)
    [] p.state = "dlen"   -> dlen(p, c, s)
    [] p.state = "data"   -> data(p, c, s)

monitor_is_done(p) == p.state \notin {"version", "token", "method", "target", "dlen", "data"}

monitor_consume(p, bytes, s) ==
  LET run[k \in 0 .. Len(bytes)] ==
        IF k = 0 THEN Fed(p, s)
        ELSE LET r == run[k - 1]
             IN  IF monitor_is_done(r.p) THEN r ELSE monitor_parser_feed(r.p, bytes[k], r.s)
  IN  run[Len(bytes)]

-----------------------------------------------------------------------------
(* monitornio.c: the administrators. (The users are those of Users.)       *)

(* What monitor_register_admin returns.                                    *)
AdminStatus(as, name, tok) ==
  IF Len(as) >= MaxAdmins THEN 1
  ELSE IF Len(tok) # TokenSize \/ \E i \in DOMAIN as : as[i].uname = name THEN -1 ELSE 0

(* The first one is root, whatever name it is given.                       *)
monitor_register_admin(as, name, tok) ==
  IF AdminStatus(as, name, tok) # 0 THEN as
  ELSE Append(as, [uname |-> IF as = <<>> THEN RootName ELSE name, token |-> tok])

(* Which entry monitor_unregister_admin removes: never the first.          *)
RemovableAdmin(as, name) == {i \in 2 .. Len(as) : as[i].uname = name /\ name # RootName}

(* Mutant: root can be removed.                                            *)
UnregisterAnyAdmin(as, name) == SelectSeq(as, LAMBDA a : a.uname # name)

monitor_unregister_admin(as, name) ==
  IF RemovableAdmin(as, name) = {} THEN as ELSE RemoveAt(as, Min(RemovableAdmin(as, name)))

monitor_get_admins == NameList([i \in DOMAIN admins |-> admins[i].uname])

monitor_is_admin(tok) == \E i \in DOMAIN admins : admins[i].token = tok

-----------------------------------------------------------------------------
(* monitor_process on the parsed request p.                                *)

Name(p)   == CStr(p.user)
Secret(p) == CStr(p.extra)

(* The int that the changing functions return.                             *)
error_response(p) ==
  CASE p.target = "add_user"  -> RegisterStatus(users, Name(p))
    [] p.target = "del_user"  -> IF Position(users, Name(p)) = {} THEN -1 ELSE 0
    [] p.target = "add_admin" -> AdminStatus(admins, Name(p), Secret(p))
    [] p.target = "del_admin" -> IF RemovableAdmin(admins, Name(p)) = {} THEN -1 ELSE 0
    [] OTHER                  -> 0

(* Mutant: what the changing functions return is forgotten.                *)
StatusForgetsErrors(p) == IF ~monitor_is_admin(p.token) THEN error_auth ELSE succeeded

ProcessStatus(p) ==
  IF ~monitor_is_admin(p.token) THEN error_auth
  ELSE IF error_response(p) # 0 THEN invalid_data ELSE succeeded

(* The tables change only for an administrator.                            *)
ProcessTables(p) ==
  IF ~monitor_is_admin(p.token) \/ p.method = Get THEN UNCHANGED tableVars
  ELSE /\ users' = CASE p.target = "add_user" -> socksv5_register_user(users, Name(p), Secret(p))
                     [] p.target = "del_user" -> socksv5_unregister_user(users, Name(p))
                     [] OTHER                 -> users
       /\ admins' = CASE p.target = "add_admin" ->
                            monitor_register_admin(admins, Name(p), Secret(p))
                      [] p.target = "del_admin" -> monitor_unregister_admin(admins, Name(p))
                      [] OTHER                  -> admins
       /\ is_disector_on' = IF p.target = "disector" THEN p.flag = 1 ELSE is_disector_on

(* The data of the reply: four bytes of a number, names, or one 0.         *)
ProcessData(p) ==
  IF ~monitor_is_admin(p.token) \/ p.method = Config THEN {<<0>>}
  ELSE CASE p.target = "proxyusers" -> {socksv5_get_users(users)}
         [] p.target = "adminusers" -> {monitor_get_admins}
         [] OTHER                   -> {<<0, 0, 0, v>> : v \in Stats}

monitor_marshall(status, bytes) == <<status>> \o TwoBytes(Len(bytes)) \o bytes

monitor_error_marshall(p) ==
  monitor_marshall(CASE p.state = "unsupported_version" -> 1
                     [] p.state = "unsupported_method"  -> 2
                     [] p.state = "unsupported_target"  -> 3
                     [] p.state = "invalid_data"        -> invalid_data, <<0>>)

-----------------------------------------------------------------------------
(* The client program.                                                     *)

Command == [c |-> "concurrent", C |-> "historic", b |-> "transfered", a |-> "proxyusers",
            A |-> "adminusers", n |-> "disector", N |-> "disector", u |-> "add_user",
            U |-> "add_admin", d |-> "del_user", D |-> "del_admin"]

(* What an option and its argument, name:extra or name, ask for with the   *)
(* token of the command line; nothing if the program exits. A missing name *)
(* in -U is complained of and not refused: strtok() finds the token there. *)
parse_args(opt, name, extra, tok) ==
  IF \/ Len(tok) # TokenSize
     \/ opt = "u" /\ name = <<>>
     \/ opt = "U" /\ Len(extra) # TokenSize
  THEN {}
  ELSE {[cmd    |-> Command[opt],
         token  |-> tok,
         name   |-> IF opt = "U" /\ name = <<>> THEN extra ELSE name,
         secret |-> CASE opt = "n" -> <<1>> [] opt = "N" -> <<0>> [] OTHER -> extra]}

(* serialize_request, and for the headers that other programs may send.    *)
Header(r) ==
  CASE r.cmd = "bad_version" -> <<2>> \o r.token \o <<Get, 0>>
    [] r.cmd = "bad_method"  -> <<1>> \o r.token \o <<2, 0>>
    [] r.cmd = "bad_target"  -> <<1>> \o r.token \o <<Config, 5>>
    [] r.cmd \in Range(GetTargets)    -> <<1>> \o r.token \o <<Get, Code(GetTargets, r.cmd)>>
    [] r.cmd \in Range(ConfigTargets) -> <<1>> \o r.token \o <<Config, Code(ConfigTargets, r.cmd)>>

serialize_config_data(r) ==
  CASE r.cmd = "disector"                 -> r.secret
    [] r.cmd \in {"add_user", "add_admin"} -> r.name \o <<0>> \o r.secret
    [] r.cmd \in {"del_user", "del_admin"} -> r.name
    [] OTHER                              -> <<0>>

serialize_request(r) ==
  Header(r) \o TwoBytes(Len(serialize_config_data(r))) \o serialize_config_data(r)

(* Up to where recv() may get in the request of c.                         *)
Unread(c) ==
  LET len == Len(serialize_request(req[c]))
  IN  {n \in Cuts \cup {len} : n \in taken[c] + 1 .. len}

(* How much of `bytes' one send() or recv() may take: all or a piece.      *)
Portions(bytes) == (Pieces \cup {Len(bytes)}) \cap DOMAIN bytes

NoReport == [status |-> -1, shown |-> <<>>]

(* The next request: socket(), connect() and send().                       *)
ClientAsks(c, r) ==
  /\ c \notin dead /\ ~stopped
  /\ req[c] = NoRequest
  /\ made[c] < MaxRequests[c]
  /\ req' = [req EXCEPT ![c] = r]
  /\ made' = [made EXCEPT ![c] = @ + 1]
  /\ pieces' = [pieces EXCEPT ![c] = 0]
  /\ report' = [report EXCEPT ![c] = NoReport]
  /\ srv' = [srv EXCEPT ![c] = "queued"]
  /\ taken' = [taken EXCEPT ![c] = 0]
  /\ done' = [done EXCEPT ![c] = FALSE]
  /\ truth' = [truth EXCEPT ![c] = NoReport]
  /\ UNCHANGED <<buf, dead, parser, staticVars, tableVars, pool, mixed, stopped, wb, line>>

(* recv() puts what has arrived at the start of buf, over what was there.  *)
ClientRecv(c, n) ==
  /\ c \notin dead
  /\ n \in Portions(line[c])
  /\ buf' = [buf EXCEPT ![c] = SubSeq(line[c], 1, n) \o SubSeq(@, n + 1, Len(@))]
  /\ pieces' = [pieces EXCEPT ![c] = @ + 1]
  /\ line' = [line EXCEPT ![c] = SubSeq(@, n + 1, Len(@))]
  /\ UNCHANGED <<req, made, report, dead, serverVars, wb>>

(* handle_get_ok_status and handle_config_ok_status: what is printed of a  *)
(* reply with status ok. Beyond what was received, buf holds `fill'.       *)
Shown(r, b) ==
  CASE r.cmd \in {"historic", "concurrent", "transfered"} -> SubSeq(b, 4, 7)
    [] r.cmd \in {"proxyusers", "adminusers"} ->
         SubSeq(b, 4, IF 3 + b[2] * Radix + b[3] <= Len(b) THEN 3 + b[2] * Radix + b[3] ELSE Len(b))
    [] OTHER -> <<>>

process_response(r, b, fill) ==
  LET all == b \o [k \in 1 .. 7 |-> fill]
  IN  [status |-> all[1], shown |-> IF all[1] = succeeded THEN Shown(r, all) ELSE <<>>]

(* recv() returns 0: the reply is over, and printed. Before the first      *)
(* memset() of buf it holds whatever was on the stack.                     *)
ClientReports(c) ==
  /\ c \notin dead
  /\ req[c] # NoRequest
  /\ srv[c] = "closed" /\ line[c] = <<>>
  /\ \E fill \in IF made[c] = 1 THEN {0, invalid_data} ELSE {0} :
       report' = [report EXCEPT ![c] = process_response(req[c], buf[c], fill)]
  /\ buf' = [buf EXCEPT ![c] = <<>>]
  /\ req' = [req EXCEPT ![c] = NoRequest]
  /\ srv' = [srv EXCEPT ![c] = "none"]
  /\ UNCHANGED <<made, pieces, dead, taken, parser, staticVars, tableVars, pool, done,
                 mixed, truth, stopped, wb, line>>

(* The server closed with part of the request unread, so the connection is *)
(* reset: recv() returns -1 and the client program aborts.                 *)
ClientAborts(c) ==
  /\ c \notin dead
  /\ srv[c] = "closed"
  /\ Unread(c) # {}
  /\ dead' = dead \cup {c}
  /\ UNCHANGED <<req, made, buf, pieces, report, serverVars, wb, line>>

ClientKilled(c) ==
  /\ c \in Mortal \ dead
  /\ req[c] # NoRequest
  /\ dead' = dead \cup {c}
  /\ UNCHANGED <<req, made, buf, pieces, report, serverVars, wb, line>>

-----------------------------------------------------------------------------
(* monitornio.c: the connections.                                          *)

(* A struct comes from the pool or else from malloc().                     *)
connection_new ==
  IF pool.pooled > 0 THEN [pool EXCEPT !.pooled = @ - 1] ELSE [pool EXCEPT !.mem = @ + 1]

(* Mutant: a struct that finds the pool full is not freed.                 *)
DestroyLeaks(p) ==
  IF p.pool_size < MaxPool THEN [p EXCEPT !.pooled = @ + 1, !.pool_size = @ + 1] ELSE p

connection_destroy(p) ==
  IF p.pool_size < MaxPool THEN [p EXCEPT !.pooled = @ + 1, !.pool_size = @ + 1]
                           ELSE [p EXCEPT !.mem = @ - 1]

monitor_passive_accept(c) ==
  /\ srv[c] = "queued"
  /\ srv' = [srv EXCEPT ![c] = "read"]
  /\ parser' = [parser EXCEPT ![c] = monitor_parser_init]
  /\ pool' = connection_new
  /\ UNCHANGED <<clientVars, taken, staticVars, tableVars, done, mixed, truth, stopped, wb, line>>

(* malloc() or selector_register() fails: no reply. After the latter the   *)
(* struct goes to the pool.                                                *)
AcceptFails(c) ==
  /\ srv[c] = "queued"
  /\ srv' = [srv EXCEPT ![c] = "closed"]
  /\ done' = [done EXCEPT ![c] = TRUE]
  /\ pool' \in {pool, connection_destroy(connection_new)}
  /\ UNCHANGED <<clientVars, taken, parser, staticVars, tableVars, mixed, truth, stopped, wb, line>>

(* The statics are changed under a connection d that will use them again:  *)
(* it has one byte of DLEN, or is past the 0 in its data.                  *)
Overwritten(d) ==
  /\ srv[d] = "read"
  /\ \/ parser[d].state = "dlen" /\ parser[d].i = 1 /\ combinedlen'[1] # combinedlen[1]
     \/ /\ parser[d].state = "data" /\ parser[d].separated
        /\ username_len_with_null' # username_len_with_null

(* What monitor_read does once the parser p is done: the reply.            *)
Answer(c, p) ==
  /\ srv' = [srv EXCEPT ![c] = "write"]
  /\ done' = [done EXCEPT ![c] = TRUE]
  /\ IF p.state = "done"
     THEN /\ ProcessTables(p)
          /\ \E bytes \in ProcessData(p) :
               /\ wb' = [wb EXCEPT ![c] = monitor_marshall(ProcessStatus(p), bytes)]
               /\ truth' = [truth EXCEPT ![c] =
                    [status |-> IF ~monitor_is_admin(p.token) THEN error_auth
                                ELSE IF p.method = Config /\ p.target # "disector"
                                        /\ UNCHANGED <<users, admins>>
                                THEN invalid_data ELSE succeeded,
                     shown  |-> IF monitor_is_admin(p.token) /\ p.method = Get THEN bytes ELSE <<>>]]
     ELSE /\ wb' = [wb EXCEPT ![c] = monitor_error_marshall(p)]
          /\ truth' = [truth EXCEPT ![c] = [status |-> Head(monitor_error_marshall(p)), shown |-> <<>>]]
          /\ UNCHANGED tableVars

(* recv() brings the bytes of the request up to the n-th.                  *)
monitor_read(c, n) ==
  LET bytes == SubSeq(serialize_request(req[c]), taken[c] + 1, n)
      r     == monitor_consume(parser[c], bytes,
                 [combined |-> combinedlen, ulen |-> username_len_with_null])
  IN  /\ srv[c] = "read"
      /\ n \in Unread(c)
      /\ taken' = [taken EXCEPT ![c] = n]
      /\ parser' = [parser EXCEPT ![c] = r.p]
      /\ combinedlen' = r.s.combined
      /\ username_len_with_null' = r.s.ulen
      /\ mixed' = (IF monitor_is_done(r.p) THEN mixed \ {c} ELSE mixed)
                     \cup {d \in Clients \ {c} : Overwritten(d)}
      /\ IF monitor_is_done(r.p) THEN Answer(c, r.p)
         ELSE UNCHANGED <<srv, done, truth, tableVars, wb>>
      /\ UNCHANGED <<clientVars, pool, stopped, line>>

(* monitor_finish and monitor_close: the struct is given up.               *)
monitor_finish(c) ==
  /\ srv' = [srv EXCEPT ![c] = "closed"]
  /\ pool' = connection_destroy(pool)

(* The client is gone: recv() returns 0, or send() fails.                  *)
monitor_read_fails(c) ==
  /\ srv[c] = "read"
  /\ c \in dead /\ Unread(c) = {}
  /\ monitor_finish(c)
  /\ done' = [done EXCEPT ![c] = TRUE]
  /\ mixed' = mixed \ {c}
  /\ UNCHANGED <<clientVars, taken, parser, staticVars, tableVars, truth, stopped, wb, line>>

monitor_write_fails(c) ==
  /\ srv[c] = "write"
  /\ c \in dead
  /\ monitor_finish(c)
  /\ wb' = [wb EXCEPT ![c] = <<>>]
  /\ UNCHANGED <<clientVars, taken, parser, staticVars, tableVars, done, mixed, truth, stopped, line>>

monitor_write(c, n) ==
  /\ srv[c] = "write"
  /\ n \in Portions(wb[c])
  /\ line' = [line EXCEPT ![c] = @ \o SubSeq(wb[c], 1, n)]
  /\ wb' = [wb EXCEPT ![c] = SubSeq(@, n + 1, Len(@))]
  /\ IF wb'[c] = <<>> THEN monitor_finish(c) ELSE UNCHANGED <<srv, pool>>
  /\ UNCHANGED <<clientVars, taken, parser, staticVars, tableVars, done, mixed, truth, stopped>>

Open == {c \in Clients : srv[c] \in {"read", "write"}}

(* SIGTERM: selector_destroy closes every connection, and then             *)
(* connection_pool_destroy frees the pool. Replies are cut short.          *)
ServerStops ==
  LET closing[k \in 0 .. Cardinality(Open)] ==
        IF k = 0 THEN pool ELSE connection_destroy(closing[k - 1])
      closed == closing[Cardinality(Open)]
  IN  /\ ~stopped
      /\ stopped' = TRUE
      /\ srv' = [c \in Clients |-> IF srv[c] = "none" THEN "none" ELSE "closed"]
      /\ pool' = [closed EXCEPT !.mem = @ - closed.pooled, !.pooled = 0]
      /\ wb' = [c \in Clients |-> <<>>]
      /\ truth' = [c \in Clients |-> IF wb[c] = <<>> THEN truth[c] ELSE NoReport]
      /\ done' = [c \in Clients |-> TRUE]
      /\ mixed' = {}
      /\ UNCHANGED <<clientVars, taken, parser, staticVars, tableVars, line>>

-----------------------------------------------------------------------------
Init ==
  /\ req = [c \in Clients |-> NoRequest]
  /\ made = [c \in Clients |-> 0]
  /\ srv = [c \in Clients |-> "none"]
  /\ taken = [c \in Clients |-> 0]
  /\ parser = [c \in Clients |-> monitor_parser_init]
  /\ combinedlen = <<0, 0>>
  /\ username_len_with_null = 0
  /\ users = StartUsers
  /\ admins = monitor_register_admin(<<>>, RootName, RootToken)
  /\ is_disector_on = TRUE
  /\ wb = [c \in Clients |-> <<>>]
  /\ line = [c \in Clients |-> <<>>]
  /\ buf = [c \in Clients |-> <<>>]
  /\ pieces = [c \in Clients |-> 0]
  /\ pool = [mem |-> 0, pooled |-> 0, pool_size |-> 0]
  /\ done = [c \in Clients |-> TRUE]
  /\ mixed = {}
  /\ truth = [c \in Clients |-> NoReport]
  /\ report = [c \in Clients |-> NoReport]
  /\ dead = {}
  /\ stopped = FALSE

ClientNext(c) ==
  \/ \E r \in Requests[c] : ClientAsks(c, r)
  \/ \E n \in Portions(line[c]) : ClientRecv(c, n)
  \/ ClientReports(c)
  \/ ClientAborts(c)
  \/ ClientKilled(c)

ServerNext(c) ==
  \/ monitor_passive_accept(c)
  \/ AcceptFails(c)
  \/ srv[c] = "read" /\ \E n \in Unread(c) : monitor_read(c, n)
  \/ monitor_read_fails(c)
  \/ \E n \in Portions(wb[c]) : monitor_write(c, n)
  \/ monitor_write_fails(c)

Next == ServerStops \/ \E c \in Clients : ClientNext(c) \/ ServerNext(c)

Spec == Init /\ [][Next]_vars

(* What every monitor_read does: the selector reports a descriptor with    *)
(* bytes to read in every round.                                           *)
BytesTaken(c) ==
  /\ srv[c] = "read"
  /\ \E n \in Unread(c) : taken' = [taken EXCEPT ![c] = n]

(* The selector serves whoever is ready, and a client that lives reads its *)
(* reply.                                                                  *)
Fairness ==
  \A c \in Clients :
    /\ WF_vars(monitor_passive_accept(c) \/ AcceptFails(c))
    /\ WF_taken(BytesTaken(c))
    /\ WF_vars(\E n \in Portions(wb[c]) : monitor_write(c, n))
    /\ WF_vars(\E n \in Portions(line[c]) : ClientRecv(c, n))
    /\ WF_vars(ClientReports(c))

FairSpec == Spec /\ Fairness

-----------------------------------------------------------------------------
(* Properties                                                              *)

(* The monitor carries out each request once, at one moment, with the data *)
(* its client sent and by the right of its token (monitor_read and         *)
(* monitor_process), however the requests of all clients are cut into      *)
(* recv()s; the only exception are data under which another connection     *)
(* changed a static of monitor.c.                                          *)
Promise == INSTANCE Registry WITH
  Root     <- [uname |-> RootName, token |-> RootToken],
  users    <- {users.slot[i] : i \in 1 .. users.n},
  admins   <- Range(admins),
  disector <- is_disector_on,
  pending  <- [c \in Clients |-> IF done[c] THEN NoRequest ELSE req[c]],
  mixed    <- mixed

ImplementsRegistry == Promise!RSpec

(* What the client program prints of a reply that one recv() brought       *)
(* (client.c:61-69) is what the server did: its status says whether the    *)
(* tables changed, and the data are those of that moment.                  *)
ReportTrue ==
  \A c \in Clients :
    NoReport \notin {report[c], truth[c]} /\ pieces[c] = 1 => report[c] = truth[c]

(* A struct connection is in the pool, serves a connection or was freed    *)
(* (connection_new, connection_destroy), the pool keeps to max_pool, and   *)
(* the teardown of main() leaves none.                                     *)
StructsAccounted ==
  /\ pool.mem = pool.pooled + Cardinality(Open)
  /\ pool.pooled <= MaxPool
  /\ stopped => pool.mem = 0

(* A request with data is reported on, unless the server refused its       *)
(* connection in the middle, its data were overwritten, or its client is   *)
(* gone: with an empty name, monitor_data and the client's recv() wait for *)
(* each other.                                                             *)
RequestServed ==
  \A c \in Clients :
    (req[c] # NoRequest /\ serialize_config_data(req[c]) # <<>>)
      ~> (req[c] = NoRequest \/ c \in mixed \/ c \in dead)

(* monitor.h:55: what ADD PROXY USER stores is the password that was sent  *)
(* with that name.                                                         *)
TableAsAsked ==
  \A i \in 1 .. users.n :
    \/ \E j \in 1 .. StartUsers.n : users.slot[i] = StartUsers.slot[j]
    \/ \E r \in UNION Range(Requests) : /\ r.cmd = "add_user"
                                        /\ users.slot[i] = [uname |-> r.name, passwd |-> r.secret]
=============================================================================
