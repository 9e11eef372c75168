------------------------------ MODULE Parsers ------------------------------
(***************************************************************************)
(* The parsers of hello.c, auth.c and request.c: each takes one byte at a  *)
(* time, keeps its place between two reads of the socket and stops at the  *)
(* last byte of its message.                                               *)
(***************************************************************************)
EXTENDS Integers, SequencesExt

CONSTANTS
  Ipv4Len,     \* bytes of an IPv4 address: 4
  Ipv6Len      \* bytes of an IPv6 address: 16

ASSUME ParsersAssumption == Ipv4Len \in Nat \ {0} /\ Ipv6Len \in Nat \ {0}

VERSION_SOCKS == 5
VERSION_AUTH  == 1

SOCKS_HELLO_NO_AUTHENTICATION_REQUIRED == 0
SOCKS_HELLO_USERNAME_PASSWORD          == 2
SOCKS_HELLO_NO_ACCEPTABLE_METHODS      == 255

socks_req_cmd_connect     == 1
socks_req_addrtype_ipv4   == 1
socks_req_addrtype_domain == 3
socks_req_addrtype_ipv6   == 4

IsDone(p) == p.state \in {"done", "error"}

-----------------------------------------------------------------------------
(* HELLO: version, number of methods, methods.                             *)

hello_parser_init ==
  [kind |-> "hello", state |-> "version", remaining |-> 0,
   method |-> SOCKS_HELLO_NO_ACCEPTABLE_METHODS]

(* A method is chosen if it is the one the switch asks for right now.      *)
on_hello_method(p, b, auth_on) ==
  IF b = (IF auth_on THEN SOCKS_HELLO_USERNAME_PASSWORD
                     ELSE SOCKS_HELLO_NO_AUTHENTICATION_REQUIRED)
  THEN [p EXCEPT !.method = b] ELSE p

hello_parser_feed(p, b, auth_on) ==
  CASE p.state = "version"  -> [p EXCEPT !.state = IF b = VERSION_SOCKS THEN "nmethods" ELSE "error"]
    [] p.state = "nmethods" -> [p EXCEPT !.remaining = b,
                                         !.state     = IF b = 0 THEN "done" ELSE "methods"]
    [] p.state = "methods"  -> [on_hello_method(p, b, auth_on) EXCEPT
                                  !.remaining = @ - 1,
                                  !.state     = IF p.remaining = 1 THEN "done" ELSE @]

-----------------------------------------------------------------------------
(* AUTH: version, user name and password, each after its length. The end of *)
(* a field is only looked for once a byte of it is stored.                 *)

auth_parser_init ==
  [kind |-> "auth", state |-> "version", len |-> 0, uname |-> <<>>, passwd |-> <<>>]

(* Mutant: the length counts the byte after the field.                     *)
AuthFeedOffByOne(p, b) ==
  CASE p.state = "version" -> [p EXCEPT !.state = IF b = VERSION_AUTH THEN "ulen" ELSE "error"]
    [] p.state = "ulen"    -> [p EXCEPT !.len = b, !.state = "uname"]
    [] p.state = "uname"   -> [p EXCEPT !.uname = Append(@, b),
                                        !.state = IF Len(p.uname) >= p.len THEN "plen" ELSE @]
    [] p.state = "plen"    -> [p EXCEPT !.len = b, !.state = "passwd"]
    [] p.state = "passwd"  -> [p EXCEPT !.passwd = Append(@, b),
                                        !.state  = IF Len(p.passwd) + 1 >= p.len THEN "done" ELSE @]

auth_parser_feed(p, b) ==
  CASE p.state = "version" -> [p EXCEPT !.state = IF b = VERSION_AUTH THEN "ulen" ELSE "error"]
    [] p.state = "ulen"    -> [p EXCEPT !.len = b, !.state = "uname"]
    [] p.state = "uname"   -> [p EXCEPT !.uname = Append(@, b),
                                        !.state = IF Len(p.uname) + 1 >= p.len THEN "plen" ELSE @]
    [] p.state = "plen"    -> [p EXCEPT !.len = b, !.state = "passwd"]
    [] p.state = "passwd"  -> [p EXCEPT !.passwd = Append(@, b),
                                        !.state  = IF Len(p.passwd) + 1 >= p.len THEN "done" ELSE @]

-----------------------------------------------------------------------------
(* REQUEST: version, command, reserved, address type, address, port.       *)

request_parser_init ==
  [kind |-> "request", state |-> "version", n |-> 0, cmd |-> 0, atyp |-> 0,
   addr |-> <<>>, port |-> <<>>]

atyp(p, b) ==
  LET q == [p EXCEPT !.atyp = b]
  IN  CASE b = socks_req_addrtype_ipv4   -> [q EXCEPT !.n = Ipv4Len, !.state = "dstaddr"]
        [] b = socks_req_addrtype_ipv6   -> [q EXCEPT !.n = Ipv6Len, !.state = "dstaddr"]
        [] b = socks_req_addrtype_domain -> [q EXCEPT !.state = "dstaddr_fqdn"]
        [] OTHER                         -> [q EXCEPT !.state = "error"]

request_parser_feed(p, b) ==
  CASE p.state = "version" -> [p EXCEPT !.state = IF b = VERSION_SOCKS THEN "cmd" ELSE "error"]
    [] p.state = "cmd"     -> [p EXCEPT !.cmd = b, !.state = "rsv"]
    [] p.state = "rsv"     -> [p EXCEPT !.state = "atyp"]
    [] p.state = "atyp"    -> atyp(p, b)
    [] p.state = "dstaddr_fqdn" -> [p EXCEPT !.n = b, !.state = "dstaddr"]
    [] p.state = "dstaddr" -> [p EXCEPT !.addr  = Append(@, b),
                                        !.state = IF Len(p.addr) + 1 >= p.n THEN "dstport" ELSE @]
    [] p.state = "dstport" -> [p EXCEPT !.port  = Append(@, b),
                                        !.state = IF Len(p.port) + 1 >= 2 THEN "done" ELSE @]

-----------------------------------------------------------------------------
(* The parser of a state, whichever it is.                                 *)
Feed(p, b, auth_on) ==
  CASE p.kind = "hello"   -> hello_parser_feed(p, b, auth_on)
    [] p.kind = "auth"    -> auth_parser_feed(p, b)
    [] p.kind = "request" -> request_parser_feed(p, b)

(* Mutant: the bytes after the message are dropped.                        *)
ConsumeAll(p, bytes, auth_on) ==
  LET run[k \in 0 .. Len(bytes)] ==
        IF k = 0 THEN p
        ELSE LET q == run[k - 1] IN IF IsDone(q) THEN q ELSE Feed(q, bytes[k], auth_on)
  IN  [p |-> run[Len(bytes)], n |-> Len(bytes)]

(* hello_consume, auth_consume and request_consume: bytes are fed to the   *)
(* parser until it is done; n is how many were.                            *)
Consume(p, bytes, auth_on) ==
  LET run[k \in 0 .. Len(bytes)] ==
        IF k = 0 THEN [p |-> p, n |-> 0]
        ELSE LET r == run[k - 1]
             IN  IF IsDone(r.p) THEN r ELSE [p |-> Feed(r.p, bytes[k], auth_on), n |-> k]
  IN  run[Len(bytes)]

-----------------------------------------------------------------------------
(* The replies.                                                            *)

hello_marshall(method)   == <<VERSION_SOCKS, method>>
auth_marshall(status)    == <<VERSION_AUTH, status>>
request_marshall(status) ==
  <<VERSION_SOCKS, status, 0, socks_req_addrtype_ipv4, 0, 0, 0, 0, 0, 0>>
=============================================================================
