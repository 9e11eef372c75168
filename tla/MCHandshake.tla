---------------------------- MODULE MCHandshake ----------------------------
(* Instances of Handshake for TLC: letters are their ASCII codes.          *)
EXTENDS Handshake

MCAccounts == <<[uname |-> <<97>>, passwd |-> <<112>>], [uname |-> <<98, 99>>, passwd |-> <<113>>]>>

(* An old version, no method, one method, both.                           *)
MCHellos == {[kind |-> "hello", ver |-> 4, methods |-> <<0>>]}
       \cup [kind : {"hello"}, ver : {VERSION_SOCKS}, methods : {<<>>, <<2>>, <<0, 2>>}]

(* The two accounts, a wrong password, an empty one.                       *)
MCAuths == {[kind |-> "auth"] @@ a : a \in Range(MCAccounts)}
      \cup [kind : {"auth"}, uname : {<<97>>}, passwd : {<<113>>, <<>>}]

(* An address, a name, an empty name, a command and an address type that   *)
(* are not supported.                                                      *)
MCRequests ==
  {[kind |-> "request", port |-> <<0, 80>>] @@ r : r \in
    {[cmd |-> 1, atyp |-> 1, addr |-> <<10>>],
     [cmd |-> 1, atyp |-> 3, addr |-> <<120, 121>>],
     [cmd |-> 1, atyp |-> 3, addr |-> <<>>],
     [cmd |-> 2, atyp |-> 4, addr |-> <<1, 2>>],
     [cmd |-> 1, atyp |-> 9, addr |-> <<1>>]}}
=============================================================================
