------------------------------- MODULE Users -------------------------------
(***************************************************************************)
(* The table of proxy users of socks5nio.c, which the monitor changes and  *)
(* the AUTH states of every connection look up.                            *)
(*                                                                         *)
(* A name or a password is a C string: the sequence of its bytes without   *)
(* the final 0.                                                            *)
(***************************************************************************)
EXTENDS Integers, SequencesExt

CONSTANT MaxUsers     \* MAX_USERS

ASSUME MaxUsersAssumption == MaxUsers \in Nat \ {0}

(* What strcmp() and strncpy() take from an array: all up to the first 0.  *)
CStr(bytes) == SubSeq(bytes, 1, SelectInSeq(bytes \o <<0>>, LAMBDA b : b = 0) - 1)

(* users[] and registered_users. An entry beyond registered_users keeps    *)
(* whatever was last stored there.                                         *)
NoUsers == [slot |-> [i \in 1 .. MaxUsers |-> [uname |-> <<>>, passwd |-> <<>>]], n |-> 0]

Position(t, name) == {i \in 1 .. t.n : t.slot[i].uname = name}

Found(t, name, pass) ==
  {i \in 1 .. t.n : t.slot[i].uname = name /\ t.slot[i].passwd = pass}

(* What socksv5_register_user returns: 1 when full, -1 for a known name.   *)
RegisterStatus(t, name) ==
  IF t.n >= MaxUsers THEN 1 ELSE IF Position(t, name) # {} THEN -1 ELSE 0

(* Mutant: the new user goes first.                                        *)
RegisterFirst(t, name, pass) ==
  IF RegisterStatus(t, name) # 0 THEN t
  ELSE [slot |-> [i \in 1 .. MaxUsers |->
                    IF i = 1 THEN [uname |-> name, passwd |-> pass] ELSE t.slot[i - 1]],
        n    |-> t.n + 1]

(* ... and what it does to the table.                                      *)
socksv5_register_user(t, name, pass) ==
  IF RegisterStatus(t, name) # 0 THEN t
  ELSE [slot |-> [t.slot EXCEPT ![t.n + 1] = [uname |-> name, passwd |-> pass]],
        n    |-> t.n + 1]

(* The users after the removed one move down; the last slot is not cleared. *)
socksv5_unregister_user(t, name) ==
  IF Position(t, name) = {} THEN t
  ELSE LET gone == Min(Position(t, name))
       IN  [slot |-> [i \in 1 .. MaxUsers |->
                        IF i \in gone .. t.n - 1 THEN t.slot[i + 1] ELSE t.slot[i]],
            n    |-> t.n - 1]

(* Names separated by a 0, as both lists of names are sent: each is copied *)
(* with its 0, and the last 0 is left out.                                 *)
NameList(names) ==
  LET list[k \in 0 .. Len(names)] ==
        IF k = 0 THEN <<>>
        ELSE IF k = 1 THEN names[k]
        ELSE list[k - 1] \o <<0>> \o names[k]
  IN  list[Len(names)]

socksv5_get_users(t) == NameList([i \in 1 .. t.n |-> t.slot[i].uname])
=============================================================================
