------------------------------ MODULE Registry ------------------------------
(***************************************************************************)
(* What the monitor promises its clients: each request is carried out at   *)
(* most once, all of it in one step, with the data that were sent, and     *)
(* only if its token is an administrator's at that moment.                 *)
(*                                                                         *)
(* The one exception is stated rather than hidden: the data of a request   *)
(* may be anything if another request's arrived in between (`mixed').      *)
(***************************************************************************)
EXTENDS FiniteSets, Naturals

CONSTANTS
  Clients,
  Root,           \* the administrator that is always there
  MaxUsers,
  MaxAdmins,
  NoRequest

VARIABLES
  users,          \* [uname, passwd]
  admins,         \* [uname, token]
  disector,       \* the POP3 dissector is on
  pending,        \* the request each client waits for
  mixed           \* the clients whose request was mixed with another one

rvars == <<users, admins, disector, pending, mixed>>

UserNames  == {u.uname : u \in users}
AdminNames == {a.uname : a \in admins}

RInit ==
  /\ \A u, v \in users : u.uname = v.uname => u = v
  /\ IsFiniteSet(users) /\ Cardinality(users) <= MaxUsers
  /\ admins = {Root}
  /\ disector \in BOOLEAN
  /\ pending = [c \in Clients |-> NoRequest]
  /\ mixed = {}

Ask(c) ==
  /\ pending[c] = NoRequest
  /\ pending'[c] # NoRequest
  /\ pending' = [pending EXCEPT ![c] = pending'[c]]
  /\ UNCHANGED <<users, admins, disector, mixed>>

(* The requests of c and of others get mixed up.                           *)
Mix ==
  /\ mixed \subseteq mixed'
  /\ \A c \in mixed' \ mixed : pending[c] # NoRequest
  /\ UNCHANGED <<users, admins, disector, pending>>

(* c's request is over. Its outcome may mix up others still.               *)
Over(c) ==
  /\ pending' = [pending EXCEPT ![c] = NoRequest]
  /\ c \notin mixed'
  /\ mixed \ {c} \subseteq mixed'
  /\ \A d \in mixed' \ mixed : pending'[d] # NoRequest

(* A name and a secret are as c sent them.                                 *)
AsSent(c, name, secret) ==
  c \notin mixed => name = pending[c].name /\ secret = pending[c].secret

Authorised(c) == \E a \in admins : a.token = pending[c].token

AddUser(c) ==
  /\ pending[c].cmd = "add_user"
  /\ Cardinality(users) < MaxUsers
  /\ \E u \in users' : /\ u.uname \notin UserNames
                       /\ users' = users \cup {u}
                       /\ AsSent(c, u.uname, u.passwd)
  /\ UNCHANGED <<admins, disector>>

DelUser(c) ==
  /\ pending[c].cmd = "del_user"
  /\ \E u \in users : users' = users \ {u} /\ AsSent(c, u.uname, pending[c].secret)
  /\ UNCHANGED <<admins, disector>>

AddAdmin(c) ==
  /\ pending[c].cmd = "add_admin"
  /\ Cardinality(admins) < MaxAdmins
  /\ \E a \in admins' : /\ a.uname \notin AdminNames
                        /\ admins' = admins \cup {a}
                        /\ AsSent(c, a.uname, a.token)
  /\ UNCHANGED <<users, disector>>

DelAdmin(c) ==
  /\ pending[c].cmd = "del_admin"
  /\ \E a \in admins \ {Root} : admins' = admins \ {a} /\ AsSent(c, a.uname, pending[c].secret)
  /\ UNCHANGED <<users, disector>>

SetDisector(c) ==
  /\ pending[c].cmd = "disector"
  /\ disector' \in BOOLEAN
  /\ c \notin mixed => disector' = (pending[c].secret = <<1>>)
  /\ UNCHANGED <<users, admins>>

Execute(c) ==
  /\ pending[c] # NoRequest
  /\ Authorised(c)
  /\ AddUser(c) \/ DelUser(c) \/ AddAdmin(c) \/ DelAdmin(c) \/ SetDisector(c)
  /\ Over(c)

(* Answered without changing anything, or never answered.                  *)
NoEffect(c) ==
  /\ pending[c] # NoRequest
  /\ Over(c)
  /\ UNCHANGED <<users, admins, disector>>

(* The monitor exits and gives up what is pending.                         *)
Stop ==
  /\ pending' = [c \in Clients |-> NoRequest]
  /\ mixed' = {}
  /\ UNCHANGED <<users, admins, disector>>

RNext == Mix \/ Stop \/ \E c \in Clients : Ask(c) \/ Execute(c) \/ NoEffect(c)

RSpec == RInit /\ [][RNext]_rvars

-----------------------------------------------------------------------------
(* A name stands for one user and for one administrator (auth_process and  *)
(* the two unregister functions stop at the first entry), and neither table *)
(* outgrows its array.                                                     *)
NamesUnique ==
  /\ \A u, v \in users  : u.uname = v.uname => u = v
  /\ \A a, b \in admins : a.uname = b.uname => a = b

TablesFit ==
  /\ IsFiniteSet(users)  /\ Cardinality(users) <= MaxUsers
  /\ IsFiniteSet(admins) /\ Cardinality(admins) <= MaxAdmins

(* Root is never locked out.                                               *)
RootStays == Root \in admins

ChangeByAdmin ==
  users' # users \/ admins' # admins \/ disector' # disector =>
    \E c \in Clients : /\ pending[c] # NoRequest /\ pending'[c] = NoRequest
                       /\ \E a \in admins : a.token = pending[c].token

(* A step that changes a table or the switch ends one request whose token  *)
(* was an administrator's before it (monitor_process).                     *)
OnlyAuthorised == [][ChangeByAdmin]_rvars
=============================================================================
