--------------------------- MODULE RegistryProofs ---------------------------
(***************************************************************************)
(* What follows from the promise of the monitor, for any clients, requests *)
(* and sizes of the tables.                                                *)
(***************************************************************************)
EXTENDS Registry, FiniteSetTheorems, TLAPS

RInv == NamesUnique /\ TablesFit /\ RootStays

(* One more element with a new name.                                       *)
LEMMA AddOne ==
  ASSUME NEW S, NEW max \in Nat, NEW e,
         IsFiniteSet(S), Cardinality(S) < max,
         \A u, v \in S : u.uname = v.uname => u = v,
         e.uname \notin {u.uname : u \in S}
  PROVE  /\ IsFiniteSet(S \cup {e}) /\ Cardinality(S \cup {e}) <= max
         /\ \A u, v \in S \cup {e} : u.uname = v.uname => u = v
<1>1. e \notin S
  OBVIOUS
<1>2. IsFiniteSet(S \cup {e}) /\ Cardinality(S \cup {e}) = Cardinality(S) + 1
  BY <1>1, FS_AddElement
<1>3. Cardinality(S) \in Nat
  BY FS_CardinalityType
<1>4. Cardinality(S \cup {e}) <= max
  BY <1>2, <1>3
<1>5. \A u, v \in S \cup {e} : u.uname = v.uname => u = v
  OBVIOUS
<1> QED
  BY <1>2, <1>4, <1>5

(* One less.                                                               *)
LEMMA DropOne ==
  ASSUME NEW S, NEW max \in Nat, NEW e,
         IsFiniteSet(S), Cardinality(S) <= max,
         \A u, v \in S : u.uname = v.uname => u = v
  PROVE  /\ IsFiniteSet(S \ {e}) /\ Cardinality(S \ {e}) <= max
         /\ \A u, v \in S \ {e} : u.uname = v.uname => u = v
<1>1. S \ {e} \subseteq S
  OBVIOUS
<1>2. IsFiniteSet(S \ {e}) /\ Cardinality(S \ {e}) <= Cardinality(S)
  BY <1>1, FS_Subset
<1>3. Cardinality(S) \in Nat /\ Cardinality(S \ {e}) \in Nat
  BY <1>2, FS_CardinalityType
<1> QED
  BY <1>2, <1>3

(* An executed request keeps the tables sound.                             *)
LEMMA ExecuteKeeps ==
  ASSUME MaxUsers \in Nat, MaxAdmins \in Nat, RInv, NEW c \in Clients, Execute(c)
  PROVE  RInv'
<1> USE DEF RInv, NamesUnique, TablesFit, RootStays
<1>1. CASE AddUser(c)
  <2>1. PICK u \in users' : u.uname \notin UserNames /\ users' = users \cup {u}
    BY <1>1 DEF AddUser
  <2>2. /\ IsFiniteSet(users') /\ Cardinality(users') <= MaxUsers
        /\ \A v, w \in users' : v.uname = w.uname => v = w
    <3>1. Cardinality(users) < MaxUsers
      BY <1>1 DEF AddUser
    <3>2. u.uname \notin {v.uname : v \in users}
      BY <2>1 DEF UserNames
    <3>3. /\ IsFiniteSet(users \cup {u}) /\ Cardinality(users \cup {u}) <= MaxUsers
          /\ \A v, w \in users \cup {u} : v.uname = w.uname => v = w
      BY <3>1, <3>2, AddOne
    <3> QED
      BY <2>1, <3>3
  <2> QED
    BY <1>1, <2>2 DEF AddUser
<1>2. CASE DelUser(c)
  <2>1. PICK u \in users : users' = users \ {u}
    BY <1>2 DEF DelUser
  <2>2. /\ IsFiniteSet(users \ {u}) /\ Cardinality(users \ {u}) <= MaxUsers
        /\ \A v, w \in users \ {u} : v.uname = w.uname => v = w
    BY DropOne
  <2> QED
    BY <1>2, <2>1, <2>2 DEF DelUser
<1>3. CASE AddAdmin(c)
  <2>1. PICK a \in admins' : a.uname \notin AdminNames /\ admins' = admins \cup {a}
    BY <1>3 DEF AddAdmin
  <2>2. Cardinality(admins) < MaxAdmins
    BY <1>3 DEF AddAdmin
  <2>3. a.uname \notin {v.uname : v \in admins}
    BY <2>1 DEF AdminNames
  <2>4. /\ IsFiniteSet(admins \cup {a}) /\ Cardinality(admins \cup {a}) <= MaxAdmins
        /\ \A v, w \in admins \cup {a} : v.uname = w.uname => v = w
    BY <2>2, <2>3, AddOne
  <2> QED
    BY <1>3, <2>1, <2>4 DEF AddAdmin
<1>4. CASE DelAdmin(c)
  <2>1. PICK a \in admins \ {Root} : admins' = admins \ {a}
    BY <1>4 DEF DelAdmin
  <2>2. /\ IsFiniteSet(admins \ {a}) /\ Cardinality(admins \ {a}) <= MaxAdmins
        /\ \A v, w \in admins \ {a} : v.uname = w.uname => v = w
    BY DropOne
  <2> QED
    BY <1>4, <2>1, <2>2 DEF DelAdmin
<1>5. CASE SetDisector(c)
  BY <1>5 DEF SetDisector
<1> QED
  BY <1>1, <1>2, <1>3, <1>4, <1>5 DEF Execute

(* Every other step leaves both tables alone.                              *)
LEMMA StepKeeps ==
  ASSUME MaxUsers \in Nat, MaxAdmins \in Nat, RInv, [RNext]_rvars
  PROVE  RInv'
<1>1. ASSUME NEW c \in Clients, Execute(c)
      PROVE  RInv'
  BY <1>1, ExecuteKeeps
<1>2. CASE UNCHANGED <<users, admins>>
  BY <1>2 DEF RInv, NamesUnique, TablesFit, RootStays
<1>3. UNCHANGED <<users, admins>> \/ \E c \in Clients : Execute(c)
  BY DEF RNext, rvars, Mix, Stop, Ask, NoEffect
<1> QED
  BY <1>1, <1>2, <1>3

(* The tables of the monitor and of the proxy stay sound whatever is asked *)
(* of the monitor (socksv5_register_user, monitor_register_admin and their *)
(* counterparts), even if data of several requests were mixed.             *)
THEOREM RegistrySound ==
  ASSUME MaxUsers \in Nat, MaxAdmins \in Nat \ {0}
  PROVE  RSpec => [](NamesUnique /\ TablesFit /\ RootStays)
<1>1. RInit => RInv
  <2> SUFFICES ASSUME RInit
               PROVE  RInv
    OBVIOUS
  <2>1. IsFiniteSet({Root}) /\ Cardinality({Root}) = 1
    BY FS_Singleton
  <2> QED
    BY <2>1 DEF RInit, RInv, NamesUnique, TablesFit, RootStays
<1>2. RInv /\ [RNext]_rvars => RInv'
  BY StepKeeps
<1> QED
  BY <1>1, <1>2, PTL DEF RSpec, RInv

(* Only a request that carries an administrator's token changes anything   *)
(* (monitor_process tests monitor_is_admin before its switch).             *)
THEOREM RegistryAuthorised == RSpec => OnlyAuthorised
<1> DEFINE Dom == DOMAIN pending = Clients
<1>1. RInit => Dom
  BY DEF RInit
<1>2. Dom /\ [RNext]_rvars => Dom'
  <2> SUFFICES ASSUME Dom, [RNext]_rvars
               PROVE  Dom'
    OBVIOUS
  <2>1. \/ UNCHANGED pending
        \/ pending' = [c \in Clients |-> NoRequest]
        \/ \E c \in Clients : pending' = [pending EXCEPT ![c] = pending'[c]]
        \/ \E c \in Clients : pending' = [pending EXCEPT ![c] = NoRequest]
    BY DEF RNext, rvars, Mix, Stop, Ask, Execute, NoEffect, Over
  <2> QED
    BY <2>1
<1>3. Dom /\ [RNext]_rvars => [ChangeByAdmin]_rvars
  <2> SUFFICES ASSUME Dom, RNext, ~UNCHANGED <<users, admins, disector>>
               PROVE  ChangeByAdmin
    BY DEF ChangeByAdmin, rvars
  <2>1. PICK c \in Clients : Execute(c)
    BY DEF RNext, Mix, Stop, Ask, NoEffect
  <2>2. pending[c] # NoRequest /\ pending' = [pending EXCEPT ![c] = NoRequest]
    BY <2>1 DEF Execute, Over
  <2>3. pending'[c] = NoRequest
    BY <2>2
  <2>4. \E a \in admins : a.token = pending[c].token
    BY <2>1 DEF Execute, Authorised
  <2> QED
    BY <2>2, <2>3, <2>4 DEF ChangeByAdmin
<1> QED
  BY <1>1, <1>2, <1>3, PTL DEF RSpec, OnlyAuthorised
=============================================================================
