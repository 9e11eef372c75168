--------------------------- MODULE SelectorProofs ---------------------------
(***************************************************************************)
(* Proofs about the selector: the sets given to pselect() are exact, a     *)
(* round serves what pselect() reported, and the jobs of the resolver      *)
(* threads are neither lost, doubled nor slept on.                         *)
(***************************************************************************)
EXTENDS Selector, FiniteSetTheorems, WellFoundedInduction, TLAPS

-----------------------------------------------------------------------------
(* The largest element of a bounded set.                                   *)

(* A set of numbers that is not empty has a smallest one.                  *)
LEMMA MinExists ==
  ASSUME NEW T \in SUBSET Nat, T # {}
  PROVE  \E x \in T : \A y \in T : x <= y
<1>1. PICK x \in T : \A y \in T : ~(<<y, x>> \in OpToRel(<, Nat))
  BY NatLessThanWellFounded, WFMin
<1>2. ASSUME NEW y \in T, y < x PROVE FALSE
  <2> DEFINE P == {pair \in Nat \X Nat : pair[1] < pair[2]}
  <2>1. <<y, x>> \in P
    BY <1>2
  <2>2. P = OpToRel(<, Nat)
    BY Zenon DEF OpToRel
  <2> HIDE DEF P
  <2> QED
    BY <1>1, <2>1, <2>2, Zenon
<1> QED
  BY <1>2

(* A bounded set of numbers has a largest one.                             *)
LEMMA MaxExists ==
  ASSUME NEW m \in Nat, NEW S \in SUBSET (0 .. m), S # {}
  PROVE  \E x \in S : \A y \in S : y <= x
<1> DEFINE T == {k \in Nat : \E x \in S : k = m - x}
<1>1. T \in SUBSET Nat /\ T # {}
  <2>1. PICK x \in S : TRUE
    OBVIOUS
  <2>2. m - x \in T
    BY <2>1
  <2> QED
    BY <2>2
<1>2. PICK t \in T : \A u \in T : t <= u
  BY <1>1, MinExists
<1>3. PICK x \in S : t = m - x
  OBVIOUS
<1>4. ASSUME NEW y \in S PROVE y <= x
  <2>1. m - y \in T
    OBVIOUS
  <2> QED
    BY <1>2, <1>3, <2>1
<1> QED
  BY <1>4

-----------------------------------------------------------------------------
(* The functions on a struct fdselector.                                   *)

(* MasterExact for a selector s.                                           *)
SelOK(s) ==
  /\ s \in Selectors
  /\ \A op \in Ops : s.master[op] = {fd \in s.used : op \in s.interest[fd]}
  /\ \A fd \in s.used : fd <= s.max_fd
  /\ s.max_fd = 0 \/ s.max_fd \in s.used

(* A selector field by field.                                              *)
LEMMA SelectorFields ==
  ASSUME NEW s \in Selectors
  PROVE  /\ s = [used |-> s.used, interest |-> s.interest, data |-> s.data, max_fd |-> s.max_fd,
                 master |-> s.master]
         /\ s.used \in SUBSET Fds /\ s.interest \in [Fds -> SUBSET Ops]
         /\ s.data \in [Fds -> Fds \cup {NoFd}] /\ s.max_fd \in Fds /\ s.master \in [Ops -> SUBSET Fds]
BY DEF Selectors

(* What items_update_fdset_for_fd does to the sets, when they were exact   *)
(* but for fd.                                                             *)
LEMMA UpdateOK ==
  ASSUME NEW s \in Selectors, NEW fd \in Fds,
         \A op \in Ops : s.master[op] \ {fd} = {f \in s.used : op \in s.interest[f]} \ {fd},
         fd \in s.used \/ s.interest[fd] = {}
  PROVE  LET t == items_update_fdset_for_fd(s, fd)
         IN  /\ t \in Selectors
             /\ t.used = s.used /\ t.interest = s.interest /\ t.data = s.data /\ t.max_fd = s.max_fd
             /\ \A op \in Ops : t.master[op] = {f \in s.used : op \in s.interest[f]}
<1> DEFINE m == [op \in Ops |-> IF op \in s.interest[fd] THEN s.master[op] \cup {fd}
                                                         ELSE s.master[op] \ {fd}]
           t == [s EXCEPT !.master = m]
<1>1. s.master \in [Ops -> SUBSET Fds] /\ s.interest \in [Fds -> SUBSET Ops]
  BY SelectorFields
<1>2. m \in [Ops -> SUBSET Fds]
  BY <1>1
<1>3. ASSUME NEW op \in Ops PROVE m[op] = {f \in s.used : op \in s.interest[f]}
  <2>1. CASE op \in s.interest[fd]
    <3>1. m[op] = s.master[op] \cup {fd}
      BY <2>1
    <3>2. fd \in s.used
      BY <2>1
    <3> HIDE DEF m
    <3> QED
      BY <2>1, <3>1, <3>2
  <2>2. CASE op \notin s.interest[fd]
    <3>1. m[op] = s.master[op] \ {fd}
      BY <2>2
    <3> HIDE DEF m
    <3> QED
      BY <2>2, <3>1
  <2> QED
    BY <2>1, <2>2
<1>4. items_update_fdset_for_fd(s, fd) = t
  BY DEF items_update_fdset_for_fd
<1> HIDE DEF m
<1>5. t.used = s.used /\ t.interest = s.interest /\ t.data = s.data /\ t.max_fd = s.max_fd
      /\ t.master = m /\ t \in Selectors
  BY <1>2, SelectorFields DEF Selectors
<1> QED
  BY <1>3, <1>4, <1>5

(* selector_set_interest keeps the sets exact.                             *)
LEMMA SetInterestOK ==
  ASSUME NEW s, SelOK(s), NEW fd \in s.used, NEW ops \in SUBSET Ops
  PROVE  LET t == selector_set_interest(s, fd, ops)
         IN  /\ SelOK(t) /\ t.used = s.used /\ t.data = s.data
             /\ t.interest = [s.interest EXCEPT ![fd] = ops]
<1> DEFINE i == [s.interest EXCEPT ![fd] = ops]
           r == [s EXCEPT !.interest = i]
<1>1. s \in Selectors /\ s.interest \in [Fds -> SUBSET Ops] /\ fd \in Fds
  BY SelectorFields DEF SelOK
<1>2. i \in [Fds -> SUBSET Ops] /\ \A f \in Fds : f # fd => i[f] = s.interest[f]
  BY <1>1
<1>3. s.used \in SUBSET Fds
  BY <1>1, SelectorFields
<1> HIDE DEF i
<1>4. r \in Selectors /\ r.used = s.used /\ r.interest = i /\ r.data = s.data /\ r.max_fd = s.max_fd
      /\ r.master = s.master
  BY <1>1, <1>2, SelectorFields DEF Selectors
<1> HIDE DEF r
<1>5. \A op \in Ops : r.master[op] \ {fd} = {f \in r.used : op \in r.interest[f]} \ {fd}
  BY <1>2, <1>3, <1>4 DEF SelOK
<1> DEFINE t == items_update_fdset_for_fd(r, fd)
<1>6. /\ t \in Selectors
      /\ t.used = r.used /\ t.interest = r.interest /\ t.data = r.data /\ t.max_fd = r.max_fd
      /\ \A op \in Ops : t.master[op] = {f \in r.used : op \in r.interest[f]}
  BY <1>1, <1>4, <1>5, UpdateOK
<1>7. t = selector_set_interest(s, fd, ops)
  BY DEF selector_set_interest, r, i
<1> HIDE DEF t
<1> QED
  BY <1>4, <1>6, <1>7 DEF SelOK, i

(* What selector_register makes of s.                                      *)
RegisterEffect(s, fd, ops, c, t) ==
  /\ SelOK(t) /\ t.used = s.used \cup {fd}
  /\ t.interest[fd] = ops /\ t.data[fd] = c
  /\ \A f \in Fds \ {fd} : t.interest[f] = s.interest[f] /\ t.data[f] = s.data[f]

(* selector_register keeps the sets and the maximum exact.                 *)
LEMMA RegisterOK ==
  ASSUME NEW s, SelOK(s), NEW fd \in Fds, fd \notin s.used, NEW ops, ops \subseteq Ops, NEW c \in Fds,
         NEW t, t = selector_register(s, fd, ops, c)
  PROVE  RegisterEffect(s, fd, ops, c, t)
<1> DEFINE i == [s.interest EXCEPT ![fd] = ops]
           d == [s.data EXCEPT ![fd] = c]
           u == s.used \cup {fd}
           m == IF fd > s.max_fd THEN fd ELSE s.max_fd
           r == [s EXCEPT !.used = u, !.interest = i, !.data = d, !.max_fd = m]
<1>1. /\ s \in Selectors /\ s.interest \in [Fds -> SUBSET Ops] /\ s.used \in SUBSET Fds
      /\ s.data \in [Fds -> Fds \cup {NoFd}] /\ s.max_fd \in Fds
  BY SelectorFields DEF SelOK
<1>2. i \in [Fds -> SUBSET Ops] /\ \A f \in Fds : f # fd => i[f] = s.interest[f]
  BY <1>1
<1>3. d \in [Fds -> Fds \cup {NoFd}]
  BY <1>1
<1>4. u \in SUBSET Fds /\ m \in Fds /\ (\A f \in u : f <= m) /\ (m = 0 \/ m \in u)
  <2>1. \A f \in Fds : f \in Int
    BY SelectorAssumption DEF SelectorAssumption, Fds
  <2> QED
    BY <1>1, <2>1 DEF SelOK
<1>5. \A op \in Ops : s.master[op] \ {fd} = {f \in u : op \in i[f]} \ {fd}
  BY <1>1, <1>2 DEF SelOK
<1>6. fd \in u
  OBVIOUS
<1> HIDE DEF i, d, u, m
<1>7. r \in Selectors /\ r.used = u /\ r.interest = i /\ r.data = d /\ r.max_fd = m
      /\ r.master = s.master
  BY <1>1, <1>2, <1>3, <1>4, SelectorFields DEF Selectors
<1> HIDE DEF r
<1>8. t = items_update_fdset_for_fd(r, fd)
  BY DEF selector_register, r, i, d, u, m
<1>9. /\ t \in Selectors
      /\ t.used = r.used /\ t.interest = r.interest /\ t.data = r.data /\ t.max_fd = r.max_fd
      /\ \A op \in Ops : t.master[op] = {f \in r.used : op \in r.interest[f]}
  BY <1>5, <1>6, <1>7, <1>8, UpdateOK
<1>10. SelOK(t)
  BY <1>4, <1>7, <1>9 DEF SelOK
<1>11. i[fd] = ops /\ d[fd] = c /\ \A f \in Fds \ {fd} : i[f] = s.interest[f] /\ d[f] = s.data[f]
  BY <1>1 DEF i, d
<1> QED
  BY <1>7, <1>9, <1>10, <1>11 DEF u, RegisterEffect

(* items_max_fd finds the largest item left.                               *)
LEMMA MaxFdOK ==
  ASSUME NEW s \in Selectors, \A fd \in s.used : fd <= s.max_fd
  PROVE  /\ items_max_fd(s) \in Fds /\ \A fd \in s.used : fd <= items_max_fd(s)
         /\ items_max_fd(s) = 0 \/ items_max_fd(s) \in s.used
<1> DEFINE seen == {fd \in s.used : fd <= s.max_fd}
           P(x) == x \in seen \cup {0} /\ \A fd \in seen : fd <= x
<1>1. seen = s.used /\ s.used \in SUBSET Fds /\ 0 \in Fds
  BY SelectorAssumption, SelectorFields DEF SelectorAssumption, Fds
<1>2. \E x \in seen \cup {0} : \A fd \in seen : fd <= x
  <2>1. CASE s.used = {}
    BY <1>1, <2>1
  <2>2. CASE s.used # {}
    <3>1. MaxFd \in Nat /\ s.used \in SUBSET (0 .. MaxFd)
      BY <1>1, SelectorAssumption DEF SelectorAssumption, Fds
    <3>2. \E x \in s.used : \A fd \in s.used : fd <= x
      BY <2>2, <3>1, MaxExists
    <3> QED
      BY <1>1, <3>2
  <2> QED
    BY <2>1, <2>2
<1>3. items_max_fd(s) = CHOOSE x \in seen \cup {0} : \A fd \in seen : fd <= x
  BY DEF items_max_fd
<1>4. items_max_fd(s) \in seen \cup {0} /\ \A fd \in seen : fd <= items_max_fd(s)
  BY <1>2, <1>3
<1> QED
  BY <1>1, <1>4

(* selector_unregister_fd keeps them exact.                                *)
LEMMA UnregisterOK ==
  ASSUME NEW s, SelOK(s), NEW fd \in s.used
  PROVE  LET t == selector_unregister_fd(s, fd)
         IN  /\ SelOK(t) /\ t.used = s.used \ {fd}
             /\ t.interest = [s.interest EXCEPT ![fd] = {}] /\ t.data = [s.data EXCEPT ![fd] = NoFd]
<1> DEFINE i == [s.interest EXCEPT ![fd] = {}]
           d == [s.data EXCEPT ![fd] = NoFd]
           r == selector_set_interest(s, fd, {})
           u == s.used \ {fd}
           q == [r EXCEPT !.used = u, !.data = d]
<1>1. s \in Selectors /\ s.data \in [Fds -> Fds \cup {NoFd}] /\ s.used \in SUBSET Fds
      /\ s.interest \in [Fds -> SUBSET Ops]
  BY SelectorFields DEF SelOK
<1>2. SelOK(r) /\ r.used = s.used /\ r.data = s.data /\ r.interest = i
  BY SetInterestOK
<1>3. r = items_update_fdset_for_fd([s EXCEPT !.interest = i], fd)
  BY DEF selector_set_interest
<1>4. d \in [Fds -> Fds \cup {NoFd}] /\ u \in SUBSET Fds /\ i[fd] = {}
  BY <1>1
<1>5. \A f \in u : f <= r.max_fd
  BY <1>2 DEF SelOK
<1>6. \A f \in s.used : f \in u <=> f # fd
  OBVIOUS
<1> HIDE DEF r, d, i, u
<1>7. \A op \in Ops : r.master[op] = {f \in u : op \in i[f]}
  <2>1. u \subseteq s.used
    BY DEF u
  <2>2. \A op \in Ops : r.master[op] = {f \in s.used : op \in i[f]}
    BY <1>2 DEF SelOK
  <2> QED
    BY <1>4, <1>6, <2>1, <2>2
<1>8. q \in Selectors /\ q.used = u /\ q.data = d /\ q.interest = i /\ q.max_fd = r.max_fd
      /\ q.master = r.master
  BY <1>2, <1>4, SelectorFields DEF Selectors, SelOK
<1> HIDE DEF q
<1> DEFINE m == items_max_fd(q)
           t == [q EXCEPT !.max_fd = m]
<1>9. m \in Fds /\ (\A f \in u : f <= m) /\ (m = 0 \/ m \in u)
  BY <1>5, <1>8, MaxFdOK
<1>10. t = selector_unregister_fd(s, fd)
  BY <1>2, <1>3 DEF selector_unregister_fd, q, u, d, i
<1> HIDE DEF m
<1>11. t \in Selectors /\ t.used = u /\ t.data = d /\ t.interest = i /\ t.max_fd = m
       /\ t.master = r.master
  BY <1>8, <1>9, SelectorFields DEF Selectors
<1> HIDE DEF t
<1>12. SelOK(t)
  BY <1>7, <1>9, <1>11 DEF SelOK
<1> QED
  BY <1>10, <1>11, <1>12 DEF u, d, i

-----------------------------------------------------------------------------
(* The items of a selector s: those of a connection name its client, which *)
(* is one of them, and a connection has at most one origin. k are the      *)
(* origins in REQUEST_CONNECTING, whose clients are watched for nothing.   *)

LinksOK(s) ==
  /\ Passive \subseteq s.used
  /\ \A f \in Passive : s.data[f] = NoFd
  /\ \A f \in s.used \ Passive : s.data[f] \in s.used \ Passive /\ s.data[s.data[f]] = s.data[f]
  /\ \A f, g \in s.used \ Passive : s.data[f] = s.data[g] /\ f # s.data[f] /\ g # s.data[g] => f = g

ConnectingOK(s, k) ==
  \A f \in k : f \in s.used \ Passive /\ s.data[f] # f /\ s.interest[s.data[f]] = {}

ItemsOK(s, k) == SelOK(s) /\ LinksOK(s) /\ ConnectingOK(s, k)

(* A client without an origin, and one that waits for a name.              *)
Alone(s, fd) == s.data[fd] = fd /\ \A f \in s.used : s.data[f] = fd => f = fd

Waits(s, fd) == fd \in s.used \ Passive /\ Alone(s, fd) /\ s.interest[fd] = {}

(* The listening descriptors are descriptors.                              *)
LEMMA PassiveFds == Passive \subseteq Fds /\ NoFd \notin Fds
BY SelectorAssumption DEF SelectorAssumption, Fds, NoFd

(* A descriptor alone in its connection.                                   *)
LEMMA MembersAlone ==
  ASSUME NEW fd \in sel.used \ Passive, LinksOK(sel)
  PROVE  members(fd) = {fd} <=> Alone(sel, fd)
BY DEF members, client, origins, Alone, LinksOK

(* Waiting, in terms of the items.                                         *)
LEMMA WaitingWaits ==
  ASSUME NEW fd, LinksOK(sel)
  PROVE  Waiting(fd) <=> Waits(sel, fd)
BY MembersAlone DEF Waiting, Waits

(* What a handler for descriptor fd does: the items stay in order, no      *)
(* other client starts or stops waiting for a name, and its own waits      *)
(* afterwards only if a thread was started for it.                         *)
Handled(fd) ==
  /\ ItemsOK(sel', connecting')
  /\ fresh' \in SUBSET Fds
  /\ \A g \in Fds \ {fd} : Waits(sel', g) <=> Waits(sel, g)
  /\ \/ resolving' = resolving /\ ~Waits(sel', fd)
     \/ /\ resolving' = resolving \cup {fd} /\ Waits(sel', fd)
        /\ Cardinality(resolving) + signalling < MaxThreads

(* The interest of a client without an origin changes.                     *)
LEMMA AloneWatched ==
  ASSUME NEW s, NEW k, ItemsOK(s, k), NEW c \in s.used \ Passive, Alone(s, c), NEW ops \in SUBSET Ops
  PROVE  LET t == selector_set_interest(s, c, ops)
         IN  /\ ItemsOK(t, k)
             /\ \A g \in Fds \ {c} : Waits(t, g) <=> Waits(s, g)
             /\ Waits(t, c) <=> ops = {}
             /\ t.used = s.used /\ t.data = s.data /\ Alone(t, c) /\ t.interest[c] = ops
<1> DEFINE t == selector_set_interest(s, c, ops)
<1>1. SelOK(t) /\ t.used = s.used /\ t.data = s.data /\ t.interest = [s.interest EXCEPT ![c] = ops]
  BY SetInterestOK DEF ItemsOK
<1>2. s.interest \in [Fds -> SUBSET Ops] /\ s.used \in SUBSET Fds
  BY SelectorFields DEF ItemsOK, SelOK
<1> HIDE DEF t
<1>3. LinksOK(t)
  BY <1>1 DEF ItemsOK, LinksOK
<1>4. ConnectingOK(t, k)
  BY <1>1, <1>2 DEF ItemsOK, ConnectingOK, LinksOK, Alone
<1>5. \A g \in Fds \ {c} : Waits(t, g) <=> Waits(s, g)
  BY <1>1, <1>2 DEF Waits, Alone
<1>6. t.interest[c] = ops /\ Alone(t, c)
  BY <1>1, <1>2 DEF Alone
<1>7. Waits(t, c) <=> ops = {}
  BY <1>1, <1>6 DEF Waits
<1> QED
  BY <1>1, <1>3, <1>4, <1>5, <1>6, <1>7 DEF ItemsOK, t

(* A handler that changes an interest.                                     *)
LEMMA ConverseHandled ==
  ASSUME ItemsOK(sel, connecting), fresh \in SUBSET Fds, NEW fd \in sel.used \ Passive, Converse(fd)
  PROVE  Handled(fd) /\ resolving' = resolving
<1>1. Alone(sel, fd) /\ UNCHANGED <<fresh, connecting, resolving>>
  BY MembersAlone DEF Converse, ItemsOK
<1>2. PICK op \in Ops : sel' = selector_set_interest(sel, fd, {op})
  BY DEF Converse
<1> QED
  BY <1>1, <1>2, AloneWatched DEF Handled

(* A handler that starts a resolver.                                       *)
LEMMA ResolveHandled ==
  ASSUME ItemsOK(sel, connecting), fresh \in SUBSET Fds, NEW fd \in sel.used \ Passive, Resolve(fd)
  PROVE  Handled(fd)
<1>1. Alone(sel, fd) /\ UNCHANGED <<fresh, connecting>> /\ resolving' = resolving \cup {fd}
      /\ sel' = selector_set_interest(sel, fd, {})
      /\ Cardinality(resolving) + signalling < MaxThreads
  BY MembersAlone DEF Resolve, ItemsOK
<1> QED
  BY <1>1, AloneWatched DEF Handled

(* A client that is watched for nothing gets an origin.                    *)
LEMMA OriginAdded ==
  ASSUME NEW s, NEW k, ItemsOK(s, k), NEW c \in s.used \ Passive, Alone(s, c), s.interest[c] = {},
         NEW f \in Fds \ s.used
  PROVE  LET t == selector_register(s, f, {OP_WRITE}, c)
         IN  /\ ItemsOK(t, k \cup {f})
             /\ \A g \in Fds \ {c} : Waits(t, g) <=> Waits(s, g)
             /\ ~Waits(t, c)
<1> DEFINE t == selector_register(s, f, {OP_WRITE}, c)
<1>1. s.interest \in [Fds -> SUBSET Ops] /\ s.used \in SUBSET Fds /\ s.data \in [Fds -> Fds \cup {NoFd}]
  BY SelectorFields DEF ItemsOK, SelOK
<1>2. /\ SelOK(t) /\ t.used = s.used \cup {f} /\ t.data[f] = c
      /\ \A g \in Fds \ {f} : t.interest[g] = s.interest[g] /\ t.data[g] = s.data[g]
  <2>1. {OP_WRITE} \subseteq Ops /\ c \in Fds /\ SelOK(s) /\ f \in Fds /\ f \notin s.used
    BY <1>1 DEF Ops, ItemsOK
  <2>2. RegisterEffect(s, f, {OP_WRITE}, c, t)
    BY <2>1, RegisterOK
  <2> QED
    BY <2>2 DEF RegisterEffect
<1> HIDE DEF t
<1>3. /\ c # f
      /\ \A g \in Fds : g # f => t.data[g] = s.data[g] /\ t.interest[g] = s.interest[g]
  BY <1>2
<1>4. f \notin Passive
  BY DEF ItemsOK, LinksOK
<1>5. LinksOK(t)
  <2>1. /\ Passive \subseteq s.used
        /\ \A g \in Passive : s.data[g] = NoFd
        /\ \A g \in s.used \ Passive : s.data[g] \in s.used \ Passive /\ s.data[s.data[g]] = s.data[g]
        /\ \A g, h \in s.used \ Passive : s.data[g] = s.data[h] /\ g # s.data[g] /\ h # s.data[h] => g = h
    BY DEF ItemsOK, LinksOK
  <2>2. Passive \subseteq t.used /\ \A g \in Passive : t.data[g] = NoFd
    BY <1>1, <1>2, <1>3, <1>4, <2>1
  <2>3. \A g \in t.used \ Passive : t.data[g] \in t.used \ Passive /\ t.data[t.data[g]] = t.data[g]
    BY <1>1, <1>2, <1>3, <1>4, <2>1 DEF Alone
  <2>4. \A g, h \in t.used \ Passive : t.data[g] = t.data[h] /\ g # t.data[g] /\ h # t.data[h] => g = h
    BY <1>1, <1>2, <1>3, <1>4, <2>1 DEF Alone
  <2> QED
    BY <2>2, <2>3, <2>4 DEF LinksOK
<1>6. ConnectingOK(t, k \cup {f})
  BY <1>1, <1>2, <1>3, <1>4 DEF ItemsOK, ConnectingOK, LinksOK
<1>7. \A g \in Fds \ {c} : Waits(t, g) <=> Waits(s, g)
  BY <1>1, <1>2, <1>3, <1>4 DEF Waits, Alone
<1>8. ~Waits(t, c)
  BY <1>2, <1>3 DEF Waits, Alone
<1> QED
  BY <1>2, <1>5, <1>6, <1>7, <1>8 DEF ItemsOK, t

(* The origin of a client that is watched for nothing goes.                *)
LEMMA OriginRemoved ==
  ASSUME NEW s, NEW k, ItemsOK(s, k), NEW o \in k
  PROVE  LET t == selector_unregister_fd(s, o)
             c == s.data[o]
         IN  /\ ItemsOK(t, k \ {o})
             /\ \A g \in Fds \ {c} : Waits(t, g) <=> Waits(s, g)
             /\ c \in t.used \ Passive /\ Alone(t, c)
             /\ ~Waits(s, c) /\ ~Waits(t, o) /\ t.used = s.used \ {o} /\ c # o
<1> DEFINE t == selector_unregister_fd(s, o)
           c == s.data[o]
<1>1. s.interest \in [Fds -> SUBSET Ops] /\ s.used \in SUBSET Fds /\ s.data \in [Fds -> Fds \cup {NoFd}]
  BY SelectorFields DEF ItemsOK, SelOK
<1>2. o \in s.used \ Passive /\ c # o /\ s.interest[c] = {} /\ c \in s.used \ Passive /\ s.data[c] = c
  BY DEF ItemsOK, ConnectingOK, LinksOK
<1>3. SelOK(t) /\ t.used = s.used \ {o} /\ t.interest = [s.interest EXCEPT ![o] = {}]
      /\ t.data = [s.data EXCEPT ![o] = NoFd]
  BY <1>2, UnregisterOK DEF ItemsOK
<1>4. s.data[o] = c
  OBVIOUS
<1> HIDE DEF t, c
<1>5. \A g \in Fds : g # o => t.data[g] = s.data[g] /\ t.interest[g] = s.interest[g]
  BY <1>1, <1>3
<1>6. /\ Passive \subseteq s.used
      /\ \A g \in Passive : s.data[g] = NoFd
      /\ \A g \in s.used \ Passive : s.data[g] \in s.used \ Passive /\ s.data[s.data[g]] = s.data[g]
      /\ \A g, h \in s.used \ Passive : s.data[g] = s.data[h] /\ g # s.data[g] /\ h # s.data[h] => g = h
  BY DEF ItemsOK, LinksOK
<1>7. LinksOK(t)
  <2>2. Passive \subseteq t.used /\ \A g \in Passive : t.data[g] = NoFd
    BY <1>1, <1>2, <1>3, <1>5, <1>6
  <2>3. \A g \in t.used \ Passive : t.data[g] \in t.used \ Passive /\ t.data[t.data[g]] = t.data[g]
    BY <1>1, <1>2, <1>3, <1>4, <1>5, <1>6
  <2>4. \A g, h \in t.used \ Passive : t.data[g] = t.data[h] /\ g # t.data[g] /\ h # t.data[h] => g = h
    BY <1>1, <1>2, <1>3, <1>5, <1>6
  <2> QED
    BY <2>2, <2>3, <2>4 DEF LinksOK
<1>8. ConnectingOK(t, k \ {o})
  <2>1. \A f \in k : f \in s.used \ Passive /\ s.data[f] # f /\ s.interest[s.data[f]] = {}
    BY DEF ItemsOK, ConnectingOK
  <2>2. ASSUME NEW f \in k \ {o}
        PROVE  f \in t.used \ Passive /\ t.data[f] # f /\ t.interest[t.data[f]] = {}
    <3>1. f \in Fds /\ f # o /\ t.data[f] = s.data[f] /\ s.data[f] \in Fds
      BY <1>1, <1>5, <1>6, <2>1
    <3>2. s.data[f] # o
      BY <1>2, <1>4, <1>6, <2>1
    <3> QED
      BY <1>1, <1>3, <1>5, <2>1, <3>1, <3>2
  <2> QED
    BY <2>2 DEF ConnectingOK
<1>9. Alone(t, c)
  BY <1>1, <1>2, <1>3, <1>4, <1>5, <1>6, PassiveFds DEF Alone
<1>10. \A g \in Fds \ {c} : Waits(t, g) <=> Waits(s, g)
  BY <1>1, <1>2, <1>3, <1>4, <1>5, <1>6 DEF Waits, Alone
<1>11. ~Waits(s, c) /\ ~Waits(t, o)
  BY <1>2, <1>3, <1>4 DEF Waits, Alone
<1>12. c \in t.used \ Passive
  BY <1>2, <1>3
<1> QED
  BY <1>2, <1>3, <1>7, <1>8, <1>9, <1>10, <1>11, <1>12 DEF ItemsOK, t, c

(* A handler that connects.                                                *)
LEMMA ConnectHandled ==
  ASSUME ItemsOK(sel, connecting), fresh \in SUBSET Fds, NEW fd \in sel.used \ Passive, Connect(fd)
  PROVE  Handled(fd) /\ resolving' = resolving
<1> DEFINE s == selector_set_interest(sel, fd, {})
<1>1. Alone(sel, fd) /\ resolving' = resolving
  BY MembersAlone DEF Connect, ItemsOK
<1>2. PICK f \in Fds : /\ f \in Fds \ sel.used
                       /\ sel' = selector_register(s, f, {OP_WRITE}, fd)
                       /\ fresh' = fresh \cup {f}
                       /\ connecting' = connecting \cup {f}
  BY DEF Connect, LowestFree
<1>3. /\ ItemsOK(s, connecting)
      /\ \A g \in Fds \ {fd} : Waits(s, g) <=> Waits(sel, g)
      /\ s.used = sel.used /\ Alone(s, fd) /\ s.interest[fd] = {}
  BY <1>1, AloneWatched
<1> HIDE DEF s
<1>4. /\ ItemsOK(sel', connecting')
      /\ \A g \in Fds \ {fd} : Waits(sel', g) <=> Waits(s, g)
      /\ ~Waits(sel', fd)
  BY <1>2, <1>3, OriginAdded
<1> QED
  BY <1>1, <1>2, <1>3, <1>4 DEF Handled

(* A handler that connects to the next address.                            *)
LEMMA ConnectAgainHandled ==
  ASSUME ItemsOK(sel, connecting), fresh \in SUBSET Fds, NEW fd \in sel.used \ Passive, ConnectAgain(fd)
  PROVE  Handled(fd)
<1> DEFINE c == sel.data[fd]
           closed == selector_unregister_fd(sel, fd)
           s == selector_set_interest(closed, c, {})
<1>1. fd \in connecting /\ resolving' = resolving
  BY DEF ConnectAgain
<1>2. PICK f \in Fds : /\ f \in Fds \ closed.used
                       /\ sel' = selector_register(s, f, {OP_WRITE}, c)
                       /\ fresh' = fresh \cup {f}
                       /\ connecting' = (connecting \ {fd}) \cup {f}
  BY DEF ConnectAgain, LowestFree, client
<1>3. /\ ItemsOK(closed, connecting \ {fd})
      /\ \A g \in Fds \ {c} : Waits(closed, g) <=> Waits(sel, g)
      /\ c \in closed.used \ Passive /\ Alone(closed, c)
      /\ ~Waits(sel, c) /\ ~Waits(closed, fd) /\ c # fd /\ c \in Fds
  <2>1. sel.used \in SUBSET Fds
    BY SelectorFields DEF ItemsOK, SelOK
  <2> QED
    BY <1>1, <2>1, OriginRemoved
<1> HIDE DEF closed, c
<1>4. /\ ItemsOK(s, connecting \ {fd})
      /\ \A g \in Fds \ {c} : Waits(s, g) <=> Waits(closed, g)
      /\ s.used = closed.used /\ Alone(s, c) /\ s.interest[c] = {}
  BY <1>3, AloneWatched
<1> HIDE DEF s
<1>5. /\ ItemsOK(sel', connecting')
      /\ \A g \in Fds \ {c} : Waits(sel', g) <=> Waits(s, g)
      /\ ~Waits(sel', c)
  BY <1>2, <1>3, <1>4, OriginAdded
<1>6. fd \in Fds
  BY SelectorFields DEF ItemsOK, SelOK
<1>7. ~Waits(sel', fd) /\ \A g \in Fds \ {fd} : Waits(sel', g) <=> Waits(sel, g)
  BY <1>3, <1>4, <1>5, <1>6
<1> QED
  BY <1>1, <1>2, <1>5, <1>7 DEF Handled

(* The items of a client and its origin are watched for something else.    *)
LEMMA PairWatched ==
  ASSUME NEW s, NEW k, ItemsOK(s, k), NEW o \in s.used \ Passive, s.data[o] # o, o \notin k,
         NEW a \in SUBSET Ops, NEW b \in SUBSET Ops
  PROVE  LET c == s.data[o]
             t == selector_set_interest(selector_set_interest(s, c, a), o, b)
         IN  /\ ItemsOK(t, k)
             /\ \A g \in Fds : Waits(t, g) <=> Waits(s, g)
             /\ ~Waits(s, c) /\ ~Waits(s, o)
<1> DEFINE c == s.data[o]
           r == selector_set_interest(s, c, a)
           t == selector_set_interest(r, o, b)
<1>1. s.interest \in [Fds -> SUBSET Ops] /\ s.used \in SUBSET Fds /\ s.data \in [Fds -> Fds \cup {NoFd}]
  BY SelectorFields DEF ItemsOK, SelOK
<1>2. /\ Passive \subseteq s.used
      /\ \A g \in Passive : s.data[g] = NoFd
      /\ \A g \in s.used \ Passive : s.data[g] \in s.used \ Passive /\ s.data[s.data[g]] = s.data[g]
      /\ \A g, h \in s.used \ Passive : s.data[g] = s.data[h] /\ g # s.data[g] /\ h # s.data[h] => g = h
  BY DEF ItemsOK, LinksOK
<1>3. c \in s.used \ Passive /\ s.data[c] = c /\ c # o /\ s.data[o] = c
  BY <1>2
<1>4. SelOK(r) /\ r.used = s.used /\ r.data = s.data /\ r.interest = [s.interest EXCEPT ![c] = a]
  BY <1>3, SetInterestOK DEF ItemsOK
<1> HIDE DEF r, c
<1>5. SelOK(t) /\ t.used = s.used /\ t.data = s.data /\ t.interest = [r.interest EXCEPT ![o] = b]
  BY <1>4, SetInterestOK
<1> HIDE DEF t
<1>6. \A g \in Fds : g # c /\ g # o => t.interest[g] = s.interest[g]
  BY <1>1, <1>4, <1>5
<1>7. LinksOK(t)
  BY <1>5 DEF ItemsOK, LinksOK
<1>8. ConnectingOK(t, k)
  <2>1. \A f \in k : f \in s.used \ Passive /\ s.data[f] # f /\ s.interest[s.data[f]] = {}
    BY DEF ItemsOK, ConnectingOK
  <2>2. ASSUME NEW f \in k PROVE s.data[f] # c /\ s.data[f] # o /\ s.data[f] \in Fds
    BY <1>1, <1>2, <1>3, <2>1
  <2> QED
    BY <1>5, <1>6, <2>1, <2>2 DEF ConnectingOK
<1>9. \A g \in Fds : Waits(t, g) <=> Waits(s, g)
  BY <1>3, <1>5, <1>6 DEF Waits, Alone
<1>10. ~Waits(s, c) /\ ~Waits(s, o)
  BY <1>3 DEF Waits, Alone
<1> QED
  BY <1>5, <1>7, <1>8, <1>9, <1>10 DEF ItemsOK, t, r, c

(* A handler that finds its connect answered.                              *)
LEMMA ConnectedHandled ==
  ASSUME ItemsOK(sel, connecting), fresh \in SUBSET Fds, NEW fd \in sel.used \ Passive, Connected(fd)
  PROVE  Handled(fd)
<1> DEFINE k == connecting \ {fd}
<1>1. /\ fd \in connecting /\ UNCHANGED <<fresh, resolving>> /\ connecting' = k
      /\ sel' = selector_set_interest(selector_set_interest(sel, sel.data[fd], {OP_WRITE}), fd, {})
  BY DEF Connected, client
<1>2. ItemsOK(sel, k) /\ sel.data[fd] # fd /\ fd \notin k
  BY <1>1 DEF ItemsOK, ConnectingOK
<1>3. {OP_WRITE} \in SUBSET Ops /\ {} \in SUBSET Ops /\ fd \in Fds
  BY SelectorFields DEF Ops, ItemsOK, SelOK
<1> HIDE DEF k
<1>4. /\ ItemsOK(sel', k)
      /\ \A g \in Fds : Waits(sel', g) <=> Waits(sel, g)
      /\ ~Waits(sel, fd)
  BY <1>1, <1>2, <1>3, PairWatched
<1> QED
  BY <1>1, <1>3, <1>4 DEF Handled

(* The origin of a connection that is not connecting, when a handler has   *)
(* been called for one of its items.                                       *)
LEMMA TheOrigin ==
  ASSUME ItemsOK(sel, connecting), NEW fd \in sel.used \ Passive, sel.interest[fd] # {},
         fd \notin connecting, origins(client(fd)) # {}
  PROVE  LET o == CHOOSE f \in origins(client(fd)) : TRUE
         IN  /\ o \in sel.used \ Passive /\ sel.data[o] = client(fd) /\ o # client(fd)
             /\ o \notin connecting /\ (fd = o \/ fd = client(fd))
<1> DEFINE o == CHOOSE f \in origins(client(fd)) : TRUE
           c == client(fd)
<1>1. o \in origins(c)
  OBVIOUS
<1>2. sel.data[fd] = c
  BY DEF client
<1> HIDE DEF o, c
<1>3. o \in sel.used /\ sel.data[o] = c /\ o # c
  BY <1>1 DEF origins
<1>4. c \in sel.used \ Passive /\ sel.data[c] = c
  BY <1>2 DEF ItemsOK, LinksOK
<1>5. o \notin Passive
  <2>1. c # NoFd
    BY <1>4, PassiveFds, SelectorFields DEF ItemsOK, SelOK
  <2> QED
    BY <1>3, <2>1 DEF ItemsOK, LinksOK
<1>6. fd = o \/ fd = c
  BY <1>2, <1>3, <1>5 DEF ItemsOK, LinksOK
<1>7. o \notin connecting
  BY <1>3, <1>6 DEF ItemsOK, ConnectingOK
<1> QED
  BY <1>3, <1>5, <1>6, <1>7 DEF o, c

(* A handler of COPY.                                                      *)
LEMMA CopyHandled ==
  ASSUME ItemsOK(sel, connecting), fresh \in SUBSET Fds, NEW fd \in sel.used \ Passive,
         sel.interest[fd] # {}, Copy(fd)
  PROVE  Handled(fd)
<1> DEFINE c == client(fd)
           o == CHOOSE f \in origins(c) : TRUE
<1>1. fd \notin connecting /\ origins(c) # {} /\ UNCHANGED <<fresh, connecting, resolving>>
  BY DEF Copy
<1>2. PICK a, b \in SUBSET Ops : sel' = selector_set_interest(selector_set_interest(sel, c, a), o, b)
  BY DEF Copy
<1>3. /\ o \in sel.used \ Passive /\ sel.data[o] = c /\ o # c
      /\ o \notin connecting /\ (fd = o \/ fd = c)
  BY <1>1, TheOrigin
<1> HIDE DEF c, o
<1>4. /\ ItemsOK(sel', connecting)
      /\ \A g \in Fds : Waits(sel', g) <=> Waits(sel, g)
      /\ ~Waits(sel, c) /\ ~Waits(sel, o)
  BY <1>2, <1>3, PairWatched
<1>5. fd \in Fds
  BY SelectorFields DEF ItemsOK, SelOK
<1> QED
  BY <1>1, <1>3, <1>4, <1>5 DEF Handled

(* A whole connection goes: its client and, if it has one, its origin.     *)
LEMMA ConnectionRemoved ==
  ASSUME ItemsOK(sel, connecting), NEW t, SelOK(t), NEW c \in sel.used \ Passive, sel.data[c] = c,
         NEW o \in sel.used \ Passive, sel.data[o] = c, o \notin connecting,
         \A f \in sel.used : sel.data[f] = c => f = c \/ f = o,
         t.used = sel.used \ {c, o},
         \A f \in Fds \ {c, o} : t.data[f] = sel.data[f] /\ t.interest[f] = sel.interest[f]
  PROVE  /\ ItemsOK(t, connecting) /\ ~Waits(t, c) /\ ~Waits(t, o)
         /\ \A g \in Fds \ {c, o} : Waits(t, g) <=> Waits(sel, g)
<1>1. sel.used \in SUBSET Fds /\ sel.data \in [Fds -> Fds \cup {NoFd}]
  BY SelectorFields DEF ItemsOK, SelOK
<1>2. /\ Passive \subseteq sel.used
      /\ \A g \in Passive : sel.data[g] = NoFd
      /\ \A g \in sel.used \ Passive : sel.data[g] \in sel.used \ Passive /\ sel.data[sel.data[g]] = sel.data[g]
      /\ \A g, h \in sel.used \ Passive :
           sel.data[g] = sel.data[h] /\ g # sel.data[g] /\ h # sel.data[h] => g = h
  BY DEF ItemsOK, LinksOK
<1>3. ASSUME NEW f \in t.used \ Passive
      PROVE  f \in Fds \ {c, o} /\ f \in sel.used /\ sel.data[f] \in t.used \ Passive
  BY <1>1, <1>2
<1>4. LinksOK(t)
  <2>1. Passive \subseteq t.used /\ \A g \in Passive : t.data[g] = NoFd
    BY <1>1, <1>2
  <2>2. \A g \in t.used \ Passive : t.data[g] \in t.used \ Passive /\ t.data[t.data[g]] = t.data[g]
    BY <1>2, <1>3
  <2>3. \A g, h \in t.used \ Passive : t.data[g] = t.data[h] /\ g # t.data[g] /\ h # t.data[h] => g = h
    BY <1>2, <1>3
  <2> QED
    BY <2>1, <2>2, <2>3 DEF LinksOK
<1>5. ConnectingOK(t, connecting)
  <2>1. \A f \in connecting : f \in sel.used \ Passive /\ sel.data[f] # f /\ sel.interest[sel.data[f]] = {}
    BY DEF ItemsOK, ConnectingOK
  <2>2. ASSUME NEW f \in connecting PROVE f \in t.used \ Passive
    BY <2>1
  <2> QED
    BY <1>3, <2>1, <2>2 DEF ConnectingOK
<1>6. \A g \in Fds \ {c, o} : Waits(t, g) <=> Waits(sel, g)
  BY <1>1 DEF Waits, Alone
<1> QED
  BY <1>4, <1>5, <1>6 DEF ItemsOK, Waits

(* A handler that ends its connection.                                     *)
LEMMA DoneHandled ==
  ASSUME ItemsOK(sel, connecting), fresh \in SUBSET Fds, NEW fd \in sel.used \ Passive,
         sel.interest[fd] # {}, Done(fd)
  PROVE  Handled(fd)
<1> DEFINE c == client(fd)
           o == CHOOSE f \in origins(c) : TRUE
           s == selector_unregister_fd(sel, c)
<1>1. /\ fd \notin connecting /\ UNCHANGED <<fresh, connecting, resolving>>
      /\ sel' = IF origins(c) = {} THEN s ELSE selector_unregister_fd(s, o)
  BY DEF Done
<1>2. sel.used \in SUBSET Fds /\ sel.data \in [Fds -> Fds \cup {NoFd}]
      /\ sel.interest \in [Fds -> SUBSET Ops]
  BY SelectorFields DEF ItemsOK, SelOK
<1>3. sel.data[fd] = c /\ c \in sel.used \ Passive /\ sel.data[c] = c /\ c # NoFd
  BY <1>2, PassiveFds DEF client, ItemsOK, LinksOK
<1>4. SelOK(s) /\ s.used = sel.used \ {c} /\ s.interest = [sel.interest EXCEPT ![c] = {}]
      /\ s.data = [sel.data EXCEPT ![c] = NoFd]
  BY <1>3, UnregisterOK DEF ItemsOK
<1>5. \A f \in Fds \ {c} : s.data[f] = sel.data[f] /\ s.interest[f] = sel.interest[f]
  BY <1>2, <1>4
<1>6. \A f \in sel.used : sel.data[f] = c /\ f # c => f \in origins(c)
  BY DEF origins
<1>7. CASE origins(c) = {}
  <2> HIDE DEF s, c
  <2>1. fd = c /\ \A f \in sel.used : sel.data[f] = c => f = c
    BY <1>3, <1>6, <1>7
  <2>2. sel' = s
    BY <1>1, <1>7 DEF c
  <2>3. PICK o1 : o1 = c
    OBVIOUS
  <2>4. /\ o1 \in sel.used \ Passive /\ sel.data[o1] = c /\ o1 \notin connecting
        /\ \A f \in sel.used : sel.data[f] = c => f = c \/ f = o1
        /\ s.used = sel.used \ {c, o1}
        /\ \A f \in Fds \ {c, o1} : s.data[f] = sel.data[f] /\ s.interest[f] = sel.interest[f]
    BY <1>1, <1>3, <1>4, <1>5, <2>1, <2>3
  <2>5. /\ ItemsOK(s, connecting) /\ ~Waits(s, c)
        /\ \A g \in Fds \ {c, o1} : Waits(s, g) <=> Waits(sel, g)
    BY <1>3, <1>4, <2>4, ConnectionRemoved
  <2> QED
    BY <1>1, <2>1, <2>2, <2>3, <2>5 DEF Handled
<1>8. CASE origins(c) # {}
  <2>1. /\ o \in sel.used \ Passive /\ sel.data[o] = c /\ o # c
        /\ o \notin connecting /\ (fd = o \/ fd = c)
    BY <1>1, <1>8, TheOrigin
  <2>2. sel' = selector_unregister_fd(s, o)
    BY <1>1, <1>8
  <2> HIDE DEF s, c, o
  <2>3. o \in s.used
    BY <1>4, <2>1
  <2>4. SelOK(sel') /\ sel'.used = s.used \ {o} /\ sel'.interest = [s.interest EXCEPT ![o] = {}]
        /\ sel'.data = [s.data EXCEPT ![o] = NoFd]
    BY <1>4, <2>2, <2>3, UnregisterOK
  <2>5. s.data \in [Fds -> Fds \cup {NoFd}] /\ s.interest \in [Fds -> SUBSET Ops]
    BY <1>4, SelectorFields DEF SelOK
  <2>6. /\ sel'.used = sel.used \ {c, o}
        /\ \A f \in Fds \ {c, o} : sel'.data[f] = sel.data[f] /\ sel'.interest[f] = sel.interest[f]
    BY <1>4, <1>5, <2>4, <2>5
  <2>7. \A f \in sel.used : sel.data[f] = c => f = c \/ f = o
    BY <1>3, <2>1 DEF ItemsOK, LinksOK
  <2>8. /\ ItemsOK(sel', connecting) /\ ~Waits(sel', c) /\ ~Waits(sel', o)
        /\ \A g \in Fds \ {c, o} : Waits(sel', g) <=> Waits(sel, g)
    BY <1>3, <2>1, <2>4, <2>6, <2>7, ConnectionRemoved
  <2>9. ~Waits(sel, c) /\ ~Waits(sel, o)
    BY <2>1 DEF Waits, Alone
  <2> QED
    BY <1>1, <2>1, <2>8, <2>9 DEF Handled
<1> QED
  BY <1>7, <1>8

(* A handler that accepts a connection.                                    *)
LEMMA AcceptHandled ==
  ASSUME ItemsOK(sel, connecting), fresh \in SUBSET Fds, NEW fd \in sel.used, Accept(fd)
  PROVE  Handled(fd)
<1>1. fd \in Passive /\ UNCHANGED <<fresh, connecting, resolving>> /\ \A t : ~Waits(t, fd)
  BY DEF Accept, Waits
<1>2. CASE UNCHANGED sel
  BY <1>1, <1>2 DEF Handled
<1>3. ASSUME NEW f \in Fds, LowestFree(f, sel), sel' = selector_register(sel, f, {OP_READ}, f)
      PROVE  Handled(fd)
  <2> DEFINE ops == {OP_READ}
  <2>1. ops \subseteq Ops /\ ops # {} /\ SelOK(sel) /\ f \in Fds /\ f \notin sel.used
    BY <1>3 DEF Ops, ItemsOK, LowestFree
  <2> HIDE DEF ops
  <2>2. sel' = selector_register(sel, f, ops, f)
    BY <1>3 DEF ops
  <2>3. RegisterEffect(sel, f, ops, f, sel')
    BY <2>1, <2>2, RegisterOK
  <2>4. SelOK(sel') /\ sel'.used = sel.used \cup {f}
    BY <2>3 DEF RegisterEffect
  <2>5. sel.used \in SUBSET Fds /\ sel.data \in [Fds -> Fds \cup {NoFd}]
        /\ sel.interest \in [Fds -> SUBSET Ops]
    BY <2>1, SelectorFields DEF SelOK
  <2>6. /\ sel'.data[f] = f /\ sel'.interest[f] = ops
        /\ \A g \in Fds : g # f => sel'.data[g] = sel.data[g] /\ sel'.interest[g] = sel.interest[g]
    BY <2>3 DEF RegisterEffect
  <2>7. /\ Passive \subseteq sel.used
        /\ \A g \in Passive : sel.data[g] = NoFd
        /\ \A g \in sel.used \ Passive : sel.data[g] \in sel.used \ Passive /\ sel.data[sel.data[g]] = sel.data[g]
        /\ \A g, h \in sel.used \ Passive :
             sel.data[g] = sel.data[h] /\ g # sel.data[g] /\ h # sel.data[h] => g = h
    BY DEF ItemsOK, LinksOK
  <2>8. LinksOK(sel')
    <3>1. Passive \subseteq sel'.used /\ \A g \in Passive : sel'.data[g] = NoFd
      BY <2>1, <2>4, <2>5, <2>6, <2>7
    <3>2. \A g \in sel'.used \ Passive :
            sel'.data[g] \in sel'.used \ Passive /\ sel'.data[sel'.data[g]] = sel'.data[g]
      BY <2>1, <2>4, <2>5, <2>6, <2>7
    <3>3. \A g, h \in sel'.used \ Passive :
            sel'.data[g] = sel'.data[h] /\ g # sel'.data[g] /\ h # sel'.data[h] => g = h
      BY <2>1, <2>4, <2>5, <2>6, <2>7
    <3> QED
      BY <3>1, <3>2, <3>3 DEF LinksOK
  <2>9. ConnectingOK(sel', connecting)
    <3>1. \A k \in connecting : k \in sel.used \ Passive /\ sel.data[k] # k /\ sel.interest[sel.data[k]] = {}
      BY DEF ItemsOK, ConnectingOK
    <3>2. \A k \in connecting : k \in Fds /\ k # f /\ sel.data[k] \in Fds /\ sel.data[k] # f
      BY <2>1, <2>5, <2>7, <3>1
    <3> QED
      BY <2>4, <2>6, <3>1, <3>2 DEF ConnectingOK
  <2>10. \A g \in Fds : Waits(sel', g) <=> Waits(sel, g)
    <3>1. ~Waits(sel', f) /\ ~Waits(sel, f)
      BY <2>1, <2>6 DEF Waits
    <3>2. ASSUME NEW g \in Fds, g # f PROVE Waits(sel', g) <=> Waits(sel, g)
      <4>1. g \in sel'.used <=> g \in sel.used
        BY <2>4, <3>2
      <4>2. Alone(sel', g) <=> Alone(sel, g)
        <5>1. /\ sel'.data[g] = sel.data[g] /\ sel'.data[f] = f
              /\ \A h \in sel.used : h # f /\ sel'.data[h] = sel.data[h]
          BY <2>1, <2>5, <2>6, <3>2
        <5>2. \A h : h \in sel'.used <=> h \in sel.used \/ h = f
          BY <2>4
        <5> QED
          BY <3>2, <5>1, <5>2 DEF Alone
      <4> QED
        BY <2>6, <3>2, <4>1, <4>2 DEF Waits
    <3> QED
      BY <3>1, <3>2
  <2> QED
    BY <1>1, <2>4, <2>8, <2>9, <2>10 DEF Handled, ItemsOK
<1> QED
  BY <1>2, <1>3 DEF Accept

(* Every handler.                                                          *)
LEMMA HandlerHandled ==
  ASSUME ItemsOK(sel, connecting), fresh \in SUBSET Fds, NEW fd \in sel.used,
         sel.interest[fd] # {}, Handler(fd)
  PROVE  Handled(fd)
BY AcceptHandled, ConverseHandled, ResolveHandled, ConnectHandled, ConnectedHandled,
   ConnectAgainHandled, CopyHandled, DoneHandled
DEF Handler

-----------------------------------------------------------------------------
(* The inductive invariant.                                                *)

(* Where handle_iteration looks at an event.                               *)
Index(ev) == 2 * ev.fd + (IF ev.op = OP_READ THEN 0 ELSE 1)

(* What is owed in a round is still ahead of handle_iteration and will be  *)
(* found due; outside a round nothing is.                                  *)
RoundOK ==
  /\ slave \in [Ops -> SUBSET Fds]
  /\ n \in Fds
  /\ pos \in 0 .. 2 * MaxFd + 2
  /\ owed \in SUBSET [fd : Fds, op : Ops]
  /\ IF pc = "iterate" THEN \A ev \in owed : pos <= Index(ev) /\ Due(Index(ev)) ELSE owed = {}

(* The types of the rest, with the bound on the threads.                   *)
RestOK ==
  /\ pc \in {"top", "select", "iterate", "notify", "stopped"}
  /\ fresh \in SUBSET Fds
  /\ connecting \in SUBSET Fds
  /\ jobs \in SUBSET Fds
  /\ batch \in SUBSET Fds
  /\ resolving \in SUBSET Fds
  /\ signalling \in Nat
  /\ Cardinality(resolving) + signalling <= MaxThreads
  /\ pending \in BOOLEAN
  /\ done \in BOOLEAN

(* The jobs that are still to be visited.                                  *)
Queued == IF pc = "notify" THEN batch ELSE jobs

AnswersOK ==
  pc # "stopped" => \A fd \in Fds : /\ Waits(sel, fd) <=> fd \in resolving \cup Queued
                                    /\ ~(fd \in resolving /\ fd \in Queued)

SelectorInv == ItemsOK(sel, connecting) /\ RoundOK /\ RestOK /\ WakeUpPending /\ AnswersOK

(* Each event has its own number.                                          *)
LEMMA IndexOf ==
  ASSUME NEW ev \in [fd : Fds, op : Ops]
  PROVE  /\ Index(ev) \in Events /\ EventFd(Index(ev)) = ev.fd /\ EventOp(Index(ev)) = ev.op
         /\ \A p \in Events : EventFd(p) = ev.fd /\ EventOp(p) = ev.op => p = Index(ev)
<1>1. ev.fd \in 0 .. MaxFd /\ MaxFd \in Nat /\ ev.op \in {"OP_READ", "OP_WRITE"}
  BY SelectorAssumption DEF SelectorAssumption, Fds, Ops, OP_READ, OP_WRITE
<1>2. CASE ev.op = "OP_READ"
  <2>1. Index(ev) = 2 * ev.fd
    BY <1>1, <1>2 DEF Index, OP_READ
  <2> QED
    BY <1>1, <1>2, <2>1 DEF Events, EventFd, EventOp, OP_READ, OP_WRITE
<1>3. CASE ev.op = "OP_WRITE"
  <2>1. Index(ev) = 2 * ev.fd + 1
    BY <1>1, <1>3 DEF Index, OP_READ
  <2> QED
    BY <1>1, <1>3, <2>1 DEF Events, EventFd, EventOp, OP_READ, OP_WRITE
<1> QED
  BY <1>1, <1>2, <1>3

(* An event is a descriptor and an operation.                              *)
LEMMA EventTypes ==
  ASSUME NEW p \in Events
  PROVE  EventFd(p) \in Fds /\ EventOp(p) \in Ops
BY SelectorAssumption DEF SelectorAssumption, Events, EventFd, EventOp, Fds, Ops

(* The invariant holds before the first round.                             *)
LEMMA SelectorInit == Init => SelectorInv
<1> SUFFICES ASSUME Init PROVE SelectorInv
  OBVIOUS
<1>1. PICK m \in 0 .. MaxFd : Passive = 0 .. m
  BY SelectorAssumption DEF SelectorAssumption
<1>2. MaxFd \in Nat /\ m \in Nat /\ MaxThreads \in Nat /\ m \in Fds /\ Passive \subseteq Fds /\ 0 \in Fds
  BY <1>1, SelectorAssumption DEF SelectorAssumption, Fds
<1> DEFINE top == CHOOSE p \in Passive : \A q \in Passive : q <= p
           i == [fd \in Fds |-> IF fd \in Passive THEN {OP_READ} ELSE {}]
           d == [fd \in Fds |-> NoFd]
           w == [op \in Ops |-> IF op = OP_READ THEN Passive ELSE {}]
<1>3. top \in Passive /\ \A q \in Passive : q <= top
  <2>1. m \in Passive /\ \A q \in Passive : q <= m
    BY <1>1, <1>2
  <2> QED
    BY <2>1
<1>4. sel = [used |-> Passive, interest |-> i, data |-> d, max_fd |-> top, master |-> w]
  BY DEF Init, selector_new
<1>5. i \in [Fds -> SUBSET Ops] /\ d \in [Fds -> Fds \cup {NoFd}] /\ w \in [Ops -> SUBSET Fds]
  BY <1>2 DEF Ops
<1>6. \A op \in Ops : w[op] = {fd \in Passive : op \in i[fd]}
  BY <1>2 DEF Ops, OP_READ, OP_WRITE
<1>7. \A f \in Fds : d[f] = NoFd
  OBVIOUS
<1> HIDE DEF top, i, d, w
<1>8. sel \in Selectors /\ sel.used = Passive /\ sel.interest = i /\ sel.data = d /\ sel.max_fd = top
      /\ sel.master = w
  BY <1>2, <1>3, <1>4, <1>5 DEF Selectors
<1>9. SelOK(sel)
  BY <1>3, <1>6, <1>8 DEF SelOK
<1>10. LinksOK(sel)
  BY <1>2, <1>7, <1>8 DEF LinksOK
<1>11. ItemsOK(sel, connecting)
  BY <1>9, <1>10 DEF ItemsOK, ConnectingOK, Init
<1>12. RoundOK
  BY <1>2 DEF Init, RoundOK
<1>13. RestOK
  <2>1. resolving = {} /\ signalling = 0 /\ Cardinality(resolving) = 0
    BY FS_EmptySet DEF Init
  <2>2. Cardinality(resolving) + signalling <= MaxThreads
    BY <1>2, <2>1
  <2>3. pending \in BOOLEAN /\ done \in BOOLEAN
    BY Zenon DEF Init
  <2>4. pc \in {"top", "select", "iterate", "notify", "stopped"}
    BY DEF Init
  <2>5. connecting = {} /\ fresh = {} /\ jobs = {} /\ batch = {}
    BY DEF Init
  <2> QED
    BY <2>1, <2>2, <2>3, <2>4, <2>5 DEF RestOK
<1>14. WakeUpPending /\ AnswersOK
  BY <1>8 DEF Init, WakeUpPending, AnswersOK, Queued, Waits
<1> QED
  BY <1>11, <1>12, <1>13, <1>14 DEF SelectorInv

-----------------------------------------------------------------------------
(* Every step keeps it.                                                    *)

(* The number of clients that are being resolved.                          *)
LEMMA ResolvingFinite ==
  ASSUME RestOK
  PROVE  IsFiniteSet(resolving) /\ Cardinality(resolving) \in Nat
<1>1. IsFiniteSet(Fds)
  BY FS_Interval, SelectorAssumption DEF SelectorAssumption, Fds
<1> QED
  BY <1>1, FS_Subset, FS_CardinalityType DEF RestOK

(* The steps of the loop that touch neither items nor resolvers.           *)
LEMMA LoopStep ==
  ASSUME SelectorInv, LoopTest \/ PselectTimeout \/ PselectInterrupted \/ sigterm_handler \/ IterationEnds
  PROVE  SelectorInv'
<1>1. UNCHANGED <<sel, connecting, jobs, resolving, signalling, owed>>
  BY DEF LoopTest, PselectTimeout, PselectInterrupted, sigterm_handler, IterationEnds,
         roundVars, resolverVars
<1>2. ItemsOK(sel, connecting)'
  BY <1>1 DEF SelectorInv
<1>3. RestOK'
  <2>1. pc' \in {"top", "select", "iterate", "notify", "stopped"}
    BY DEF SelectorInv, RestOK, LoopTest, PselectTimeout, PselectInterrupted, sigterm_handler,
      IterationEnds, StartNotifications
  <2>2. fresh' \in SUBSET Fds /\ batch' \in SUBSET Fds
    BY DEF SelectorInv, RestOK, LoopTest, PselectTimeout, PselectInterrupted, sigterm_handler,
      IterationEnds, StartNotifications, roundVars
  <2>3. pending' \in BOOLEAN /\ done' \in BOOLEAN
    BY Zenon DEF SelectorInv, RestOK, LoopTest, PselectTimeout, PselectInterrupted, sigterm_handler,
      IterationEnds, resolverVars
  <2> QED
    BY <1>1, <2>1, <2>2, <2>3 DEF SelectorInv, RestOK
<1>4. \/ pc' = pc /\ UNCHANGED <<slave, n, pos, batch, pending>>
      \/ pc = "top" /\ pc' \in {"select", "stopped"} /\ UNCHANGED <<slave, n, pos, batch, pending>>
      \/ pc = "select" /\ pc' = "notify" /\ batch' = jobs /\ UNCHANGED <<slave, n, pos>>
      \/ IterationEnds
  <2>1. CASE LoopTest
    BY <2>1 DEF LoopTest, roundVars, resolverVars
  <2>2. CASE PselectTimeout \/ PselectInterrupted
    BY <2>2 DEF PselectTimeout, PselectInterrupted, wake_handler, StartNotifications
  <2>3. CASE sigterm_handler
    BY <2>3 DEF sigterm_handler, StartNotifications, resolverVars
  <2> QED
    BY <2>1, <2>2, <2>3
<1>5. IterationEnds => pc = "iterate" /\ pc' = "notify" /\ batch' = jobs /\ owed = {}
  <2> HAVE IterationEnds
  <2>1. pc = "iterate" /\ pc' = "notify" /\ batch' = jobs /\ \A p \in Events : pos <= p => ~Due(p)
    BY DEF IterationEnds, StartNotifications
  <2>2. ASSUME NEW ev \in owed PROVE FALSE
    BY <2>1, <2>2, IndexOf DEF SelectorInv, RoundOK
  <2> QED
    BY <2>1, <2>2
<1>6. RoundOK'
  <2>1. CASE IterationEnds
    <3>1. slave' = [op \in Ops |-> {}] /\ n' = 0 /\ pos' = 0
      BY <2>1 DEF IterationEnds
    <3>2. slave' \in [Ops -> SUBSET Fds] /\ n' \in Fds /\ pos' \in 0 .. 2 * MaxFd + 2
      BY <3>1, SelectorAssumption DEF SelectorAssumption, Fds
    <3> QED
      BY <1>1, <1>5, <2>1, <3>2 DEF SelectorInv, RoundOK
  <2>2. CASE pc' = pc /\ UNCHANGED <<slave, n, pos>>
    BY <1>1, <2>2 DEF SelectorInv, RoundOK, Due
  <2>3. CASE pc # "iterate" /\ pc' # "iterate" /\ UNCHANGED <<slave, n, pos>>
    BY <1>1, <2>3 DEF SelectorInv, RoundOK
  <2> QED
    BY <1>4, <2>1, <2>2, <2>3
<1>7. WakeUpPending'
  BY <1>1, <1>4, <1>5 DEF SelectorInv, WakeUpPending
<1>8. AnswersOK'
  <2>1. pc' # "stopped" => pc # "stopped" /\ Queued' = Queued
    BY <1>1, <1>4, <1>5 DEF Queued
  <2> QED
    BY <1>1, <2>1 DEF SelectorInv, AnswersOK
<1> QED
  BY <1>2, <1>3, <1>6, <1>7, <1>8 DEF SelectorInv

(* What pselect() reports is watched, and so due.                          *)
LEMMA ReadyStep == SelectorInv /\ PselectReady => SelectorInv'
<1> SUFFICES ASSUME SelectorInv, PselectReady PROVE SelectorInv'
  OBVIOUS
<1>1. /\ pc = "select" /\ pc' = "iterate" /\ n' = sel.max_fd /\ pos' = 0 /\ fresh' = {}
      /\ pending' \in {pending, FALSE}
      /\ UNCHANGED <<sel, connecting, jobs, resolving, signalling, batch, done>>
  BY DEF PselectReady, LastVisited
<1>2. PICK ready \in [Ops -> SUBSET (0 .. sel.max_fd)] :
        /\ \A op \in Ops : ready[op] \subseteq sel.master[op]
        /\ slave' = ready
        /\ owed' = {ev \in [fd : Fds, op : Ops] : ev.fd \in ready[ev.op]}
  BY DEF PselectReady
<1>3. sel.max_fd \in Fds /\ sel.used \in SUBSET Fds
  BY SelectorFields DEF SelectorInv, ItemsOK, SelOK
<1>4. MaxFd \in Nat /\ \A f \in Fds : f \in Nat /\ f <= MaxFd /\ 0 .. f \subseteq Fds
  BY SelectorAssumption DEF SelectorAssumption, Fds
<1>5. ItemsOK(sel, connecting)'
  BY <1>1 DEF SelectorInv
<1>6. RestOK'
  <2>1. pending' \in BOOLEAN
    BY <1>1, Zenon DEF SelectorInv, RestOK
  <2> QED
    BY <1>1, <2>1 DEF SelectorInv, RestOK
<1>7. RoundOK'
  <2>1. slave' \in [Ops -> SUBSET Fds] /\ n' \in Fds /\ pos' \in 0 .. 2 * MaxFd + 2
    BY <1>1, <1>2, <1>3, <1>4
  <2>2. owed' \in SUBSET [fd : Fds, op : Ops]
    BY <1>2
  <2>3. ASSUME NEW ev \in owed' PROVE pos' <= Index(ev) /\ Due(Index(ev))'
    <3>1. ev \in [fd : Fds, op : Ops] /\ ev.fd \in ready[ev.op] /\ ev.op \in Ops
      BY <1>2, <2>3
    <3>2. EventFd(Index(ev)) = ev.fd /\ EventOp(Index(ev)) = ev.op /\ Index(ev) \in Events
      BY <3>1, IndexOf
    <3>3. ev.fd \in sel.used /\ ev.op \in sel.interest[ev.fd] /\ ev.fd <= sel.max_fd
      BY <1>2, <3>1 DEF SelectorInv, ItemsOK, SelOK
    <3>4. 0 <= Index(ev)
      BY <1>4, <3>2 DEF Events
    <3> QED
      BY <1>1, <1>2, <3>1, <3>2, <3>3, <3>4 DEF Due
  <2> QED
    BY <1>1, <2>1, <2>2, <2>3 DEF RoundOK
<1>8. WakeUpPending' /\ AnswersOK'
  BY <1>1 DEF SelectorInv, WakeUpPending, AnswersOK, Queued
<1> QED
  BY <1>5, <1>6, <1>7, <1>8 DEF SelectorInv

(* What a handler keeps, whoever calls it.                                 *)
LEMMA HandledRest ==
  ASSUME RestOK, NEW fd \in Fds, Handled(fd), UNCHANGED <<pc, jobs, signalling, pending, done>>,
         batch' \in SUBSET Fds
  PROVE  RestOK'
<1>1. IsFiniteSet(resolving) /\ Cardinality(resolving) \in Nat
  BY ResolvingFinite
<1>2. connecting' \in SUBSET Fds
  <2>1. sel'.used \in SUBSET Fds
    BY SelectorFields DEF Handled, ItemsOK, SelOK
  <2> QED
    BY <2>1 DEF Handled, ItemsOK, ConnectingOK
<1>3. resolving' \in SUBSET Fds /\ Cardinality(resolving') + signalling <= MaxThreads
  <2>1. CASE resolving' = resolving
    BY <2>1 DEF RestOK
  <2>2. CASE resolving' = resolving \cup {fd} /\ Cardinality(resolving) + signalling < MaxThreads
    <3>1. Cardinality(resolving') = Cardinality(resolving) \/ Cardinality(resolving') = Cardinality(resolving) + 1
      BY <1>1, <2>2, FS_AddElement
    <3>2. signalling \in Nat /\ MaxThreads \in Nat /\ resolving \in SUBSET Fds
      BY SelectorAssumption DEF RestOK, SelectorAssumption
    <3> QED
      BY <1>1, <2>2, <3>1, <3>2
  <2> QED
    BY <2>1, <2>2 DEF Handled
<1>4. pending' \in BOOLEAN /\ done' \in BOOLEAN
  BY Zenon DEF RestOK
<1>5. fresh' \in SUBSET Fds
  BY DEF Handled
<1> QED
  BY <1>2, <1>3, <1>4, <1>5 DEF RestOK

(* A handler is called: what is still owed comes after its event.          *)
LEMMA DispatchStep ==
  ASSUME SelectorInv, NEW p \in Events, Dispatch(p)
  PROVE  SelectorInv'
<1> DEFINE fd == EventFd(p)
           op == EventOp(p)
<1>1. /\ pc = "iterate" /\ pos <= p /\ Due(p) /\ Handler(fd) /\ pos' = p + 1
      /\ \A q \in Events : pos <= q /\ q < p => ~Due(q)
      /\ owed' = {ev \in owed : /\ ev # [fd |-> fd, op |-> op]
                                /\ ev.fd \in sel'.used
                                /\ ev.op \in sel'.interest[ev.fd]}
      /\ UNCHANGED <<pc, slave, n, jobs, signalling, pending, batch, done>>
  BY DEF Dispatch
<1>2. fd \in sel.used /\ op \in sel.interest[fd] /\ fd \in Fds /\ op \in Ops
  BY <1>1, EventTypes DEF Due
<1>3. Handled(fd)
  BY <1>1, <1>2, HandlerHandled DEF SelectorInv, RestOK
<1> HIDE DEF fd, op
<1>4. ItemsOK(sel, connecting)' /\ RestOK'
  <2>1. batch' \in SUBSET Fds
    BY <1>1 DEF SelectorInv, RestOK
  <2> QED
    BY <1>1, <1>2, <1>3, <2>1, HandledRest DEF SelectorInv, Handled
<1>5. RoundOK'
  <2>1. MaxFd \in Nat /\ p \in Nat /\ p <= 2 * MaxFd + 1
    BY SelectorAssumption DEF SelectorAssumption, Events
  <2>2. pos' \in 0 .. 2 * MaxFd + 2
    BY <1>1, <2>1
  <2>3. ASSUME NEW ev \in owed' PROVE pos' <= Index(ev) /\ Due(Index(ev))'
    <3>1. /\ ev \in owed /\ ev \in [fd : Fds, op : Ops] /\ ev # [fd |-> fd, op |-> op]
          /\ ev.fd \in sel'.used /\ ev.op \in sel'.interest[ev.fd]
      BY <1>1, <2>3 DEF SelectorInv, RoundOK
    <3>2. pos <= Index(ev) /\ Due(Index(ev))
      BY <1>1, <3>1 DEF SelectorInv, RoundOK
    <3>3. Index(ev) \in Events /\ EventFd(Index(ev)) = ev.fd /\ EventOp(Index(ev)) = ev.op
      BY <3>1, IndexOf
    <3>4. Index(ev) # p
      BY <3>1, <3>3 DEF fd, op
    <3>5. ~(Index(ev) < p)
      BY <1>1, <3>2, <3>3
    <3>6. pos' <= Index(ev)
      <4>1. Index(ev) \in Nat
        BY <2>1, <3>3, SelectorAssumption DEF Events, SelectorAssumption
      <4> QED
        BY <1>1, <2>1, <3>4, <3>5, <4>1
    <3>7. Due(Index(ev))'
      BY <1>1, <3>1, <3>2, <3>3 DEF Due
    <3> QED
      BY <3>6, <3>7
  <2> QED
    BY <1>1, <2>2, <2>3 DEF SelectorInv, RoundOK
<1>6. WakeUpPending'
  BY <1>1 DEF WakeUpPending
<1>7. AnswersOK'
  <2>1. ~Waits(sel, fd)
    BY <1>2 DEF Waits
  <2>2. Queued' = jobs /\ Queued = jobs
    BY <1>1 DEF Queued
  <2>3. \A g \in Fds : /\ Waits(sel, g) <=> g \in resolving \cup jobs
                       /\ ~(g \in resolving /\ g \in jobs)
    BY <1>1, <2>2 DEF SelectorInv, AnswersOK
  <2>4. \A g \in Fds : /\ Waits(sel', g) <=> g \in resolving' \cup jobs
                       /\ ~(g \in resolving' /\ g \in jobs)
    BY <1>2, <1>3, <2>1, <2>3 DEF Handled
  <2> QED
    BY <2>2, <2>4 DEF AnswersOK
<1> QED
  BY <1>4, <1>5, <1>6, <1>7 DEF SelectorInv

(* A job is visited: its client is there and waits for it.                 *)
LEMMA BlockStep ==
  ASSUME SelectorInv, NEW fd \in Fds, handle_block(fd)
  PROVE  SelectorInv'
<1>1. /\ pc = "notify" /\ fd \in batch /\ batch' = batch \ {fd}
      /\ UNCHANGED <<pc, slave, n, pos, owed, jobs, signalling, pending, done>>
  BY DEF handle_block
<1>2. Queued = batch /\ Queued' = batch'
  BY <1>1 DEF Queued
<1>3. \A g \in Fds : /\ Waits(sel, g) <=> g \in resolving \cup batch
                     /\ ~(g \in resolving /\ g \in batch)
  BY <1>1, <1>2 DEF SelectorInv, AnswersOK
<1>4. fd \in sel.used \ Passive
  BY <1>1, <1>3 DEF Waits
<1>5. Handled(fd) /\ resolving' = resolving
  <2>1. Connect(fd) \/ Converse(fd)
    BY <1>4 DEF handle_block
  <2> QED
    BY <1>4, <2>1, ConnectHandled, ConverseHandled DEF SelectorInv, RestOK
<1>6. ItemsOK(sel, connecting)' /\ RestOK'
  <2>1. batch' \in SUBSET Fds
    BY <1>1 DEF SelectorInv, RestOK
  <2> QED
    BY <1>1, <1>5, <2>1, HandledRest DEF SelectorInv, Handled
<1>7. RoundOK' /\ WakeUpPending'
  BY <1>1 DEF SelectorInv, RoundOK, WakeUpPending
<1>8. AnswersOK'
  <2>1. ~Waits(sel', fd)
    BY <1>1, <1>3, <1>5 DEF Handled
  <2>2. \A g \in Fds : /\ Waits(sel', g) <=> g \in resolving' \cup batch'
                       /\ ~(g \in resolving' /\ g \in batch')
    BY <1>1, <1>3, <1>5, <2>1 DEF Handled
  <2> QED
    BY <1>2, <2>2 DEF AnswersOK
<1> QED
  BY <1>6, <1>7, <1>8 DEF SelectorInv

(* The queue is emptied once every job has been visited.                   *)
LEMMA EndStep == SelectorInv /\ NotificationsEnd => SelectorInv'
<1> SUFFICES ASSUME SelectorInv, NotificationsEnd PROVE SelectorInv'
  OBVIOUS
<1>1. /\ pc = "notify" /\ batch = {} /\ jobs' = {} /\ pc' = "top"
      /\ UNCHANGED <<sel, slave, n, pos, owed, fresh, connecting, resolving, signalling, pending, batch, done>>
  BY DEF NotificationsEnd, roundVars
<1>2. RestOK'
  BY <1>1 DEF SelectorInv, RestOK
<1>3. Queued = {} /\ Queued' = {}
  BY <1>1 DEF Queued
<1>4. AnswersOK'
  BY <1>1, <1>3 DEF SelectorInv, AnswersOK
<1> QED
  BY <1>1, <1>2, <1>4 DEF SelectorInv, RoundOK, WakeUpPending

(* The steps of a resolver thread.                                         *)
LEMMA EnqueueStep ==
  ASSUME SelectorInv, NEW fd \in Fds, Enqueue(fd)
  PROVE  SelectorInv'
<1>1. /\ pc \notin {"notify", "stopped"} /\ fd \in resolving /\ resolving' = resolving \ {fd}
      /\ jobs' = jobs \cup {fd} /\ signalling' = signalling + 1
      /\ UNCHANGED <<sel, pc, slave, n, pos, owed, fresh, connecting, batch, pending, done>>
  BY DEF Enqueue, roundVars
<1>2. IsFiniteSet(resolving) /\ Cardinality(resolving) \in Nat
  BY ResolvingFinite DEF SelectorInv
<1>3. Cardinality(resolving') = Cardinality(resolving) - 1
  BY <1>1, <1>2, FS_RemoveElement
<1>4. signalling \in Nat /\ MaxThreads \in Nat /\ Cardinality(resolving) + signalling <= MaxThreads
  BY SelectorAssumption DEF SelectorInv, RestOK, SelectorAssumption
<1>5. signalling' \in Nat /\ Cardinality(resolving') + signalling' <= MaxThreads /\ signalling' > 0
  BY <1>1, <1>2, <1>3, <1>4
<1>6. RestOK'
  <2>1. pending' \in BOOLEAN /\ done' \in BOOLEAN
    BY <1>1, Zenon DEF SelectorInv, RestOK
  <2> QED
    BY <1>1, <1>5, <2>1 DEF SelectorInv, RestOK
<1>7. RoundOK'
  BY <1>1 DEF SelectorInv, RoundOK, Due
<1>8. AnswersOK'
  <2>1. Queued = jobs /\ Queued' = jobs'
    BY <1>1 DEF Queued
  <2> QED
    BY <1>1, <2>1 DEF SelectorInv, AnswersOK
<1> QED
  BY <1>1, <1>5, <1>6, <1>7, <1>8 DEF SelectorInv, WakeUpPending

(* A signal only becomes pending.                                          *)
LEMMA SignalStep == SelectorInv /\ Signal => SelectorInv'
<1> SUFFICES ASSUME SelectorInv, Signal PROVE SelectorInv'
  OBVIOUS
<1>1. /\ signalling > 0 /\ signalling' = signalling - 1 /\ pending' = TRUE
      /\ UNCHANGED <<sel, pc, slave, n, pos, owed, fresh, connecting, jobs, resolving, batch, done>>
  BY DEF Signal, roundVars
<1>2. IsFiniteSet(resolving) /\ Cardinality(resolving) \in Nat
  BY ResolvingFinite DEF SelectorInv
<1>3. RestOK'
  <2>1. signalling \in Nat /\ MaxThreads \in Nat /\ Cardinality(resolving) + signalling <= MaxThreads
    BY SelectorAssumption DEF SelectorInv, RestOK, SelectorAssumption
  <2>2. signalling' \in Nat /\ Cardinality(resolving') + signalling' <= MaxThreads
    BY <1>1, <1>2, <2>1
  <2>3. pending' \in BOOLEAN
    BY <1>1
  <2> QED
    BY <1>1, <2>2, <2>3 DEF SelectorInv, RestOK
<1>4. RoundOK'
  BY <1>1 DEF SelectorInv, RoundOK, Due
<1>5. AnswersOK'
  BY <1>1 DEF SelectorInv, AnswersOK, Queued
<1> QED
  BY <1>1, <1>3, <1>4, <1>5 DEF SelectorInv, WakeUpPending

(* A step of nothing.                                                      *)
LEMMA SelectorIdle == SelectorInv /\ UNCHANGED vars => SelectorInv'
<1> SUFFICES ASSUME SelectorInv, UNCHANGED vars PROVE SelectorInv'
  OBVIOUS
<1>1. UNCHANGED <<sel, pc, slave, n, pos, owed, fresh, connecting, jobs, batch, resolving, signalling,
                  pending, done>>
  BY DEF vars, roundVars, resolverVars
<1>2. RestOK' /\ RoundOK'
  BY <1>1 DEF SelectorInv, RestOK, RoundOK, Due
<1>3. WakeUpPending' /\ AnswersOK'
  BY <1>1 DEF SelectorInv, WakeUpPending, AnswersOK, Queued
<1> QED
  BY <1>1, <1>2, <1>3 DEF SelectorInv

(* Every step keeps the invariant.                                         *)
LEMMA SelectorStep == SelectorInv /\ [Next]_vars => SelectorInv'
BY LoopStep, ReadyStep, DispatchStep, BlockStep, EndStep, EnqueueStep, SignalStep, SelectorIdle
DEF Next, MainStep, Stopped

-----------------------------------------------------------------------------
(* What the selector promises, for any number of descriptors, of listening *)
(* sockets and of resolver threads.                                        *)

(* The inductive invariant: the items of every connection are linked to    *)
(* its client, a round owes only events that handle_iteration has yet to   *)
(* look at and will find due, and the clients that wait for a name are     *)
(* exactly those with a thread or a job.                                   *)
THEOREM SelectorInvariant == Spec => []SelectorInv
BY SelectorInit, SelectorStep, PTL DEF Spec

(* Every variable of the selector keeps its type; in particular the        *)
(* threads that are to send the signal never exceed the ones started.      *)
THEOREM SelectorTypes == Spec => []TypeOK
<1>1. SelectorInv => TypeOK
  <2> SUFFICES ASSUME SelectorInv PROVE TypeOK
    OBVIOUS
  <2>1. Cardinality(resolving) \in Nat
    BY ResolvingFinite DEF SelectorInv
  <2>2. signalling \in 0 .. MaxThreads
    BY <2>1, SelectorAssumption DEF SelectorInv, RestOK, SelectorAssumption
  <2>3. pending \in BOOLEAN /\ done \in BOOLEAN
    BY Zenon DEF SelectorInv, RestOK
  <2> QED
    BY <2>2, <2>3 DEF SelectorInv, ItemsOK, SelOK, RoundOK, RestOK, TypeOK
<1> QED
  BY <1>1, SelectorInvariant, PTL

(* selector_register, selector_set_interest and selector_unregister_fd     *)
(* keep the sets given to pselect() and max_fd equal to what the items ask *)
(* for, in any order the handlers call them.                               *)
THEOREM SelectorMaster == Spec => []MasterExact
<1>1. SelectorInv => MasterExact
  BY DEF SelectorInv, ItemsOK, SelOK, MasterExact
<1> QED
  BY <1>1, SelectorInvariant, PTL

(* handle_iteration calls, within the round, the handler of every event    *)
(* pselect() reported whose item stays registered and interested.          *)
THEOREM SelectorServes == Spec => []ServedInRound
<1>1. SelectorInv => ServedInRound
  BY DEF SelectorInv, RoundOK, ServedInRound
<1> QED
  BY <1>1, SelectorInvariant, PTL

(* selector_notify_block leaves no job behind that the main thread could   *)
(* sleep on without a signal pending or about to be sent.                  *)
THEOREM SelectorWakesUp == Spec => []WakeUpPending
<1>1. SelectorInv => WakeUpPending
  BY DEF SelectorInv
<1> QED
  BY <1>1, SelectorInvariant, PTL

(* A client in REQUEST_RESOLV has a resolver thread or a queued job, not   *)
(* both, and nobody else has either.                                       *)
THEOREM SelectorAnswers == Spec => []OneAnswer
<1>1. SelectorInv => OneAnswer
  BY WaitingWaits DEF SelectorInv, ItemsOK, AnswersOK, Queued, OneAnswer
<1> QED
  BY <1>1, SelectorInvariant, PTL
=============================================================================
