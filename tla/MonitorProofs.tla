---------------------------- MODULE MonitorProofs ----------------------------
(***************************************************************************)
(* Proofs about the monitor, for any clients and requests, cut anywhere.   *)
(***************************************************************************)
EXTENDS Monitor, FiniteSetTheorems, SequenceTheorems, WellFoundedInduction, TLAPS

-----------------------------------------------------------------------------
(* The smallest element of a set of numbers.                               *)

(* A set of numbers that is not empty has a smallest one.                  *)
LEMMA LeastExists ==
  ASSUME NEW T \in SUBSET Nat, T # {}
  PROVE  \E x \in T : \A y \in T : x <= y
<1>1. PICK x \in T : \A y \in T : ~(<<y, x>> \in OpToRel(<, Nat))
  BY NatLessThanWellFounded, WFMin
<1>2. ASSUME NEW y \in T, y < x PROVE FALSE
  <2> DEFINE P == {pair \in Nat \X Nat : pair[1] < pair[2]}
  <2>1. <<y, x>> \in P
    BY <1>2
  <2>2. P = OpToRel(<, Nat)
    BY Zenon DEF OpToRel
  <2> HIDE DEF P
  <2> QED
    BY <1>1, <2>1, <2>2, Zenon
<1> QED
  BY <1>2

(* Min finds it.                                                           *)
LEMMA MinOf ==
  ASSUME NEW T \in SUBSET Nat, T # {}
  PROVE  Min(T) \in T /\ \A y \in T : Min(T) <= y
BY LeastExists DEF Min

-----------------------------------------------------------------------------
(* The structs of the connections.                                         *)

Pools == [mem : Int, pooled : Nat, pool_size : Nat]

(* The pool never holds more than were ever put into it.                   *)
PoolFits(p) == p \in Pools /\ p.pooled <= p.pool_size /\ p.pool_size <= MaxPool

(* connection_destroy gives up one struct.                                 *)
LEMMA DestroyOne ==
  ASSUME NEW p, PoolFits(p), NEW q, q = connection_destroy(p)
  PROVE  PoolFits(q) /\ q.mem - q.pooled = (p.mem - p.pooled) - 1
<1>1. p.mem \in Int /\ p.pooled \in Nat /\ p.pool_size \in Nat /\ MaxPool \in Nat
  BY MonitorAssumption DEF MonitorAssumption, PoolFits, Pools
<1>2. CASE p.pool_size < MaxPool
  <2> DEFINE x == p.pooled + 1
             y == p.pool_size + 1
  <2>1. q = [p EXCEPT !.pooled = x, !.pool_size = y]
    BY <1>2 DEF connection_destroy
  <2>2. x \in Nat /\ y \in Nat /\ x <= y /\ y <= MaxPool
    BY <1>1, <1>2 DEF PoolFits
  <2>3. p.mem - x = (p.mem - p.pooled) - 1
    BY <1>1
  <2> HIDE DEF x, y
  <2> QED
    BY <2>1, <2>2, <2>3 DEF PoolFits, Pools
<1>3. CASE ~(p.pool_size < MaxPool)
  <2> DEFINE x == p.mem - 1
  <2>1. q = [p EXCEPT !.mem = x]
    BY <1>3 DEF connection_destroy
  <2>2. x \in Int /\ x - p.pooled = (p.mem - p.pooled) - 1
    BY <1>1
  <2> HIDE DEF x
  <2> QED
    BY <2>1, <2>2 DEF PoolFits, Pools
<1> QED
  BY <1>2, <1>3

(* connection_new takes one.                                               *)
LEMMA NewOne ==
  ASSUME PoolFits(pool), NEW q, q = connection_new
  PROVE  PoolFits(q) /\ q.mem - q.pooled = (pool.mem - pool.pooled) + 1
<1>1. pool.mem \in Int /\ pool.pooled \in Nat /\ pool.pool_size \in Nat
  BY DEF PoolFits, Pools
<1>2. CASE pool.pooled > 0
  <2> DEFINE x == pool.pooled - 1
  <2>1. q = [pool EXCEPT !.pooled = x]
    BY <1>2 DEF connection_new
  <2>2. x \in Nat /\ x <= pool.pool_size /\ pool.mem - x = (pool.mem - pool.pooled) + 1
    BY <1>1, <1>2 DEF PoolFits
  <2> HIDE DEF x
  <2> QED
    BY <2>1, <2>2 DEF PoolFits, Pools
<1>3. CASE ~(pool.pooled > 0)
  <2> DEFINE x == pool.mem + 1
  <2>1. q = [pool EXCEPT !.mem = x]
    BY <1>3 DEF connection_new
  <2>2. x \in Int /\ x - pool.pooled = (pool.mem - pool.pooled) + 1
    BY <1>1
  <2> HIDE DEF x
  <2> QED
    BY <2>1, <2>2 DEF PoolFits, Pools
<1> QED
  BY <1>2, <1>3

(* An empty pool of an empty heap.                                         *)
LEMMA PoolFreed ==
  ASSUME NEW p \in Pools, p.pool_size <= MaxPool, NEW q, q = [p EXCEPT !.mem = 0, !.pooled = 0]
  PROVE  PoolFits(q) /\ q.mem = 0 /\ q.pooled = 0
<1>1. p = [mem |-> p.mem, pooled |-> p.pooled, pool_size |-> p.pool_size] /\ p.pool_size \in Nat
  BY DEF Pools
<1>2. q = [mem |-> 0, pooled |-> 0, pool_size |-> p.pool_size]
  BY <1>1
<1> QED
  BY <1>1, <1>2 DEF Pools, PoolFits

(* The first m closed connections, one call of connection_destroy each.    *)
Closings(p, m, f) ==
  f = [k \in 0 .. m |-> IF k = 0 THEN p ELSE connection_destroy(f[k - 1])]

(* The recursive function of ServerStops exists.                           *)
LEMMA ClosingExists ==
  ASSUME NEW p, NEW L \in Nat
  PROVE  \E f : Closings(p, L, f)
<1> DEFINE bad == {m \in Nat : ~\E f : Closings(p, m, f)}
<1>1. SUFFICES ASSUME bad # {} PROVE FALSE
  OBVIOUS
<1>2. PICK m \in bad : \A y \in bad : m <= y
  <2>1. bad \in SUBSET Nat
    OBVIOUS
  <2> HIDE DEF bad
  <2> QED
    BY <1>1, <2>1, LeastExists
<1>3. m # 0
  <2> DEFINE g == [k \in 0 .. 0 |-> p]
  <2>1. g = [k \in 0 .. 0 |-> IF k = 0 THEN p ELSE connection_destroy(g[k - 1])]
    OBVIOUS
  <2> QED
    BY <2>1 DEF Closings
<1>4. m - 1 \in Nat /\ m - 1 \notin bad
  BY <1>2, <1>3
<1>5. PICK g : Closings(p, m - 1, g)
  BY <1>4
<1> DEFINE h == [k \in 0 .. m |-> IF k < m THEN g[k] ELSE connection_destroy(g[m - 1])]
<1>6. ASSUME NEW k \in 0 .. m
      PROVE  h[k] = IF k = 0 THEN p ELSE connection_destroy(h[k - 1])
  <2>1. k > 0 => h[k - 1] = g[k - 1]
    OBVIOUS
  <2>2. CASE k < m
    <3>1. k \in 0 .. m - 1 /\ h[k] = g[k]
      BY <1>4, <2>2
    <3>2. g[k] = IF k = 0 THEN p ELSE connection_destroy(g[k - 1])
      BY <1>5, <3>1 DEF Closings
    <3> HIDE DEF h
    <3> QED
      BY <2>1, <3>1, <3>2
  <2>3. CASE k = m
    <3>1. h[k] = connection_destroy(g[m - 1])
      BY <2>3
    <3> HIDE DEF h
    <3> QED
      BY <1>3, <1>4, <2>1, <2>3, <3>1
  <2> QED
    BY <2>2, <2>3
<1>7. Closings(p, m, h)
  <2>1. h = [k \in 0 .. m |-> h[k]]
    OBVIOUS
  <2> HIDE DEF h
  <2> QED
    BY <1>6, <2>1 DEF Closings
<1> QED
  BY <1>7

(* Closing L connections accounts for L structs.                           *)
LEMMA ClosingAll ==
  ASSUME NEW p, PoolFits(p), NEW L \in Nat, NEW f, Closings(p, L, f)
  PROVE  PoolFits(f[L]) /\ f[L].mem - f[L].pooled = (p.mem - p.pooled) - L
<1> DEFINE Good(k) == PoolFits(f[k]) /\ f[k].mem - f[k].pooled = (p.mem - p.pooled) - k
           bad == {k \in 0 .. L : ~Good(k)}
<1>1. \A k \in 0 .. L : f[k] = IF k = 0 THEN p ELSE connection_destroy(f[k - 1])
  BY DEF Closings
<1>2. p.mem \in Int /\ p.pooled \in Int
  BY DEF PoolFits, Pools
<1>3. bad = {}
  <2>1. SUFFICES ASSUME bad # {} PROVE FALSE
    OBVIOUS
  <2>2. PICK m \in bad : \A y \in bad : m <= y
    <3>1. bad \in SUBSET Nat
      OBVIOUS
    <3> HIDE DEF bad
    <3> QED
      BY <2>1, <3>1, LeastExists
  <2>3. CASE m = 0
    BY <1>1, <1>2, <2>2, <2>3
  <2>4. CASE m # 0
    <3>1. m - 1 \in 0 .. L /\ Good(m - 1)
      BY <2>2, <2>4
    <3>2. f[m] = connection_destroy(f[m - 1])
      BY <1>1, <2>2, <2>4
    <3>3. PoolFits(f[m]) /\ f[m].mem - f[m].pooled = (f[m - 1].mem - f[m - 1].pooled) - 1
      BY <3>1, <3>2, DestroyOne
    <3>4. ((p.mem - p.pooled) - (m - 1)) - 1 = (p.mem - p.pooled) - m
      BY <1>2, <2>2
    <3> QED
      BY <2>2, <3>1, <3>3, <3>4
  <2> QED
    BY <2>3, <2>4
<1> QED
  BY <1>3

-----------------------------------------------------------------------------
(* The connections.                                                        *)

(* A client waits as long as it has a connection; the server owes it an    *)
(* answer while the connection is queued or read; only then can its data   *)
(* be mixed with others. Nothing is open once the server has stopped.      *)
ConnOK ==
  /\ srv \in [Clients -> {"none", "queued", "read", "write", "closed"}]
  /\ DOMAIN req = Clients
  /\ \A c \in Clients : req[c] = NoRequest <=> srv[c] = "none"
  /\ \A c \in Clients : req[c] # NoRequest => req[c] \in Requests[c]
  /\ DOMAIN done = Clients
  /\ \A c \in Clients : done[c] <=> srv[c] \notin {"queued", "read"}
  /\ mixed \subseteq {c \in Clients : srv[c] = "read"}
  /\ stopped \in BOOLEAN
  /\ stopped => \A c \in Clients : srv[c] \in {"none", "closed"}

(* What a step may do to the structs.                                      *)
StructEffect ==
  \/ /\ Open' = Open /\ stopped' = stopped
     /\ pool' = pool \/ (~stopped /\ \E q : q = connection_new /\ pool' = connection_destroy(q))
  \/ \E c \in Clients \ Open : Open' = Open \cup {c} /\ pool' = connection_new /\ ~stopped'
  \/ \E c \in Open : Open' = Open \ {c} /\ pool' = connection_destroy(pool) /\ ~stopped'
  \/ Open' = {} /\ ServerStops

(* No connection yet.                                                      *)
LEMMA ConnInit == Init => ConnOK
<1> SUFFICES ASSUME Init PROVE ConnOK
  OBVIOUS
<1>1. stopped = FALSE /\ mixed = {} /\ \A c \in Clients : done[c] = TRUE
  BY DEF Init
<1>2. stopped \in BOOLEAN
  BY <1>1
<1> QED
  BY <1>1, <1>2 DEF Init, ConnOK

(* The connections after a step of a client.                               *)
LEMMA ClientConn ==
  ASSUME ConnOK, NEW c \in Clients, ClientNext(c)
  PROVE  ConnOK' /\ StructEffect
<1> USE DEF ConnOK
<1>1. ASSUME NEW r \in Requests[c], ClientAsks(c, r) PROVE ConnOK' /\ StructEffect
  <2>1. /\ srv' = [srv EXCEPT ![c] = "queued"] /\ req' = [req EXCEPT ![c] = r] /\ req[c] = NoRequest
        /\ done' = [done EXCEPT ![c] = FALSE] /\ ~stopped /\ UNCHANGED <<pool, mixed, stopped>>
    BY <1>1 DEF ClientAsks
  <2>2. r # NoRequest
    BY RequestsAssumption DEF RequestsAssumption
  <2>3. srv[c] = "none"
    BY <2>1
  <2>4. ConnOK'
    BY <2>1, <2>2, <2>3
  <2>5. Open' = Open
    BY <2>1, <2>3 DEF Open
  <2> QED
    BY <2>1, <2>4, <2>5 DEF StructEffect
<1>2. ASSUME NEW n, ClientRecv(c, n) PROVE ConnOK' /\ StructEffect
  BY <1>2 DEF ClientRecv, serverVars, Open, StructEffect
<1>3. CASE ClientReports(c)
  <2>1. /\ srv' = [srv EXCEPT ![c] = "none"] /\ req' = [req EXCEPT ![c] = NoRequest]
        /\ srv[c] = "closed" /\ UNCHANGED <<pool, mixed, stopped, done>>
    BY <1>3 DEF ClientReports
  <2>2. ConnOK'
    BY <2>1
  <2>3. Open' = Open
    BY <2>1 DEF Open
  <2> QED
    BY <2>1, <2>2, <2>3 DEF StructEffect
<1>4. CASE ClientAborts(c) \/ ClientKilled(c)
  BY <1>4 DEF ClientAborts, ClientKilled, serverVars, Open, StructEffect
<1> QED
  BY <1>1, <1>2, <1>3, <1>4 DEF ClientNext

(* The connections after a step of the server for one of them.             *)
LEMMA ServerConn ==
  ASSUME ConnOK, NEW c \in Clients, ServerNext(c)
  PROVE  ConnOK' /\ StructEffect
<1> USE DEF ConnOK
<1>1. CASE monitor_passive_accept(c)
  <2>1. /\ srv[c] = "queued" /\ srv' = [srv EXCEPT ![c] = "read"] /\ pool' = connection_new
        /\ UNCHANGED <<req, done, mixed, stopped>>
    BY <1>1 DEF monitor_passive_accept, clientVars
  <2>2. ConnOK'
    BY <2>1
  <2>3. c \notin Open /\ Open' = Open \cup {c} /\ ~stopped
    BY <2>1 DEF Open
  <2> QED
    BY <2>1, <2>2, <2>3 DEF StructEffect
<1>2. CASE AcceptFails(c)
  <2>1. /\ srv[c] = "queued" /\ srv' = [srv EXCEPT ![c] = "closed"]
        /\ done' = [done EXCEPT ![c] = TRUE] /\ UNCHANGED <<req, mixed, stopped>>
    BY <1>2 DEF AcceptFails, clientVars
  <2>2. ConnOK'
    BY <2>1
  <2>3. Open' = Open /\ ~stopped
    BY <2>1 DEF Open
  <2>4. pool' = pool \/ \E q : q = connection_new /\ pool' = connection_destroy(q)
    BY <1>2 DEF AcceptFails
  <2> QED
    BY <2>1, <2>2, <2>3, <2>4 DEF StructEffect
<1>3. ASSUME NEW n, monitor_read(c, n) PROVE ConnOK' /\ StructEffect
  <2>1. srv[c] = "read" /\ UNCHANGED <<req, pool, stopped>>
    BY <1>3 DEF monitor_read, clientVars
  <2>2. \/ UNCHANGED <<srv, done>> /\ mixed' \ mixed \subseteq {d \in Clients : srv[d] = "read"}
        \/ /\ srv' = [srv EXCEPT ![c] = "write"] /\ done' = [done EXCEPT ![c] = TRUE]
           /\ c \notin mixed' /\ mixed' \ mixed \subseteq {d \in Clients : srv[d] = "read"}
    BY <1>3 DEF monitor_read, Answer, Overwritten
  <2>3. ConnOK'
    BY <2>1, <2>2
  <2>4. Open' = Open
    BY <2>1, <2>2 DEF Open
  <2> QED
    BY <2>1, <2>3, <2>4 DEF StructEffect
<1>4. ASSUME srv[c] \in {"read", "write"}, monitor_finish(c), UNCHANGED <<req, stopped>>,
             \/ done' = [done EXCEPT ![c] = TRUE] /\ mixed' = mixed \ {c}
             \/ srv[c] = "write" /\ UNCHANGED <<done, mixed>>
      PROVE  ConnOK' /\ StructEffect
  <2>1. srv' = [srv EXCEPT ![c] = "closed"] /\ pool' = connection_destroy(pool)
    BY <1>4 DEF monitor_finish
  <2>2. ConnOK'
    BY <1>4, <2>1
  <2>3. c \in Open /\ Open' = Open \ {c} /\ ~stopped
    BY <1>4, <2>1 DEF Open
  <2> QED
    BY <1>4, <2>1, <2>2, <2>3 DEF StructEffect
<1>5. CASE monitor_read_fails(c) \/ monitor_write_fails(c)
  BY <1>4, <1>5 DEF monitor_read_fails, monitor_write_fails, clientVars
<1>6. ASSUME NEW n, monitor_write(c, n) PROVE ConnOK' /\ StructEffect
  <2>1. CASE monitor_finish(c)
    BY <1>4, <1>6, <2>1 DEF monitor_write, clientVars
  <2>2. CASE UNCHANGED <<srv, pool>>
    BY <1>6, <2>2 DEF monitor_write, clientVars, Open, StructEffect
  <2> QED
    BY <1>6, <2>1, <2>2 DEF monitor_write
<1> QED
  BY <1>1, <1>2, <1>3, <1>5, <1>6 DEF ServerNext

(* The connections after any step.                                         *)
LEMMA ConnStep ==
  ASSUME ConnOK, [Next]_vars
  PROVE  ConnOK' /\ StructEffect
<1>1. CASE ServerStops
  <2>1. /\ stopped' = TRUE /\ mixed' = {} /\ done' = [c \in Clients |-> TRUE] /\ req' = req
        /\ srv' = [c \in Clients |-> IF srv[c] = "none" THEN "none" ELSE "closed"]
    BY <1>1 DEF ServerStops, clientVars
  <2>2. ConnOK'
    BY <2>1 DEF ConnOK
  <2>3. Open' = {}
    BY <2>1 DEF Open
  <2> QED
    BY <1>1, <2>2, <2>3 DEF StructEffect
<1>2. CASE UNCHANGED vars
  BY <1>2 DEF vars, clientVars, serverVars, ConnOK, Open, StructEffect
<1> QED
  BY <1>1, <1>2, ClientConn, ServerConn DEF Next

-----------------------------------------------------------------------------
(* Every struct is in the pool or serves an open connection.               *)

StructsOK ==
  /\ PoolFits(pool)
  /\ pool.mem - pool.pooled = Cardinality(Open)
  /\ stopped => pool.mem = 0

(* Each of the possible effects keeps the account.                         *)
LEMMA StructsStep ==
  ASSUME IsFiniteSet(Clients), StructsOK, StructEffect
  PROVE  StructsOK'
<1>1. IsFiniteSet(Open) /\ Cardinality(Open) \in Nat
  <2>1. Open \in SUBSET Clients
    BY DEF Open
  <2>2. IsFiniteSet(Open)
    BY <2>1, FS_Subset
  <2> QED
    BY <2>2, FS_CardinalityType
<1>2. pool.mem \in Int /\ pool.pooled \in Nat
  BY DEF StructsOK, PoolFits, Pools
<1>3. CASE Open' = Open /\ stopped' = stopped /\ pool' = pool
  BY <1>3 DEF StructsOK
<1>4. ASSUME Open' = Open, stopped' = stopped, ~stopped, NEW q, q = connection_new,
             pool' = connection_destroy(q)
      PROVE  StructsOK'
  <2>1. PoolFits(q) /\ q.mem - q.pooled = (pool.mem - pool.pooled) + 1
    BY <1>4, NewOne DEF StructsOK
  <2>2. PoolFits(pool') /\ pool'.mem - pool'.pooled = (q.mem - q.pooled) - 1
    BY <1>4, <2>1, DestroyOne
  <2>3. pool'.mem - pool'.pooled = pool.mem - pool.pooled
    BY <1>2, <2>1, <2>2
  <2> QED
    BY <1>4, <2>2, <2>3 DEF StructsOK
<1>5. ASSUME NEW c \in Clients \ Open, Open' = Open \cup {c}, pool' = connection_new, ~stopped'
      PROVE  StructsOK'
  <2>1. Cardinality(Open') = Cardinality(Open) + 1
    BY <1>1, <1>5, FS_AddElement
  <2>2. PoolFits(pool') /\ pool'.mem - pool'.pooled = (pool.mem - pool.pooled) + 1
    BY <1>5, NewOne DEF StructsOK
  <2> QED
    BY <1>5, <2>1, <2>2 DEF StructsOK
<1>6. ASSUME NEW c \in Open, Open' = Open \ {c}, pool' = connection_destroy(pool), ~stopped'
      PROVE  StructsOK'
  <2>1. Cardinality(Open') = Cardinality(Open) - 1
    BY <1>1, <1>6, FS_RemoveElement
  <2>2. PoolFits(pool') /\ pool'.mem - pool'.pooled = (pool.mem - pool.pooled) - 1
    BY <1>6, DestroyOne DEF StructsOK
  <2> QED
    BY <1>6, <2>1, <2>2 DEF StructsOK
<1>7. ASSUME Open' = {}, ServerStops PROVE StructsOK'
  <2> DEFINE L == Cardinality(Open)
             f == CHOOSE g : g = [k \in 0 .. L |-> IF k = 0 THEN pool ELSE connection_destroy(g[k - 1])]
             closed == f[L]
             left == closed.mem - closed.pooled
  <2>1. pool' = [closed EXCEPT !.mem = left, !.pooled = 0]
    BY <1>7 DEF ServerStops
  <2>2. Closings(pool, L, f)
    <3>1. PICK g : Closings(pool, L, g)
      BY <1>1, ClosingExists
    <3> QED
      BY <3>1 DEF Closings
  <2> HIDE DEF f
  <2>3. PoolFits(closed) /\ left = (pool.mem - pool.pooled) - L
    BY <1>1, <2>2, ClosingAll DEF StructsOK
  <2>4. left = 0
    BY <1>1, <1>2, <2>3 DEF StructsOK
  <2> HIDE DEF closed, left, L
  <2>5. PoolFits(pool') /\ pool'.mem = 0 /\ pool'.pooled = 0
    <3>1. closed \in Pools /\ closed.pool_size \in Nat /\ closed.pool_size <= MaxPool
      BY <2>3 DEF PoolFits, Pools
    <3>2. pool' = [closed EXCEPT !.mem = 0, !.pooled = 0]
      BY <2>1, <2>4, Zenon
    <3> QED
      BY <3>1, <3>2, PoolFreed
  <2>6. Cardinality(Open') = 0
    BY <1>7, FS_EmptySet
  <2> QED
    BY <2>5, <2>6 DEF StructsOK
<1> QED
  BY <1>3, <1>4, <1>5, <1>6, <1>7 DEF StructEffect

(* connection_new, connection_destroy and the teardown account for every   *)
(* struct, whatever clients do and whenever the server is stopped.         *)
THEOREM MonitorStructs ==
  ASSUME IsFiniteSet(Clients)
  PROVE  Spec => []StructsAccounted
<1>1. Init => ConnOK /\ StructsOK
  <2> SUFFICES ASSUME Init PROVE StructsOK
    BY ConnInit
  <2>1. pool = [mem |-> 0, pooled |-> 0, pool_size |-> 0] /\ stopped = FALSE /\ Open = {}
    BY DEF Init, Open
  <2>2. Cardinality(Open) = 0
    BY <2>1, FS_EmptySet
  <2> QED
    BY <2>1, <2>2, MonitorAssumption DEF MonitorAssumption, StructsOK, PoolFits, Pools
<1>2. ConnOK /\ StructsOK /\ [Next]_vars => (ConnOK /\ StructsOK)'
  BY ConnStep, StructsStep
<1>3. ConnOK /\ StructsOK => StructsAccounted
  <2> SUFFICES ASSUME StructsOK PROVE StructsAccounted
    OBVIOUS
  <2>1. pool.mem \in Int /\ pool.pooled \in Nat /\ pool.pool_size \in Nat /\ MaxPool \in Nat
    BY MonitorAssumption DEF MonitorAssumption, StructsOK, PoolFits, Pools
  <2>2. Cardinality(Open) \in Nat
    <3>1. Open \in SUBSET Clients
      BY DEF Open
    <3> QED
      BY <3>1, FS_Subset, FS_CardinalityType
  <2> QED
    BY <2>1, <2>2 DEF StructsOK, PoolFits, StructsAccounted
<1> QED
  BY <1>1, <1>2, <1>3, PTL DEF Spec

-----------------------------------------------------------------------------
(* The requests.                                                           *)

AllRequests ==
  [cmd : Range(GetTargets) \cup Range(ConfigTargets) \cup {"bad_version", "bad_method", "bad_target"},
   token : Seq(Chars), name : Seq(Chars), secret : Seq(Nat)]

(* A request of RequestsAssumption.                                        *)
IsRequest(r) ==
  /\ r \in AllRequests
  /\ Len(r.token) = TokenSize
  /\ r.secret \in IF r.cmd = "disector" THEN {<<0>>, <<1>>} ELSE Seq(Chars)

Adds == {"add_user", "add_admin"}
Dels == {"del_user", "del_admin"}
Changes == {"disector"} \cup Adds \cup Dels

(* Where the data begin.                                                   *)
DataAt == TokenSize + 5

-----------------------------------------------------------------------------
(* The parser after `pos' bytes of request r, with the statics s. What the *)
(* statics decide is only known if the data were not mixed.                *)

ParserTypes ==
  [state : {"version", "token", "method", "target", "dlen", "data", "done", "unsupported_version",
            "unsupported_method", "unsupported_target", "invalid_data"},
   i : Nat, len : Nat, separated : BOOLEAN, token : Seq(Nat), method : Nat,
   target : Range(GetTargets) \cup Range(ConfigTargets) \cup {"none"},
   flag : Nat, user : Seq(Nat), extra : Seq(Nat)]

StaticTypes == [combined : [1 .. 2 -> Nat], ulen : Nat]

Fresh(p) == p.user = <<>> /\ p.extra = <<>> /\ p.separated = FALSE

(* In the header.                                                          *)
HeaderIs(r, p, pos) ==
  /\ p.state = "version" => pos = 0 /\ p.token = <<>>
  /\ p.state = "token" => /\ pos = p.i + 1 /\ p.i < TokenSize /\ p.len = TokenSize
                          /\ p.token = SubSeq(r.token, 1, p.i)
  /\ p.state = "method" => pos = TokenSize + 1 /\ p.token = r.token
  /\ p.state = "target" => /\ pos = TokenSize + 2 /\ p.token = r.token
                           /\ p.method = serialize_request(r)[TokenSize + 2]
                           /\ p.method \in {Get, Config}
  /\ p.state \in {"token", "method", "target"} => serialize_request(r)[1] = 1
  /\ p.state \in {"version", "token", "method", "target", "dlen"} => Fresh(p)

(* In DLEN.                                                                *)
LengthIs(r, p, s, pos, mx) ==
  p.state = "dlen" =>
    /\ p.i \in {0, 1} /\ p.len = 2 /\ pos = TokenSize + 3 + p.i
    /\ p.i = 1 /\ ~mx => s.combined[1] = serialize_request(r)[TokenSize + 4]

(* In the data.                                                            *)
NameIs(r, p) ==
  p.i <= Len(r.name) /\ p.user = SubSeq(r.name, 1, p.i) /\ p.extra = <<>>

SecretIs(r, p, s) ==
  /\ p.i >= Len(r.name) + 1 /\ s.ulen = Len(r.name) + 1
  /\ p.user = r.name \o <<0>>
  /\ p.extra = SubSeq(r.secret, 1, p.i - (Len(r.name) + 1))

DataIs(r, p, s, pos) ==
  /\ r.cmd = "disector" => pos = DataAt
  /\ r.cmd # "disector" => p.len = Len(serialize_config_data(r)) /\ pos = DataAt + p.i /\ p.i <= p.len
  /\ r.cmd \in Dels => p.separated = FALSE /\ NameIs(r, p)
  /\ r.cmd \in Adds => IF p.separated THEN SecretIs(r, p, s) ELSE NameIs(r, p)

(* Done: what was found.                                                   *)
FoundIs(r, p) ==
  /\ r.cmd = "disector" => (p.flag = 1 <=> r.secret = <<1>>)
  /\ r.cmd \in Dels => p.user = r.name
  /\ r.cmd \in Adds => p.user = r.name \o <<0>> /\ p.extra = r.secret

ParserIs(r, p, s, pos, mx) ==
  /\ p \in ParserTypes /\ s \in StaticTypes /\ pos \in Nat
  /\ HeaderIs(r, p, pos)
  /\ LengthIs(r, p, s, pos, mx)
  /\ p.state \in {"dlen", "data"} =>
       p.token = r.token /\ p.method = Config /\ p.target = r.cmd /\ r.cmd \in Changes
  /\ p.state = "data" /\ ~mx => DataIs(r, p, s, pos)
  /\ p.state = "done" =>
       /\ p.token = r.token /\ p.method \in {Get, Config}
       /\ p.method = Get => p.target = r.cmd /\ r.cmd \in Range(GetTargets)
       /\ p.method = Config =>
            p.target = r.cmd /\ r.cmd \in Changes /\ (~mx => FoundIs(r, p))

Statics == [combined |-> combinedlen, ulen |-> username_len_with_null]

ParsersOK ==
  /\ DOMAIN parser = Clients /\ DOMAIN taken = Clients
  /\ Statics \in StaticTypes
  /\ \A c \in Clients : srv[c] = "queued" => taken[c] = 0
  /\ \A c \in Clients : srv[c] = "read" =>
       ~monitor_is_done(parser[c]) /\ ParserIs(req[c], parser[c], Statics, taken[c], c \in mixed)

-----------------------------------------------------------------------------
(* The tables.                                                             *)

Admins == [uname : Seq(Nat), token : Seq(Nat)]

(* Neither table outgrows its array, no name is there twice, and root is   *)
(* the first administrator.                                                *)
UsersOK(t) ==
  /\ t.n \in 0 .. MaxUsers /\ DOMAIN t.slot = 1 .. MaxUsers
  /\ \A i \in 1 .. t.n : t.slot[i].uname \in Seq(Nat)
  /\ \A i, j \in 1 .. t.n : t.slot[i].uname = t.slot[j].uname => i = j

AdminsOK(as) ==
  /\ as \in Seq(Admins) /\ Len(as) \in 1 .. MaxAdmins
  /\ as[1] = [uname |-> RootName, token |-> RootToken]
  /\ \A i, j \in 1 .. Len(as) : as[i].uname = as[j].uname => i = j

TablesOK == UsersOK(users) /\ AdminsOK(admins) /\ is_disector_on \in BOOLEAN

-----------------------------------------------------------------------------
(* What a request consists of.                                             *)

(* Code finds the place of a target in its list.                           *)
LEMMA CodeOf ==
  ASSUME NEW targets, Len(targets) = 5, NEW k \in 1 .. 5,
         \A i, j \in 1 .. 5 : targets[i] = targets[j] => i = j
  PROVE  Code(targets, targets[k]) = k - 1
<1> DEFINE I == {i \in 1 .. Len(targets) : targets[i] = targets[k]}
<1>1. I = {k}
  OBVIOUS
<1>2. SelectInSeq(targets, LAMBDA x : x = targets[k]) = IF I # {} THEN Min(I) ELSE 0
  BY DEF SelectInSeq
<1> HIDE DEF I
<1>3. I \in SUBSET Nat /\ I # {}
  BY <1>1
<1>4. Min(I) = k
  BY <1>1, <1>3, MinOf
<1> QED
  BY <1>2, <1>3, <1>4 DEF Code

(* The elements of two joined sequences.                                   *)
LEMMA Joined ==
  ASSUME NEW S, NEW s \in Seq(S), NEW t \in Seq(S)
  PROVE  /\ s \o t \in Seq(S) /\ Len(s \o t) = Len(s) + Len(t)
         /\ \A k \in 1 .. Len(s) : (s \o t)[k] = s[k]
         /\ \A k \in 1 .. Len(t) : (s \o t)[Len(s) + k] = t[k]
<1> DEFINE u == s \o t
<1>1. /\ u \in Seq(S) /\ Len(u) = Len(s) + Len(t)
      /\ \A k \in 1 .. Len(s) + Len(t) : u[k] = IF k <= Len(s) THEN s[k] ELSE t[k - Len(s)]
  BY ConcatProperties
<1> HIDE DEF u
<1>2. Len(s) \in Nat /\ Len(t) \in Nat
  OBVIOUS
<1>3. \A k \in 1 .. Len(s) : u[k] = s[k]
  BY <1>1, <1>2
<1>4. \A k \in 1 .. Len(t) : u[Len(s) + k] = t[k]
  <2> TAKE k \in 1 .. Len(t)
  <2>1. Len(s) + k \in 1 .. Len(s) + Len(t) /\ ~(Len(s) + k <= Len(s)) /\ (Len(s) + k) - Len(s) = k
    BY <1>2
  <2> QED
    BY <1>1, <2>1
<1> QED
  BY <1>1, <1>3, <1>4 DEF u

(* The bytes of a message put together from its parts.                     *)
LaidOut(B, T, v, tok, m, t, a, b, D) ==
  /\ B \in Seq(Nat) /\ Len(B) = T + 5 + Len(D)
  /\ B[1] = v /\ \A k \in 1 .. T : B[k + 1] = tok[k]
  /\ B[T + 2] = m /\ B[T + 3] = t /\ B[T + 4] = a /\ B[T + 5] = b
  /\ \A k \in 1 .. Len(D) : B[T + 5 + k] = D[k]

(* Joining the parts of a message lays it out.                             *)
LEMMA Layout ==
  ASSUME NEW v \in Nat, NEW tok \in Seq(Nat), NEW m \in Nat, NEW t \in Nat, NEW a \in Nat,
         NEW b \in Nat, NEW D \in Seq(Nat), NEW B, NEW T, T = Len(tok),
         B = ((<<v>> \o tok \o <<m, t>>) \o <<a, b>>) \o D
  PROVE  LaidOut(B, T, v, tok, m, t, a, b, D)
<1> DEFINE h1 == <<v>> \o tok
           h2 == h1 \o <<m, t>>
           h3 == h2 \o <<a, b>>
<1>0. T \in Nat
  OBVIOUS
<1>1. h1 \in Seq(Nat) /\ Len(h1) = T + 1 /\ h1[1] = v /\ \A k \in 1 .. T : h1[k + 1] = tok[k]
  OBVIOUS
<1> HIDE DEF h1
<1>2. /\ h2 \in Seq(Nat) /\ Len(h2) = T + 3 /\ \A k \in 1 .. T + 1 : h2[k] = h1[k]
      /\ h2[T + 2] = m /\ h2[T + 3] = t
  BY <1>0, <1>1, SMTT(30)
<1> HIDE DEF h2
<1>3. /\ h3 \in Seq(Nat) /\ Len(h3) = T + 5 /\ \A k \in 1 .. T + 3 : h3[k] = h2[k]
      /\ h3[T + 4] = a /\ h3[T + 5] = b
  <2>1. h3 \in Seq(Nat) /\ Len(h3) = Len(h2) + 2 /\ \A k \in 1 .. Len(h2) : h3[k] = h2[k]
    BY <1>2
  <2>2. h3[Len(h2) + 1] = a /\ h3[Len(h2) + 2] = b
    BY <1>2, SMTT(30)
  <2> HIDE DEF h3
  <2> QED
    BY <1>0, <1>2, <2>1, <2>2
<1>4. B = h3 \o D
  BY DEF h3, h2, h1
<1> HIDE DEF h3
<1>5. /\ B \in Seq(Nat) /\ Len(B) = T + 5 + Len(D) /\ \A k \in 1 .. T + 5 : B[k] = h3[k]
      /\ \A k \in 1 .. Len(D) : B[T + 5 + k] = D[k]
  <2>1. /\ B \in Seq(Nat) /\ Len(B) = Len(h3) + Len(D) /\ \A k \in 1 .. Len(h3) : B[k] = h3[k]
        /\ \A k \in 1 .. Len(D) : B[Len(h3) + k] = D[k]
    <3>1. h3 \in Seq(Nat)
      BY <1>3
    <3>2. /\ h3 \o D \in Seq(Nat) /\ Len(h3 \o D) = Len(h3) + Len(D)
          /\ \A k \in 1 .. Len(h3) : (h3 \o D)[k] = h3[k]
          /\ \A k \in 1 .. Len(D) : (h3 \o D)[Len(h3) + k] = D[k]
      BY ONLY <3>1, D \in Seq(Nat), Joined
    <3> QED
      BY <1>4, <3>2, Zenon
  <2>2. h3 \in Seq(Nat) /\ Len(h3) = T + 5
    BY <1>3
  <2> QED
    BY <1>0, <2>1, <2>2
<1>6. \A k \in 1 .. T + 1 : B[k] = h1[k]
  <2> TAKE k \in 1 .. T + 1
  <2>1. k \in 1 .. T + 3 /\ k \in 1 .. T + 5
    BY <1>0
  <2> QED
    BY <1>2, <1>3, <1>5, <2>1
<1>7. B[1] = v /\ \A k \in 1 .. T : B[k + 1] = tok[k]
  <2>1. 1 \in 1 .. T + 1 /\ \A k \in 1 .. T : k + 1 \in 1 .. T + 1
    BY <1>0
  <2> QED
    BY <1>1, <1>6, <2>1
<1>8. B[T + 2] = m /\ B[T + 3] = t
  <2>1. T + 2 \in 1 .. T + 3 /\ T + 3 \in 1 .. T + 3 /\ T + 2 \in 1 .. T + 5 /\ T + 3 \in 1 .. T + 5
    BY <1>0
  <2> QED
    BY <1>2, <1>3, <1>5, <2>1
<1>9. B[T + 4] = a /\ B[T + 5] = b
  <2>1. T + 4 \in 1 .. T + 5 /\ T + 5 \in 1 .. T + 5
    BY <1>0
  <2> QED
    BY <1>3, <1>5, <2>1
<1> QED
  BY <1>5, <1>7, <1>8, <1>9 DEF LaidOut

(* What the data of a request consist of.                                  *)
LEMMA DataType ==
  ASSUME NEW r, IsRequest(r), NEW D, D = serialize_config_data(r)
  PROVE  /\ D \in Seq(Nat)
         /\ r.cmd = "disector" => D = r.secret
         /\ r.cmd \in Dels => D = r.name
         /\ r.cmd \in Adds =>
              /\ Len(D) = Len(r.name) + 1 + Len(r.secret)
              /\ \A k \in 1 .. Len(r.name) : D[k] = r.name[k]
              /\ D[Len(r.name) + 1] = 0
              /\ \A k \in 1 .. Len(r.secret) : D[Len(r.name) + 1 + k] = r.secret[k]
<1> DEFINE nm == r.name
           sec == r.secret
<1>1. nm \in Seq(Nat) /\ sec \in Seq(Nat)
  <2>1. nm \in Seq(Chars) /\ sec \in Seq(Nat)
    BY DEF IsRequest, AllRequests
  <2>2. \A k \in 1 .. Len(nm) : nm[k] \in Nat
    BY <2>1 DEF Chars
  <2> HIDE DEF nm
  <2> QED
    BY <2>1, <2>2
<1>2. r.cmd = "disector" => D = sec
  BY DEF serialize_config_data
<1>3. r.cmd \in Dels => D = nm
  BY DEF serialize_config_data, Dels
<1>4. r.cmd \in Adds => D = (nm \o <<0>>) \o sec
  BY DEF serialize_config_data, Adds
<1>5. r.cmd \notin {"disector"} \cup Dels \cup Adds => D = <<0>>
  BY DEF serialize_config_data, Adds, Dels
<1> HIDE DEF nm, sec
<1>6. /\ nm \o <<0>> \in Seq(Nat) /\ Len(nm \o <<0>>) = Len(nm) + 1 /\ (nm \o <<0>>)[Len(nm) + 1] = 0
      /\ \A k \in 1 .. Len(nm) : (nm \o <<0>>)[k] = nm[k]
  BY ONLY <1>1
<1>7. ASSUME r.cmd \in Adds
      PROVE  /\ D \in Seq(Nat) /\ Len(D) = Len(nm) + 1 + Len(sec)
             /\ \A k \in 1 .. Len(nm) : D[k] = nm[k]
             /\ D[Len(nm) + 1] = 0
             /\ \A k \in 1 .. Len(sec) : D[Len(nm) + 1 + k] = sec[k]
  <2> DEFINE h == nm \o <<0>>
             u == h \o sec
  <2>1. h \in Seq(Nat) /\ Len(h) = Len(nm) + 1 /\ h[Len(nm) + 1] = 0 /\ \A k \in 1 .. Len(nm) : h[k] = nm[k]
    BY <1>6
  <2> HIDE DEF h
  <2>2. /\ u \in Seq(Nat) /\ Len(u) = Len(h) + Len(sec)
        /\ \A k \in 1 .. Len(h) : u[k] = h[k]
        /\ \A k \in 1 .. Len(sec) : u[Len(h) + k] = sec[k]
    <3>1. h \in Seq(Nat)
      BY <2>1
    <3> QED
      BY ONLY <1>1, <3>1, Joined DEF u
  <2>3. D = u
    BY <1>4, <1>7 DEF h
  <2> HIDE DEF u
  <2>4. Len(nm) \in Nat /\ Len(nm) + 1 \in 1 .. Len(h) /\ \A k \in 1 .. Len(nm) : k \in 1 .. Len(h)
    BY <1>1, <2>1
  <2> QED
    BY <2>1, <2>2, <2>3, <2>4
<1>8. D \in Seq(Nat)
  <2>1. <<0>> \in Seq(Nat)
    OBVIOUS
  <2> QED
    BY <1>1, <1>2, <1>3, <1>5, <1>7, <2>1
<1> QED
  BY <1>2, <1>3, <1>7, <1>8 DEF nm, sec

(* The two bytes of DLEN give its value back.                              *)
LEMMA TwoBytesOf ==
  ASSUME NEW n \in Nat
  PROVE  n \div Radix \in Nat /\ n % Radix \in Nat /\ (n \div Radix) * Radix + (n % Radix) = n
<1>1. Radix \in Nat /\ Radix > 0
  BY MonitorAssumption DEF MonitorAssumption
<1> QED
  BY <1>1

(* What the server makes of the header of r.                               *)
Shape(r, B, D) ==
  /\ B \in Seq(Nat) /\ D \in Seq(Nat) /\ Len(B) = DataAt + Len(D)
  /\ \A k \in 1 .. TokenSize : B[k + 1] = r.token[k]
  /\ B[1] = 1 /\ B[TokenSize + 2] = Get =>
       \E k \in 1 .. 5 : r.cmd = GetTargets[k] /\ B[TokenSize + 3] = k - 1
  /\ B[TokenSize + 2] = Config =>
       \/ B[TokenSize + 3] = 5
       \/ \E k \in 1 .. 5 : r.cmd = ConfigTargets[k] /\ B[TokenSize + 3] = k - 1
  /\ B[TokenSize + 4] * Radix + B[TokenSize + 5] = Len(D)
  /\ \A k \in 1 .. Len(D) : B[DataAt + k] = D[k]

(* The two lists of targets.                                               *)
LEMMA TargetRanges ==
  /\ DOMAIN GetTargets = 1 .. 5 /\ Len(GetTargets) = 5
  /\ \A i, j \in 1 .. 5 : GetTargets[i] = GetTargets[j] => i = j
  /\ DOMAIN ConfigTargets = 1 .. 5 /\ Len(ConfigTargets) = 5
  /\ \A i, j \in 1 .. 5 : ConfigTargets[i] = ConfigTargets[j] => i = j
  /\ Range(GetTargets) = {"historic", "concurrent", "transfered", "proxyusers", "adminusers"}
  /\ Range(ConfigTargets) = {"disector", "add_user", "del_user", "add_admin", "del_admin"}
  /\ \A c \in 0 .. 4 : /\ GetTargets[c + 1] \in Range(GetTargets)
                       /\ ConfigTargets[c + 1] \in Range(ConfigTargets) \cap Changes
<1>1. /\ DOMAIN GetTargets = 1 .. 5 /\ Len(GetTargets) = 5
      /\ \A i, j \in 1 .. 5 : GetTargets[i] = GetTargets[j] => i = j
  <2>0. DOMAIN GetTargets = 1 .. 5 /\ Len(GetTargets) = 5
    BY DEF GetTargets
  <2>1. /\ GetTargets[1] = "historic" /\ GetTargets[2] = "concurrent" /\ GetTargets[3] = "transfered"
        /\ GetTargets[4] = "proxyusers" /\ GetTargets[5] = "adminusers"
    BY DEF GetTargets
  <2>2. \A i \in 1 .. 5 : i \in {1, 2, 3, 4, 5}
    OBVIOUS
  <2> QED
    BY <2>0, <2>1, <2>2
<1>2. /\ DOMAIN ConfigTargets = 1 .. 5 /\ Len(ConfigTargets) = 5
      /\ \A i, j \in 1 .. 5 : ConfigTargets[i] = ConfigTargets[j] => i = j
  <2>0. DOMAIN ConfigTargets = 1 .. 5 /\ Len(ConfigTargets) = 5
    BY DEF ConfigTargets
  <2>1. /\ ConfigTargets[1] = "disector" /\ ConfigTargets[2] = "add_user" /\ ConfigTargets[3] = "del_user"
        /\ ConfigTargets[4] = "add_admin" /\ ConfigTargets[5] = "del_admin"
    BY DEF ConfigTargets
  <2>2. \A i \in 1 .. 5 : i \in {1, 2, 3, 4, 5}
    OBVIOUS
  <2> QED
    BY <2>0, <2>1, <2>2
<1>3. /\ Range(GetTargets) = {"historic", "concurrent", "transfered", "proxyusers", "adminusers"}
      /\ Range(ConfigTargets) = {"disector", "add_user", "del_user", "add_admin", "del_admin"}
  <2>1. Range(GetTargets) = {GetTargets[i] : i \in 1 .. 5}
    BY <1>1 DEF Range
  <2>2. Range(ConfigTargets) = {ConfigTargets[i] : i \in 1 .. 5}
    BY <1>2 DEF Range
  <2> QED
    BY <2>1, <2>2 DEF GetTargets, ConfigTargets
<1>4. ASSUME NEW c \in 0 .. 4
      PROVE  /\ GetTargets[c + 1] \in Range(GetTargets)
             /\ ConfigTargets[c + 1] \in Range(ConfigTargets) \cap Changes
  <2>1. c + 1 \in 1 .. 5
    OBVIOUS
  <2>2. GetTargets[c + 1] \in Range(GetTargets) /\ ConfigTargets[c + 1] \in Range(ConfigTargets)
    BY <1>1, <1>2, <2>1 DEF Range
  <2> QED
    BY <1>3, <2>2 DEF Changes, Adds, Dels
<1> QED
  BY <1>1, <1>2, <1>3, <1>4

HeaderIsOf(r, v, m, t) ==
  /\ Header(r) = <<v>> \o r.token \o <<m, t>>
  /\ v = 1 /\ m = Get => \E k \in 1 .. 5 : r.cmd = GetTargets[k] /\ t = k - 1
  /\ m = Config => t = 5 \/ \E k \in 1 .. 5 : r.cmd = ConfigTargets[k] /\ t = k - 1

(* The header of each kind of request.                                     *)
LEMMA HeaderParts ==
  ASSUME NEW r, IsRequest(r)
  PROVE  \E v \in Nat, m \in Nat, t \in Nat : HeaderIsOf(r, v, m, t)
<1>1. /\ Len(GetTargets) = 5 /\ \A i, j \in 1 .. 5 : GetTargets[i] = GetTargets[j] => i = j
      /\ DOMAIN GetTargets = 1 .. 5
  BY TargetRanges
<1>2. /\ Len(ConfigTargets) = 5 /\ \A i, j \in 1 .. 5 : ConfigTargets[i] = ConfigTargets[j] => i = j
      /\ DOMAIN ConfigTargets = 1 .. 5
  BY TargetRanges
<1>3. /\ r.cmd \in Range(GetTargets) \cup Range(ConfigTargets) \cup {"bad_version", "bad_method", "bad_target"}
      /\ Range(GetTargets) = {"historic", "concurrent", "transfered", "proxyusers", "adminusers"}
      /\ Range(ConfigTargets) = {"disector", "add_user", "del_user", "add_admin", "del_admin"}
  BY TargetRanges DEF IsRequest, AllRequests
<1>4. CASE r.cmd = "bad_version"
  <2>1. Header(r) = <<2>> \o r.token \o <<Get, 0>>
    BY <1>3, <1>4 DEF Header
  <2>2. HeaderIsOf(r, 2, 0, 0)
    BY <2>1 DEF HeaderIsOf, Get, Config
  <2> QED
    BY <2>2
<1>5. CASE r.cmd = "bad_method"
  <2>1. Header(r) = <<1>> \o r.token \o <<2, 0>>
    BY <1>3, <1>5 DEF Header
  <2>2. HeaderIsOf(r, 1, 2, 0)
    BY <2>1 DEF HeaderIsOf, Get, Config
  <2> QED
    BY <2>2
<1>6. CASE r.cmd = "bad_target"
  <2>1. Header(r) = <<1>> \o r.token \o <<Config, 5>>
    BY <1>3, <1>6 DEF Header
  <2>2. HeaderIsOf(r, 1, 1, 5)
    BY <2>1 DEF HeaderIsOf, Get, Config
  <2> QED
    BY <2>2
<1>7. CASE r.cmd \in Range(GetTargets)
  <2>1. PICK k \in 1 .. 5 : r.cmd = GetTargets[k]
    BY <1>1, <1>7 DEF Range
  <2>2. Code(GetTargets, r.cmd) = k - 1
    BY <1>1, <2>1, CodeOf
  <2>3. Header(r) = <<1>> \o r.token \o <<Get, k - 1>>
    BY <1>3, <1>7, <2>2 DEF Header
  <2>4. HeaderIsOf(r, 1, 0, k - 1) /\ k - 1 \in Nat
    BY <2>1, <2>3 DEF HeaderIsOf, Get, Config
  <2> QED
    BY <2>4
<1>8. CASE r.cmd \in Range(ConfigTargets)
  <2>1. PICK k \in 1 .. 5 : r.cmd = ConfigTargets[k]
    BY <1>2, <1>8 DEF Range
  <2>2. Code(ConfigTargets, r.cmd) = k - 1
    BY <1>2, <2>1, CodeOf
  <2>3. Header(r) = <<1>> \o r.token \o <<Config, k - 1>>
    BY <1>3, <1>8, <2>2 DEF Header
  <2>4. HeaderIsOf(r, 1, 1, k - 1) /\ k - 1 \in Nat
    BY <2>1, <2>3 DEF HeaderIsOf, Get, Config
  <2> QED
    BY <2>4
<1> QED
  BY <1>3, <1>4, <1>5, <1>6, <1>7, <1>8

(* Every request has the shape the server expects.                         *)
LEMMA RequestShape ==
  ASSUME NEW r, IsRequest(r)
  PROVE  Shape(r, serialize_request(r), serialize_config_data(r))
<1> DEFINE B == serialize_request(r)
           D == serialize_config_data(r)
           n == Len(D)
           a == n \div Radix
           b == n % Radix
           tok == r.token
<1>1. D \in Seq(Nat) /\ n \in Nat
  <2>1. D = serialize_config_data(r)
    OBVIOUS
  <2> HIDE DEF D
  <2>2. D \in Seq(Nat)
    BY <2>1, DataType
  <2> QED
    BY <2>2
<1>2. a \in Nat /\ b \in Nat /\ a * Radix + b = n
  BY <1>1, TwoBytesOf
<1>3. tok \in Seq(Nat) /\ Len(tok) = TokenSize /\ TokenSize \in Nat
  <2>1. tok \in Seq(Chars) /\ Len(tok) = TokenSize /\ TokenSize \in Nat
    BY MonitorAssumption DEF MonitorAssumption, IsRequest, AllRequests
  <2>2. \A k \in 1 .. Len(tok) : tok[k] \in Nat
    BY <2>1 DEF Chars
  <2> HIDE DEF tok
  <2> QED
    BY <2>1, <2>2
<1>4. B = Header(r) \o <<a, b>> \o D
  BY DEF serialize_request, TwoBytes
<1>5. PICK v \in Nat, m \in Nat, t \in Nat :
        /\ Header(r) = <<v>> \o tok \o <<m, t>>
        /\ v = 1 /\ m = Get => \E k \in 1 .. 5 : r.cmd = GetTargets[k] /\ t = k - 1
        /\ m = Config => t = 5 \/ \E k \in 1 .. 5 : r.cmd = ConfigTargets[k] /\ t = k - 1
  BY HeaderParts DEF HeaderIsOf
<1> HIDE DEF D, tok, a, b, n
<1>6. B = ((<<v>> \o tok \o <<m, t>>) \o <<a, b>>) \o D
  BY <1>4, <1>5
<1> HIDE DEF B
<1>7. LaidOut(B, TokenSize, v, tok, m, t, a, b, D)
  BY <1>1, <1>2, <1>3, <1>6, Layout, Zenon
<1>8. Shape(r, B, D)
  BY <1>1, <1>2, <1>5, <1>7 DEF LaidOut, Shape, DataAt, tok, n
<1> QED
  BY <1>8 DEF B, D

-----------------------------------------------------------------------------
(* One byte.                                                               *)

(* One element more of a sequence.                                         *)
LEMMA SubSeqGrows ==
  ASSUME NEW S, NEW s \in Seq(S), NEW i \in Nat, i < Len(s)
  PROVE  Append(SubSeq(s, 1, i), s[i + 1]) = SubSeq(s, 1, i + 1)
<1>1. Len(s) \in Nat /\ i \in 0 .. Len(s) /\ i + 1 \in 0 .. Len(s) /\ i + 1 \in 1 .. Len(s)
  OBVIOUS
<1> DEFINE a == SubSeq(s, 1, i)
           b == SubSeq(s, 1, i + 1)
           e == Append(a, s[i + 1])
<1>2. a \in Seq(S) /\ Len(a) = i /\ \A k \in 1 .. i : a[k] = s[k]
  BY <1>1
<1>3. b \in Seq(S) /\ Len(b) = i + 1 /\ \A k \in 1 .. i + 1 : b[k] = s[k]
  BY <1>1
<1>4. s[i + 1] \in S
  BY <1>1
<1> HIDE DEF a, b
<1>5. e \in Seq(S) /\ Len(e) = i + 1 /\ e[i + 1] = s[i + 1] /\ \A k \in 1 .. i : e[k] = s[k]
  BY <1>2, <1>4
<1> HIDE DEF e
<1>6. \A k \in 1 .. i + 1 : e[k] = b[k]
  <2> TAKE k \in 1 .. i + 1
  <2>1. k = i + 1 \/ k \in 1 .. i
    OBVIOUS
  <2> QED
    BY <1>3, <1>5, <2>1
<1>7. e = b
  BY <1>3, <1>5, <1>6, SeqEqual
<1> QED
  BY <1>7 DEF e, a, b

(* All elements of a sequence, and none.                                   *)
LEMMA SubSeqAll ==
  ASSUME NEW S, NEW s \in Seq(S)
  PROVE  SubSeq(s, 1, Len(s)) = s /\ SubSeq(s, 1, 0) = <<>>
<1>1. SubSeq(s, 1, Len(s)) = s
  OBVIOUS
<1>2. SubSeq(s, 1, 0) = <<>>
  OBVIOUS
<1> QED
  BY <1>1, <1>2

(* The parser after the version.                                           *)
LEMMA FeedVersion ==
  ASSUME NEW r, IsRequest(r), NEW p, NEW s, NEW pos, NEW mx, ParserIs(r, p, s, pos, mx),
         p.state = "version", NEW c \in Nat, c = serialize_request(r)[pos + 1],
         NEW q, q = monitor_parser_feed(p, c, s)
  PROVE  ParserIs(r, q.p, q.s, pos + 1, mx)
<1> DEFINE st == IF c = 1 THEN "token" ELSE "unsupported_version"
           p1 == [p EXCEPT !.state = st, !.i = 0, !.len = TokenSize]
<1>1. q = [p |-> p1, s |-> s]
  BY DEF monitor_parser_feed, Fed
<1>2. st \in {"token", "unsupported_version"} /\ (st = "token" => c = 1)
  OBVIOUS
<1> HIDE DEF st
<1>3. p \in ParserTypes /\ pos = 0 /\ p.token = <<>> /\ Fresh(p) /\ s \in StaticTypes
  BY DEF ParserIs, HeaderIs
<1>4. TokenSize \in Nat /\ TokenSize > 0 /\ SubSeq(r.token, 1, 0) = <<>>
  <2>1. r.token \in Seq(Chars)
    BY DEF IsRequest, AllRequests
  <2> QED
    BY <2>1, SubSeqAll, MonitorAssumption DEF MonitorAssumption
<1>5. /\ p1 \in ParserTypes /\ p1.state = st /\ p1.i = 0 /\ p1.len = TokenSize /\ p1.token = p.token
      /\ p1.user = p.user /\ p1.extra = p.extra /\ p1.separated = p.separated
  BY <1>2, <1>3, <1>4 DEF ParserTypes
<1> HIDE DEF p1
<1>6. ParserIs(r, p1, s, 1, mx)
  <2>1. c = serialize_request(r)[1]
    BY <1>3
  <2> QED
    BY <1>2, <1>3, <1>4, <1>5, <2>1 DEF ParserIs, HeaderIs, LengthIs, Fresh
<1> QED
  BY <1>1, <1>3, <1>6

(* The parser after a byte of the token.                                   *)
LEMMA FeedToken ==
  ASSUME NEW r, IsRequest(r), NEW p, NEW s, NEW pos, NEW mx, ParserIs(r, p, s, pos, mx),
         p.state = "token", NEW c, c = serialize_request(r)[pos + 1],
         NEW q, q = monitor_parser_feed(p, c, s)
  PROVE  ParserIs(r, q.p, q.s, pos + 1, mx)
<1> DEFINE B == serialize_request(r)
           st == IF p.i + 1 >= p.len THEN "method" ELSE p.state
           tok == Append(p.token, c)
           n == p.i + 1
           p1 == [p EXCEPT !.token = tok, !.i = n, !.state = st]
<1>1. q = [p |-> p1, s |-> s]
  BY DEF monitor_parser_feed, Fed, token
<1>2. /\ p \in ParserTypes /\ pos = p.i + 1 /\ p.i < TokenSize /\ p.len = TokenSize /\ p.i \in Nat
      /\ p.token = SubSeq(r.token, 1, p.i) /\ Fresh(p) /\ s \in StaticTypes /\ TokenSize \in Nat
      /\ B[1] = 1
  BY MonitorAssumption DEF MonitorAssumption, ParserIs, HeaderIs, ParserTypes
<1>3. r.token \in Seq(Nat) /\ Len(r.token) = TokenSize
  <2>1. r.token \in Seq(Chars) /\ Len(r.token) = TokenSize
    BY DEF IsRequest, AllRequests
  <2> DEFINE u == r.token
  <2>2. \A k \in 1 .. Len(u) : u[k] \in Nat
    BY <2>1 DEF Chars
  <2> HIDE DEF u
  <2>3. u \in Seq(Chars)
    BY <2>1 DEF u
  <2>4. u \in Seq(Nat)
    BY <2>2, <2>3
  <2> QED
    BY <2>1, <2>4 DEF u
<1>4. c = r.token[n] /\ n \in 1 .. TokenSize
  <2>1. n \in 1 .. TokenSize
    BY <1>2
  <2>2. B[n + 1] = r.token[n]
    BY <2>1, RequestShape DEF Shape
  <2> QED
    BY <1>2, <2>1, <2>2
<1>5. tok = SubSeq(r.token, 1, n)
  BY <1>2, <1>3, <1>4, SubSeqGrows
<1>6. tok \in Seq(Nat) /\ (n = TokenSize => tok = r.token)
  <2>1. p.token \in Seq(Nat)
    BY <1>2 DEF ParserTypes
  <2>2. c \in Nat
    <3> DEFINE u == r.token
    <3>1. u \in Seq(Nat) /\ Len(u) = TokenSize /\ c = u[n] /\ n \in 1 .. TokenSize
      BY <1>3, <1>4
    <3> HIDE DEF u, n
    <3> QED
      BY ONLY <3>1
  <2>3. tok \in Seq(Nat)
    BY ONLY <2>1, <2>2 DEF tok
  <2>4. SubSeq(r.token, 1, TokenSize) = r.token
    BY ONLY <1>3, SubSeqAll
  <2> HIDE DEF tok, n
  <2> QED
    BY <1>5, <2>3, <2>4
<1>7. st = (IF n = TokenSize THEN "method" ELSE "token") /\ n \in Nat
  BY <1>2
<1>8. pos + 1 = n + 1 /\ n <= TokenSize
  BY <1>2
<1> HIDE DEF st, tok, n
<1>9. /\ p1 \in ParserTypes /\ p1.state = st /\ p1.i = n /\ p1.len = TokenSize /\ p1.token = tok
      /\ p1.user = p.user /\ p1.extra = p.extra /\ p1.separated = p.separated
  BY <1>2, <1>6, <1>7 DEF ParserTypes
<1> HIDE DEF p1
<1>10. ParserIs(r, p1, s, pos + 1, mx)
  BY <1>2, <1>5, <1>6, <1>7, <1>8, <1>9 DEF ParserIs, HeaderIs, LengthIs, Fresh
<1> QED
  BY <1>1, <1>10

(* The parser after the method.                                            *)
LEMMA FeedMethod ==
  ASSUME NEW r, IsRequest(r), NEW p, NEW s, NEW pos, NEW mx, ParserIs(r, p, s, pos, mx),
         p.state = "method", NEW c \in Nat, c = serialize_request(r)[pos + 1],
         NEW q, q = monitor_parser_feed(p, c, s)
  PROVE  ParserIs(r, q.p, q.s, pos + 1, mx)
<1> DEFINE st == IF c \in {Get, Config} THEN "target" ELSE "unsupported_method"
           p1 == [p EXCEPT !.method = c, !.state = st]
<1>1. q = [p |-> p1, s |-> s]
  BY DEF monitor_parser_feed, Fed, method
<1>2. /\ p \in ParserTypes /\ pos = TokenSize + 1 /\ p.token = r.token /\ Fresh(p) /\ s \in StaticTypes
      /\ TokenSize \in Nat /\ serialize_request(r)[1] = 1
  BY MonitorAssumption DEF MonitorAssumption, ParserIs, HeaderIs, ParserTypes
<1>3. st \in {"target", "unsupported_method"} /\ (st = "target" => c \in {Get, Config})
  OBVIOUS
<1>4. pos + 1 = TokenSize + 2
  BY <1>2
<1> HIDE DEF st
<1>5. /\ p1 \in ParserTypes /\ p1.state = st /\ p1.method = c /\ p1.token = p.token
      /\ p1.user = p.user /\ p1.extra = p.extra /\ p1.separated = p.separated
  BY <1>2, <1>3 DEF ParserTypes
<1> HIDE DEF p1
<1>6. ParserIs(r, p1, s, pos + 1, mx)
  BY <1>2, <1>3, <1>4, <1>5 DEF ParserIs, HeaderIs, LengthIs, Fresh
<1> QED
  BY <1>1, <1>6

(* The parser after the target.                                            *)
LEMMA FeedTarget ==
  ASSUME NEW r, IsRequest(r), NEW p, NEW s, NEW pos, NEW mx, ParserIs(r, p, s, pos, mx),
         p.state = "target", NEW c \in Nat, c = serialize_request(r)[pos + 1],
         NEW q, q = monitor_parser_feed(p, c, s)
  PROVE  ParserIs(r, q.p, q.s, pos + 1, mx)
<1> DEFINE B == serialize_request(r)
           p1 == target(p, c)
<1>1. q = [p |-> p1, s |-> s]
  BY DEF monitor_parser_feed, Fed
<1>2. /\ p \in ParserTypes /\ pos = TokenSize + 2 /\ p.token = r.token /\ Fresh(p) /\ s \in StaticTypes
      /\ p.method = B[TokenSize + 2] /\ p.method \in {Get, Config} /\ TokenSize \in Nat
      /\ B[1] = 1
  BY MonitorAssumption DEF MonitorAssumption, ParserIs, HeaderIs, ParserTypes
<1>3. pos + 1 = TokenSize + 3 /\ c = B[TokenSize + 3]
  BY <1>2
<1>4. /\ p.method = Config /\ c \in 0 .. 4 => r.cmd = ConfigTargets[c + 1]
      /\ p.method = Get => r.cmd = GetTargets[c + 1]
  <2>0. B[1] = 1 /\ B[TokenSize + 2] = Get =>
           \E k \in 1 .. 5 : r.cmd = GetTargets[k] /\ B[TokenSize + 3] = k - 1
    BY RequestShape DEF Shape
  <2>1. B[TokenSize + 2] = Config =>
           \/ B[TokenSize + 3] = 5
           \/ \E k \in 1 .. 5 : r.cmd = ConfigTargets[k] /\ B[TokenSize + 3] = k - 1
    BY RequestShape DEF Shape
  <2> HIDE DEF B
  <2>2. p.method = Config /\ c \in 0 .. 4 => r.cmd = ConfigTargets[c + 1]
    BY <1>2, <1>3, <2>1
  <2>3. p.method = Get => r.cmd = GetTargets[c + 1]
    BY <1>2, <1>3, <2>0
  <2> QED
    BY <2>2, <2>3
<1> HIDE DEF B
<1>5. CASE c \notin 0 .. 4
  <2>1. p1 = [p EXCEPT !.state = "unsupported_target"]
    BY <1>5 DEF target
  <2> HIDE DEF p1
  <2>2. p1 \in ParserTypes /\ p1.state = "unsupported_target"
    BY <1>2, <2>1 DEF ParserTypes
  <2>3. ParserIs(r, p1, s, pos + 1, mx)
    BY <1>2, <2>2 DEF ParserIs, HeaderIs, LengthIs
  <2> QED
    BY <1>1, <2>3
<1>6. CASE c \in 0 .. 4 /\ p.method = Get
  <2> DEFINE g == GetTargets[c + 1]
  <2>1. p1 = [p EXCEPT !.target = g, !.state = "done"]
    BY <1>6 DEF target
  <2>2. g \in Range(GetTargets) /\ g = r.cmd
    BY <1>4, <1>6, TargetRanges
  <2> HIDE DEF p1, g
  <2>3. /\ p1 \in ParserTypes /\ p1.state = "done" /\ p1.token = p.token /\ p1.method = Get
        /\ p1.target = g
    BY <1>2, <1>6, <2>1, <2>2 DEF ParserTypes
  <2>4. ParserIs(r, p1, s, pos + 1, mx)
    BY <1>2, <2>2, <2>3 DEF ParserIs, HeaderIs, LengthIs, Get, Config
  <2> QED
    BY <1>1, <2>4
<1>7. CASE c \in 0 .. 4 /\ p.method = Config
  <2> DEFINE g == ConfigTargets[c + 1]
  <2>1. p1 = [p EXCEPT !.target = g, !.i = 0, !.len = 2, !.state = "dlen"]
    BY <1>7 DEF target, Get, Config
  <2>2. g \in Range(ConfigTargets) /\ g \in Changes /\ g = r.cmd
    BY <1>4, <1>7, TargetRanges
  <2> HIDE DEF p1, g
  <2>3. /\ p1 \in ParserTypes /\ p1.state = "dlen" /\ p1.token = p.token /\ p1.method = Config
        /\ p1.target = r.cmd /\ p1.i = 0 /\ p1.len = 2
        /\ p1.user = p.user /\ p1.extra = p.extra /\ p1.separated = p.separated
    BY <1>2, <1>7, <2>1, <2>2 DEF ParserTypes
  <2>4. ParserIs(r, p1, s, pos + 1, mx)
    BY <1>2, <1>3, <2>2, <2>3 DEF ParserIs, HeaderIs, LengthIs, Fresh
  <2> QED
    BY <1>1, <2>4
<1> QED
  BY <1>2, <1>5, <1>6, <1>7

(* The parser after a byte of DLEN.                                        *)
LEMMA FeedLength ==
  ASSUME NEW r, IsRequest(r), NEW p, NEW s, NEW pos, NEW mx, ParserIs(r, p, s, pos, mx),
         p.state = "dlen", NEW c \in Nat, c = serialize_request(r)[pos + 1],
         NEW q, q = monitor_parser_feed(p, c, s)
  PROVE  ParserIs(r, q.p, q.s, pos + 1, mx)
<1> DEFINE B == serialize_request(r)
           D == serialize_config_data(r)
           cl == [s.combined EXCEPT ![p.i + 1] = c]
           s1 == [s EXCEPT !.combined = cl]
<1>1. /\ p \in ParserTypes /\ p.i \in {0, 1} /\ p.len = 2 /\ pos = TokenSize + 3 + p.i
      /\ (p.i = 1 /\ ~mx => s.combined[1] = B[TokenSize + 4])
      /\ p.token = r.token /\ p.method = Config /\ p.target = r.cmd /\ r.cmd \in Changes
      /\ Fresh(p) /\ s \in StaticTypes /\ TokenSize \in Nat
  BY MonitorAssumption DEF MonitorAssumption, ParserIs, HeaderIs, LengthIs, ParserTypes
<1>2. q = dlen(p, c, s)
  BY DEF monitor_parser_feed
<1>3. cl \in [1 .. 2 -> Nat] /\ cl[p.i + 1] = c /\ (p.i = 1 => cl[1] = s.combined[1])
  <2>1. s.combined \in [1 .. 2 -> Nat]
    BY <1>1 DEF StaticTypes
  <2> QED
    BY <1>1, <2>1
<1>4. B[TokenSize + 4] * Radix + B[TokenSize + 5] = Len(D) /\ r.name \in Seq(Chars)
  BY RequestShape DEF Shape, IsRequest, AllRequests
<1> HIDE DEF cl, B, D
<1>5. s1 \in StaticTypes /\ s1.combined = cl
  BY <1>1, <1>3 DEF StaticTypes
<1>6. CASE p.i = 0
  <2> DEFINE p1 == [p EXCEPT !.i = 1]
  <2>1. q = [p |-> p1, s |-> s1]
    BY <1>1, <1>2, <1>6 DEF dlen, Fed, cl
  <2>2. /\ p1 \in ParserTypes /\ p1.state = "dlen" /\ p1.token = r.token /\ p1.method = Config
        /\ p1.target = r.cmd /\ p1.i = 1 /\ p1.len = 2
        /\ p1.user = p.user /\ p1.extra = p.extra /\ p1.separated = p.separated
    BY <1>1 DEF ParserTypes
  <2> HIDE DEF p1, s1
  <2>3. pos + 1 = TokenSize + 3 + 1 /\ c = B[TokenSize + 4]
    BY <1>1, <1>6 DEF B
  <2>4. s1.combined[1] = B[TokenSize + 4]
    BY <1>3, <1>5, <1>6, <2>3
  <2>5. ParserIs(r, p1, s1, pos + 1, mx)
    BY <1>1, <1>5, <2>2, <2>3, <2>4 DEF ParserIs, HeaderIs, LengthIs, Fresh, B
  <2> QED
    BY <2>1, <2>5
<1>7. CASE p.i = 1 /\ r.cmd = "disector"
  <2> DEFINE p1 == [p EXCEPT !.i = 2, !.state = "data"]
  <2>1. q = [p |-> p1, s |-> s1]
    BY <1>1, <1>2, <1>7 DEF dlen, Fed, cl
  <2>2. /\ p1 \in ParserTypes /\ p1.state = "data" /\ p1.token = r.token /\ p1.method = Config
        /\ p1.target = r.cmd
    BY <1>1 DEF ParserTypes
  <2> HIDE DEF p1, s1
  <2>3. pos + 1 = DataAt
    BY <1>1, <1>7 DEF DataAt
  <2>4. DataIs(r, p1, s1, pos + 1)
    BY <1>7, <2>3 DEF DataIs, Adds, Dels
  <2>5. ParserIs(r, p1, s1, pos + 1, mx)
    BY <1>1, <1>5, <2>2, <2>3, <2>4 DEF ParserIs, HeaderIs, LengthIs, DataAt
  <2> QED
    BY <2>1, <2>5
<1>8. CASE p.i = 1 /\ r.cmd # "disector"
  <2> DEFINE n == cl[1] * Radix + cl[2]
             p1 == [p EXCEPT !.i = 0, !.len = n, !.state = "data"]
  <2>1. q = [p |-> p1, s |-> s1]
    BY <1>1, <1>2, <1>8 DEF dlen, Fed, cl
  <2>2. n \in Nat
    <3>1. cl[1] \in Nat /\ cl[2] \in Nat /\ Radix \in Nat
      BY <1>3, MonitorAssumption DEF MonitorAssumption
    <3> QED
      BY <3>1
  <2>3. ~mx => n = Len(D)
    <3>1. cl[2] = B[TokenSize + 5] /\ (~mx => cl[1] = B[TokenSize + 4])
      BY <1>1, <1>3, <1>8 DEF B
    <3> QED
      BY <1>4, <3>1
  <2> HIDE DEF n
  <2>4. /\ p1 \in ParserTypes /\ p1.state = "data" /\ p1.token = r.token /\ p1.method = Config
        /\ p1.target = r.cmd /\ p1.i = 0 /\ p1.len = n
        /\ p1.user = p.user /\ p1.extra = p.extra /\ p1.separated = p.separated
    BY <1>1, <2>2 DEF ParserTypes
  <2> HIDE DEF p1, s1
  <2>5. pos + 1 = DataAt /\ pos + 1 = DataAt + 0
    BY <1>1, <1>8 DEF DataAt
  <2>6. NameIs(r, p1)
    <3>1. SubSeq(r.name, 1, 0) = <<>> /\ Len(r.name) \in Nat
      BY <1>4, SubSeqAll
    <3> QED
      BY <1>1, <2>4, <3>1 DEF NameIs, Fresh
  <2>7. ~mx => DataIs(r, p1, s1, pos + 1)
    BY <1>1, <1>8, <2>2, <2>3, <2>4, <2>5, <2>6 DEF DataIs, Fresh, D
  <2>8. ParserIs(r, p1, s1, pos + 1, mx)
    BY <1>1, <1>5, <2>4, <2>5, <2>7 DEF ParserIs, HeaderIs, LengthIs, DataAt
  <2> QED
    BY <2>1, <2>8
<1> QED
  BY <1>1, <1>6, <1>7, <1>8

(* A parser in the data of r.                                              *)
InData(r, x, s, pos, mx) ==
  /\ x \in ParserTypes /\ s \in StaticTypes /\ pos \in Nat
  /\ x.state = "data" /\ x.token = r.token /\ x.method = Config /\ x.target = r.cmd
  /\ r.cmd \in Changes \ {"disector"}
  /\ ~mx => DataIs(r, x, s, pos)

(* All data are there.                                                     *)
LEMMA AllFound ==
  ASSUME NEW r, IsRequest(r), NEW x \in ParserTypes, NEW s, NEW pos, DataIs(r, x, s, pos),
         r.cmd \in Changes \ {"disector"}, x.i >= x.len
  PROVE  FoundIs(r, x)
<1> DEFINE D == serialize_config_data(r)
<1>1. D = serialize_config_data(r)
  OBVIOUS
<1> HIDE DEF D
<1>2. r.name \in Seq(Chars) /\ r.secret \in Seq(Nat) /\ x.i \in Nat /\ x.len \in Nat
  BY DEF IsRequest, AllRequests, ParserTypes
<1>3. x.i = x.len /\ x.len = Len(D)
  BY <1>1, <1>2 DEF DataIs
<1>4. CASE r.cmd \in Dels
  <2>1. D = r.name
    BY <1>1, <1>4, DataType
  <2>2. x.user = SubSeq(r.name, 1, Len(r.name))
    BY <1>3, <1>4, <2>1 DEF DataIs, NameIs
  <2>3. x.user = r.name
    BY <1>2, <2>2, SubSeqAll
  <2> QED
    BY <1>4, <2>3 DEF FoundIs, Adds, Dels
<1>5. CASE r.cmd \in Adds
  <2>1. Len(D) = Len(r.name) + 1 + Len(r.secret)
    BY <1>1, <1>5, DataType
  <2>2. Len(r.name) \in Nat /\ Len(r.secret) \in Nat
    BY <1>2
  <2>3. SecretIs(r, x, s)
    <3>1. ~NameIs(r, x)
      <4>1. x.i \in Nat /\ x.i > Len(r.name)
        <5> DEFINE a == Len(r.name)
                   b == Len(r.secret)
                   i == x.i
        <5>1. i = a + 1 + b /\ a \in Nat /\ b \in Nat
          BY <1>3, <2>1, <2>2
        <5> HIDE DEF a, b, i
        <5>2. i \in Nat /\ i > a
          BY <5>1
        <5> QED
          BY <5>2 DEF a, i
      <4> QED
        BY <2>2, <4>1 DEF NameIs
    <3>2. IF x.separated THEN SecretIs(r, x, s) ELSE NameIs(r, x)
      BY <1>5 DEF DataIs
    <3> QED
      BY <3>1, <3>2, Zenon
  <2>4. x.i - (Len(r.name) + 1) = Len(r.secret)
    BY <1>3, <2>1, <2>2
  <2>5. x.user = r.name \o <<0>> /\ x.extra = r.secret
    BY <1>2, <2>3, <2>4, SubSeqAll DEF SecretIs
  <2> QED
    BY <1>5, <2>5 DEF FoundIs, Adds, Dels
<1> QED
  BY <1>4, <1>5 DEF Changes

(* Ends turns complete data into what was found.                           *)
LEMMA EndsKeeps ==
  ASSUME NEW r, IsRequest(r), NEW x, NEW s, NEW pos, NEW mx, InData(r, x, s, pos, mx)
  PROVE  ParserIs(r, Ends(x), s, pos, mx)
<1>1. CASE x.i >= x.len
  <2> DEFINE e == [x EXCEPT !.state = "done", !.separated = FALSE]
  <2>1. Ends(x) = e
    BY <1>1 DEF Ends
  <2>2. FALSE \in BOOLEAN
    OBVIOUS
  <2>3. /\ e \in ParserTypes /\ e.state = "done" /\ e.token = r.token /\ e.method = Config
        /\ e.target = r.cmd /\ e.user = x.user /\ e.extra = x.extra
    BY <2>2 DEF InData, ParserTypes
  <2> HIDE DEF e
  <2>4. ~mx => FoundIs(r, x)
    BY <1>1, AllFound DEF InData
  <2>5. ~mx => FoundIs(r, e)
    BY <2>3, <2>4 DEF FoundIs, InData
  <2>6. ParserIs(r, e, s, pos, mx)
    BY <2>3, <2>5 DEF ParserIs, HeaderIs, LengthIs, InData, Get, Config
  <2> QED
    BY <2>1, <2>6
<1>2. CASE ~(x.i >= x.len)
  <2>1. Ends(x) = x
    BY <1>2 DEF Ends
  <2>2. ParserIs(r, x, s, pos, mx)
    BY DEF ParserIs, HeaderIs, LengthIs, InData
  <2> QED
    BY <2>1, <2>2
<1> QED
  BY <1>1, <1>2

(* A byte that is refused.                                                 *)
LEMMA Invalid ==
  ASSUME NEW r, NEW p \in ParserTypes, NEW s \in StaticTypes, NEW pos \in Nat, NEW mx
  PROVE  ParserIs(r, [p EXCEPT !.state = "invalid_data"], s, pos, mx)
<1> DEFINE e == [p EXCEPT !.state = "invalid_data"]
<1>1. e \in ParserTypes /\ e.state = "invalid_data"
  BY DEF ParserTypes
<1> HIDE DEF e
<1>2. ParserIs(r, e, s, pos, mx)
  BY <1>1 DEF ParserIs, HeaderIs, LengthIs
<1> QED
  BY <1>2 DEF e

(* A byte of data: the one at that place, if the length is known.          *)
LEMMA DataByte ==
  ASSUME NEW r, IsRequest(r), NEW p \in ParserTypes, NEW s, NEW pos, DataIs(r, p, s, pos),
         r.cmd # "disector", pos + 1 \in 1 .. Len(serialize_request(r))
  PROVE  /\ serialize_request(r)[pos + 1] = serialize_config_data(r)[p.i + 1]
         /\ p.i + 1 <= p.len /\ p.i + 1 \in 1 .. Len(serialize_config_data(r))
         /\ pos + 1 = DataAt + (p.i + 1)
<1> DEFINE B == serialize_request(r)
           D == serialize_config_data(r)
<1>1. p.i \in Nat /\ pos = DataAt + p.i /\ p.len = Len(D) /\ DataAt \in Nat
  BY MonitorAssumption DEF MonitorAssumption, DataIs, ParserTypes, DataAt
<1>2. /\ D \in Seq(Nat) /\ Len(B) = DataAt + Len(D)
      /\ \A k \in 1 .. Len(D) : B[DataAt + k] = D[k]
  BY RequestShape DEF Shape
<1>3. pos + 1 \in 1 .. Len(B)
  OBVIOUS
<1> HIDE DEF B, D
<1>4. p.i + 1 \in 1 .. Len(D) /\ pos + 1 = DataAt + (p.i + 1)
  BY <1>1, <1>2, <1>3, SMTT(30)
<1>5. B[pos + 1] = D[p.i + 1]
  BY <1>2, <1>4
<1> QED
  BY <1>1, <1>4, <1>5 DEF B, D

(* The parser after the byte of the dissector switch.                      *)
LEMMA FeedFlag ==
  ASSUME NEW r, IsRequest(r), NEW p, NEW s, NEW pos, NEW mx, ParserIs(r, p, s, pos, mx),
         p.state = "data", r.cmd = "disector", pos + 1 \in 1 .. Len(serialize_request(r)),
         NEW c \in Nat, c = serialize_request(r)[pos + 1],
         NEW q, q = monitor_parser_feed(p, c, s)
  PROVE  ParserIs(r, q.p, q.s, pos + 1, mx)
<1> DEFINE B == serialize_request(r)
           D == serialize_config_data(r)
           p1 == [p EXCEPT !.flag = c, !.state = "done"]
<1>1. /\ p \in ParserTypes /\ s \in StaticTypes /\ pos \in Nat /\ p.token = r.token /\ p.method = Config
      /\ p.target = r.cmd /\ r.cmd \in Changes /\ (~mx => pos = DataAt)
  BY DEF ParserIs, DataIs
<1>2. q = [p |-> p1, s |-> s]
  BY <1>1 DEF monitor_parser_feed, data, Fed
<1>3. /\ p1 \in ParserTypes /\ p1.state = "done" /\ p1.token = r.token /\ p1.method = Config
      /\ p1.target = r.cmd /\ p1.flag = c
  BY <1>1 DEF ParserTypes
<1> HIDE DEF p1
<1>4. ~mx => (c = 1 <=> r.secret = <<1>>)
  <2>1. SUFFICES ASSUME ~mx PROVE c = 1 <=> r.secret = <<1>>
    OBVIOUS
  <2>2. D = r.secret /\ r.secret \in {<<0>>, <<1>>}
    <3>1. D = serialize_config_data(r)
      OBVIOUS
    <3> HIDE DEF D
    <3> QED
      BY <3>1, DataType DEF IsRequest
  <2>3. Len(D) = 1 /\ (D[1] = 1 <=> r.secret = <<1>>)
    <3> HIDE DEF D
    <3> QED
      BY <2>2
  <2>4. \A k \in 1 .. Len(D) : B[DataAt + k] = D[k]
    BY RequestShape DEF Shape
  <2> HIDE DEF B, D
  <2>5. c = B[DataAt + 1]
    BY <1>1, <2>1 DEF B
  <2> QED
    BY <2>3, <2>4, <2>5
<1>5. ~mx => FoundIs(r, p1)
  BY <1>3, <1>4 DEF FoundIs, Adds, Dels
<1>6. ParserIs(r, p1, s, pos + 1, mx)
  BY <1>1, <1>3, <1>5 DEF ParserIs, HeaderIs, LengthIs, Get, Config
<1> QED
  BY <1>2, <1>6

(* What FeedDel and FeedAdd start from.                                    *)
LEMMA DataFacts ==
  ASSUME NEW r, IsRequest(r), NEW p, NEW s, NEW pos, NEW mx, ParserIs(r, p, s, pos, mx),
         p.state = "data"
  PROVE  /\ p \in ParserTypes /\ s \in StaticTypes /\ pos \in Nat /\ p.token = r.token
         /\ p.method = Config /\ p.target = r.cmd /\ (~mx => DataIs(r, p, s, pos))
         /\ p.i \in Nat /\ p.user \in Seq(Nat) /\ p.extra \in Seq(Nat) /\ r.name \in Seq(Chars)
         /\ r.secret \in Seq(Nat) /\ Len(r.name) \in Nat /\ Len(r.secret) \in Nat /\ s.ulen \in Nat
<1>1. r.name \in Seq(Chars) /\ r.secret \in Seq(Nat)
  BY DEF IsRequest, AllRequests
<1>2. Len(r.name) \in Nat /\ Len(r.secret) \in Nat
  BY <1>1
<1> QED
  BY <1>1, <1>2 DEF ParserIs, ParserTypes, StaticTypes

(* One more byte of the name.                                              *)
LEMMA NameGrows ==
  ASSUME NEW r, IsRequest(r), NEW p, NEW s, NEW pos, NEW mx, ParserIs(r, p, s, pos, mx),
         p.state = "data", r.cmd \in Adds \cup Dels, ~mx => p.separated = FALSE,
         pos + 1 \in 1 .. Len(serialize_request(r)),
         NEW c \in Nat, c = serialize_request(r)[pos + 1], c # 0
  PROVE  InData(r, [p EXCEPT !.user = Append(p.user, c), !.i = p.i + 1], s, pos + 1, mx)
<1> DEFINE D == serialize_config_data(r)
           u == Append(p.user, c)
           n == p.i + 1
           x == [p EXCEPT !.user = u, !.i = n]
<1>1. /\ p \in ParserTypes /\ s \in StaticTypes /\ pos \in Nat /\ p.token = r.token
      /\ p.method = Config /\ p.target = r.cmd /\ (~mx => DataIs(r, p, s, pos))
      /\ p.i \in Nat /\ p.user \in Seq(Nat) /\ r.name \in Seq(Chars) /\ Len(r.name) \in Nat
  BY DataFacts
<1>2. u \in Seq(Nat) /\ n \in Nat /\ r.cmd # "disector" /\ r.cmd \in Changes
  BY <1>1 DEF Adds, Dels, Changes
<1>3. ASSUME ~mx
      PROVE  /\ p.i < Len(r.name) /\ u = SubSeq(r.name, 1, n) /\ n <= Len(r.name) /\ p.extra = <<>>
             /\ n <= p.len /\ pos + 1 = DataAt + n
  <2>1. DataIs(r, p, s, pos)
    BY <1>1, <1>3
  <2>2. c = D[n] /\ n <= p.len /\ n \in 1 .. Len(D) /\ pos + 1 = DataAt + n
    BY <1>1, <1>2, <2>1, DataByte
  <2>3. NameIs(r, p)
    BY <1>3, <2>1 DEF DataIs
  <2>4. p.i <= Len(r.name) /\ p.user = SubSeq(r.name, 1, p.i) /\ p.extra = <<>>
    BY <2>3 DEF NameIs
  <2>5. p.i < Len(r.name) /\ c = r.name[p.i + 1]
    <3>1. D = serialize_config_data(r)
      OBVIOUS
    <3> HIDE DEF D
    <3>2. CASE r.cmd \in Dels
      <4>1. D = r.name
        BY <3>1, <3>2, DataType
      <4> QED
        BY <1>1, <2>2, <4>1
    <3>3. CASE r.cmd \in Adds
      <4>1. D[Len(r.name) + 1] = 0 /\ \A k \in 1 .. Len(r.name) : D[k] = r.name[k]
        BY <3>1, <3>3, DataType, ZenonT(30)
      <4> HIDE DEF n
      <4>2. n # Len(r.name) + 1
        BY <2>2, <4>1
      <4>3. p.i < Len(r.name) /\ n \in 1 .. Len(r.name)
        <5>1. p.i \in Nat /\ Len(r.name) \in Nat /\ p.i <= Len(r.name) /\ n = p.i + 1
          BY <1>1, <2>4 DEF n
        <5> QED
          BY ONLY <4>2, <5>1
      <4> QED
        BY <2>2, <4>1, <4>3 DEF n
    <3> QED
      BY <3>2, <3>3
  <2>6. u = SubSeq(r.name, 1, n)
    BY <1>1, <2>4, <2>5, SubSeqGrows
  <2>7. n <= Len(r.name)
    BY <1>1, <2>5
  <2> QED
    BY <2>2, <2>4, <2>5, <2>6, <2>7
<1> HIDE DEF u, n, D
<1>4. /\ x \in ParserTypes /\ x.state = "data" /\ x.token = r.token /\ x.method = Config
      /\ x.target = r.cmd /\ x.i = n /\ x.len = p.len /\ x.user = u /\ x.extra = p.extra
      /\ x.separated = p.separated
  BY <1>1, <1>2 DEF ParserTypes
<1> HIDE DEF x
<1>5. ~mx => DataIs(r, x, s, pos + 1)
  <2> SUFFICES ASSUME ~mx PROVE DataIs(r, x, s, pos + 1)
    OBVIOUS
  <2>1. NameIs(r, x)
    BY <1>3, <1>4 DEF NameIs
  <2>2. p.len = Len(serialize_config_data(r))
    BY <1>1, <1>2 DEF DataIs
  <2> QED
    BY <1>2, <1>3, <1>4, <2>1, <2>2 DEF DataIs
<1>6. InData(r, x, s, pos + 1, mx)
  BY <1>1, <1>2, <1>4, <1>5 DEF InData
<1> QED
  BY <1>6 DEF x, u, n

(* The parser after a byte of a name to delete.                            *)
LEMMA FeedDel ==
  ASSUME NEW r, IsRequest(r), NEW p, NEW s, NEW pos, NEW mx, ParserIs(r, p, s, pos, mx),
         p.state = "data", r.cmd \in Dels, pos + 1 \in 1 .. Len(serialize_request(r)),
         NEW c \in Nat, c = serialize_request(r)[pos + 1],
         NEW q, q = monitor_parser_feed(p, c, s)
  PROVE  ParserIs(r, q.p, q.s, pos + 1, mx)
<1>1. /\ p \in ParserTypes /\ s \in StaticTypes /\ pos \in Nat /\ p.target = r.cmd
      /\ (~mx => DataIs(r, p, s, pos))
  BY DataFacts
<1>2. q = [p |-> DelData(p, c), s |-> s]
  BY <1>1 DEF monitor_parser_feed, data, Fed, Dels
<1>3. CASE IsAlnum(c)
  <2> DEFINE x == [p EXCEPT !.user = Append(p.user, c), !.i = p.i + 1]
  <2>1. DelData(p, c) = Ends(x)
    BY <1>3 DEF DelData
  <2>2. c # 0
    BY ONLY <1>3 DEF IsAlnum
  <2>3. ~mx => p.separated = FALSE
    BY <1>1 DEF DataIs
  <2>4. InData(r, x, s, pos + 1, mx)
    BY <2>2, <2>3, NameGrows
  <2> HIDE DEF x
  <2>5. ParserIs(r, Ends(x), s, pos + 1, mx)
    BY <2>4, EndsKeeps
  <2> QED
    BY <1>2, <2>1, <2>5
<1>4. CASE ~IsAlnum(c)
  <2>1. DelData(p, c) = [p EXCEPT !.state = "invalid_data"] /\ pos + 1 \in Nat
    BY <1>1, <1>4 DEF DelData
  <2>2. ParserIs(r, [p EXCEPT !.state = "invalid_data"], s, pos + 1, mx)
    BY <1>1, <2>1, Invalid
  <2> QED
    BY <1>2, <2>1, <2>2
<1> QED
  BY <1>3, <1>4

(* array[at] = c: in its place in the array, and at its end the next byte. *)
LEMMA StoreType ==
  ASSUME NEW bytes \in Seq(Nat), NEW at \in Int, NEW c \in Nat
  PROVE  Store(bytes, at, c) \in Seq(Nat) /\ (at = Len(bytes) => Store(bytes, at, c) = Append(bytes, c))
<1> DEFINE n == IF at < Len(bytes) THEN Len(bytes) ELSE at + 1
           f == [k \in 1 .. n |-> IF k = at + 1 THEN c ELSE IF k <= Len(bytes) THEN bytes[k] ELSE 0]
<1>1. Len(bytes) \in Nat
  OBVIOUS
<1>2. CASE at < 0
  BY <1>1, <1>2 DEF Store
<1>3. CASE at >= 0
  <2>1. Store(bytes, at, c) = f
    BY <1>3 DEF Store
  <2>2. n \in Nat
    BY <1>1, <1>3
  <2>3. \A k \in 1 .. n : f[k] \in Nat
    <3> HIDE DEF n
    <3> QED
      BY <1>1, <2>2
  <2>4. f \in Seq(Nat) /\ Len(f) = n
    <3>1. f \in [1 .. n -> Nat]
      <4>1. f = [k \in 1 .. n |-> f[k]]
        OBVIOUS
      <4> HIDE DEF f
      <4> QED
        BY <2>3, <4>1
    <3> HIDE DEF f, n
    <3> QED
      BY <2>2, <3>1, IsASeq, LenProperties
  <2>5. ASSUME at = Len(bytes) PROVE f = Append(bytes, c)
    <3>1. n = Len(bytes) + 1
      BY <1>1, <2>5
    <3>2. \A k \in 1 .. n : f[k] = Append(bytes, c)[k]
      BY <1>1, <2>5, <3>1
    <3>3. Append(bytes, c) \in Seq(Nat) /\ Len(Append(bytes, c)) = n
      BY <1>1, <3>1
    <3> HIDE DEF f, n
    <3> QED
      BY <2>4, <3>2, <3>3, SeqEqual
  <2> QED
    BY <2>1, <2>4, <2>5
<1> QED
  BY <1>2, <1>3

(* One more byte of the password or token.                                 *)
LEMMA SecretGrows ==
  ASSUME NEW r, IsRequest(r), NEW p, NEW s, NEW pos, NEW mx, ParserIs(r, p, s, pos, mx),
         p.state = "data", r.cmd \in Adds, p.separated,
         pos + 1 \in 1 .. Len(serialize_request(r)),
         NEW c \in Nat, c = serialize_request(r)[pos + 1]
  PROVE  InData(r, [p EXCEPT !.extra = Store(p.extra, p.i - s.ulen, c), !.i = p.i + 1], s, pos + 1, mx)
<1> DEFINE D == serialize_config_data(r)
           e == Store(p.extra, p.i - s.ulen, c)
           n == p.i + 1
           a == Len(r.name) + 1
           x == [p EXCEPT !.extra = e, !.i = n]
<1>1. /\ p \in ParserTypes /\ s \in StaticTypes /\ pos \in Nat /\ p.token = r.token
      /\ p.method = Config /\ p.target = r.cmd /\ (~mx => DataIs(r, p, s, pos))
      /\ p.i \in Nat /\ p.extra \in Seq(Nat) /\ r.secret \in Seq(Nat) /\ Len(r.secret) \in Nat
      /\ a \in Nat /\ s.ulen \in Nat
  BY DataFacts
<1>2. n \in Nat /\ r.cmd # "disector" /\ r.cmd \in Changes /\ r.cmd \notin Dels
  BY <1>1 DEF Adds, Dels, Changes
<1>3. e \in Seq(Nat)
  BY <1>1, StoreType
<1>4. ASSUME ~mx
      PROVE  /\ n >= a /\ s.ulen = a /\ p.user = r.name \o <<0>> /\ e = SubSeq(r.secret, 1, n - a)
             /\ n <= p.len /\ pos + 1 = DataAt + n
  <2>1. DataIs(r, p, s, pos)
    BY <1>1, <1>4
  <2>2. c = D[n] /\ n <= p.len /\ n \in 1 .. Len(D) /\ pos + 1 = DataAt + n
    BY <1>1, <1>2, <2>1, DataByte
  <2>3. SecretIs(r, p, s)
    <3>1. IF p.separated THEN SecretIs(r, p, s) ELSE NameIs(r, p)
      BY <2>1 DEF DataIs
    <3> QED
      BY <3>1, Zenon
  <2>4. p.i >= a /\ s.ulen = a /\ p.user = r.name \o <<0>> /\ p.extra = SubSeq(r.secret, 1, p.i - a)
    BY <2>3 DEF SecretIs
  <2>5. Len(D) = a + Len(r.secret) /\ \A k \in 1 .. Len(r.secret) : D[a + k] = r.secret[k]
    <3>1. D = serialize_config_data(r)
      OBVIOUS
    <3> HIDE DEF D
    <3>2. /\ Len(D) = Len(r.name) + 1 + Len(r.secret)
          /\ \A k \in 1 .. Len(r.secret) : D[Len(r.name) + 1 + k] = r.secret[k]
      BY ONLY <3>1, IsRequest(r), r.cmd \in Adds, DataType
    <3> QED
      BY ONLY <3>2
  <2> DEFINE m == p.i - a
  <2>6. m \in Nat /\ m < Len(r.secret) /\ m + 1 \in 1 .. Len(r.secret) /\ a + (m + 1) = n /\ m + 1 = n - a
    <3> DEFINE i == p.i
               b == Len(r.secret)
               d == Len(D)
    <3>1. i \in Nat /\ a \in Nat /\ b \in Nat /\ i >= a /\ i + 1 <= d /\ d = a + b
      <4>1. i \in Nat /\ a \in Nat /\ b \in Nat /\ i >= a /\ d = a + b
        BY ONLY <1>1, <2>4, <2>5
      <4>2. i + 1 <= d
        <5>1. i + 1 \in 1 .. d
          BY ONLY <2>2
        <5> HIDE DEF i, d, a, b
        <5> QED
          BY ONLY <4>1, <5>1
      <4> QED
        BY ONLY <4>1, <4>2
    <3> HIDE DEF i, a, b, d
    <3>2. i - a \in Nat /\ i - a < b /\ (i - a) + 1 \in 1 .. b /\ a + ((i - a) + 1) = i + 1
          /\ (i - a) + 1 = (i + 1) - a
      BY ONLY <3>1
    <3> QED
      BY <3>2 DEF i, b
  <2> HIDE DEF D, a, e
  <2>7. c = r.secret[m + 1]
    BY <2>2, <2>5, <2>6
  <2>8. Len(SubSeq(r.secret, 1, m)) = m
    BY <1>1, <2>6, SMTT(30)
  <2>9. e = Append(p.extra, c)
    <3>1. p.i - s.ulen = m /\ Len(p.extra) = m /\ m \in Int
      BY <2>4, <2>6, <2>8
    <3>2. e = Store(p.extra, m, c)
      BY <3>1 DEF e
    <3> HIDE DEF m
    <3>3. p.extra \in Seq(Nat)
      BY <1>1
    <3> QED
      BY ONLY <3>1, <3>2, <3>3, c \in Nat, StoreType
  <2> HIDE DEF m, n
  <2>10. e = SubSeq(r.secret, 1, m + 1)
    BY <1>1, <2>4, <2>6, <2>7, <2>9, SubSeqGrows DEF m
  <2>11. n >= a
    BY ONLY <1>1, <2>4 DEF n
  <2> QED
    BY <2>2, <2>4, <2>6, <2>10, <2>11
<1> HIDE DEF e, n, D
<1>5. /\ x \in ParserTypes /\ x.state = "data" /\ x.token = r.token /\ x.method = Config
      /\ x.target = r.cmd /\ x.i = n /\ x.len = p.len /\ x.user = p.user /\ x.extra = e
      /\ x.separated = p.separated
  BY <1>1, <1>2, <1>3 DEF ParserTypes
<1> HIDE DEF x
<1>6. ~mx => DataIs(r, x, s, pos + 1)
  <2> SUFFICES ASSUME ~mx PROVE DataIs(r, x, s, pos + 1)
    OBVIOUS
  <2>1. SecretIs(r, x, s)
    BY <1>4, <1>5 DEF SecretIs
  <2>2. p.len = Len(serialize_config_data(r))
    BY <1>1, <1>2 DEF DataIs
  <2>3. IF x.separated THEN SecretIs(r, x, s) ELSE NameIs(r, x)
    BY <1>5, <2>1, Zenon
  <2> QED
    BY <1>2, <1>4, <1>5, <2>2, <2>3 DEF DataIs
<1>7. InData(r, x, s, pos + 1, mx)
  BY <1>1, <1>2, <1>5, <1>6 DEF InData
<1> QED
  BY <1>7 DEF x, e, n

(* The 0 between the name and the secret.                                  *)
LEMMA Separator ==
  ASSUME NEW r, IsRequest(r), NEW p, NEW s, NEW pos, NEW mx, ParserIs(r, p, s, pos, mx),
         p.state = "data", r.cmd \in Adds, ~p.separated,
         pos + 1 \in 1 .. Len(serialize_request(r)), serialize_request(r)[pos + 1] = 0
  PROVE  InData(r, [p EXCEPT !.user = Append(p.user, 0), !.i = p.i + 1, !.separated = TRUE],
                [s EXCEPT !.ulen = p.i + 1], pos + 1, mx)
<1> DEFINE D == serialize_config_data(r)
           u == Append(p.user, 0)
           n == p.i + 1
           x == [p EXCEPT !.user = u, !.i = n, !.separated = TRUE]
           s1 == [s EXCEPT !.ulen = n]
<1>1. /\ p \in ParserTypes /\ s \in StaticTypes /\ pos \in Nat /\ p.token = r.token
      /\ p.method = Config /\ p.target = r.cmd /\ (~mx => DataIs(r, p, s, pos))
      /\ p.i \in Nat /\ p.user \in Seq(Nat) /\ r.name \in Seq(Chars) /\ Len(r.name) \in Nat
      /\ r.secret \in Seq(Nat)
  BY DataFacts
<1>2. u \in Seq(Nat) /\ n \in Nat /\ r.cmd # "disector" /\ r.cmd \in Changes /\ r.cmd \notin Dels
  BY <1>1 DEF Adds, Dels, Changes
<1>3. ASSUME ~mx
      PROVE  /\ n = Len(r.name) + 1 /\ u = r.name \o <<0>> /\ p.extra = <<>>
             /\ n <= p.len /\ pos + 1 = DataAt + n
  <2>1. DataIs(r, p, s, pos)
    BY <1>1, <1>3
  <2>2. 0 = D[n] /\ n <= p.len /\ n \in 1 .. Len(D) /\ pos + 1 = DataAt + n
    BY <1>1, <1>2, <2>1, DataByte
  <2>3. NameIs(r, p)
    <3>1. IF p.separated THEN SecretIs(r, p, s) ELSE NameIs(r, p)
      BY <2>1 DEF DataIs
    <3> QED
      BY <3>1, Zenon
  <2>4. p.i <= Len(r.name) /\ p.user = SubSeq(r.name, 1, p.i) /\ p.extra = <<>>
    BY <2>3 DEF NameIs
  <2>5. \A k \in 1 .. Len(r.name) : D[k] = r.name[k] /\ r.name[k] # 0
    <3>1. D = serialize_config_data(r)
      OBVIOUS
    <3> HIDE DEF D
    <3>2. \A k \in 1 .. Len(r.name) : D[k] = r.name[k]
      BY ONLY <3>1, IsRequest(r), r.cmd \in Adds, DataType
    <3> DEFINE w == r.name
    <3>3. w \in Seq(Chars)
      BY <1>1
    <3>4. \A k \in 1 .. Len(w) : w[k] # 0
      <4> HIDE DEF w
      <4> QED
        BY ONLY <3>3 DEF Chars
    <3> QED
      BY <3>2, <3>4
  <2>6. p.i = Len(r.name)
    <3> DEFINE i == p.i
               a == Len(r.name)
    <3>1. i \in Nat /\ a \in Nat /\ i <= a /\ i + 1 \notin 1 .. a
      BY <1>1, <2>2, <2>4, <2>5
    <3> HIDE DEF i, a
    <3>2. i = a
      BY ONLY <3>1
    <3> QED
      BY <3>2 DEF i, a
  <2>7. p.user = r.name
    BY <1>1, <2>4, <2>6, SubSeqAll
  <2>8. u = r.name \o <<0>>
    <3> DEFINE w == r.name
    <3>1. w \in Seq(Nat) /\ u = Append(w, 0)
      BY <1>1, <2>7
    <3> HIDE DEF w, u
    <3>2. u = w \o <<0>>
      BY ONLY <3>1
    <3> QED
      BY <3>2 DEF w
  <2> QED
    BY <2>2, <2>4, <2>6, <2>8
<1> HIDE DEF u, n, D
<1>4. /\ x \in ParserTypes /\ x.state = "data" /\ x.token = r.token /\ x.method = Config
      /\ x.target = r.cmd /\ x.i = n /\ x.len = p.len /\ x.user = u /\ x.extra = p.extra
  <2>1. TRUE \in BOOLEAN
    OBVIOUS
  <2> QED
    BY <1>1, <1>2, <2>1 DEF ParserTypes
<1>5. x.separated = TRUE
  BY <1>1 DEF ParserTypes
<1>6. s1 \in StaticTypes /\ s1.ulen = n
  BY <1>1, <1>2 DEF StaticTypes
<1> HIDE DEF x, s1
<1>7. ~mx => DataIs(r, x, s1, pos + 1)
  <2> SUFFICES ASSUME ~mx PROVE DataIs(r, x, s1, pos + 1)
    OBVIOUS
  <2>1. SecretIs(r, x, s1)
    <3>1. SubSeq(r.secret, 1, 0) = <<>> /\ n - (Len(r.name) + 1) = 0 /\ n >= Len(r.name) + 1
      BY <1>1, <1>2, <1>3, SubSeqAll
    <3> QED
      BY <1>3, <1>4, <1>6, <3>1 DEF SecretIs
  <2>2. p.len = Len(serialize_config_data(r))
    BY <1>1, <1>2 DEF DataIs
  <2>3. IF x.separated THEN SecretIs(r, x, s1) ELSE NameIs(r, x)
    BY <1>5, <2>1, Zenon
  <2> QED
    BY <1>2, <1>3, <1>4, <2>2, <2>3 DEF DataIs
<1>8. InData(r, x, s1, pos + 1, mx)
  BY <1>1, <1>2, <1>4, <1>6, <1>7 DEF InData
<1> QED
  BY <1>8 DEF x, s1, u, n

(* The parser after a byte of a name and a secret to add.                  *)
LEMMA FeedAdd ==
  ASSUME NEW r, IsRequest(r), NEW p, NEW s, NEW pos, NEW mx, ParserIs(r, p, s, pos, mx),
         p.state = "data", r.cmd \in Adds, pos + 1 \in 1 .. Len(serialize_request(r)),
         NEW c \in Nat, c = serialize_request(r)[pos + 1],
         NEW q, q = monitor_parser_feed(p, c, s)
  PROVE  ParserIs(r, q.p, q.s, pos + 1, mx)
<1>1. p \in ParserTypes /\ s \in StaticTypes /\ pos \in Nat /\ p.target = r.cmd
  BY DataFacts
<1>2. q = AddData(p, c, s)
  BY <1>1 DEF monitor_parser_feed, data, Adds
<1>3. p.separated \in BOOLEAN
  BY <1>1 DEF ParserTypes
<1>4. CASE IsAlnum(c) /\ ~p.separated
  <2> DEFINE x == [p EXCEPT !.user = Append(p.user, c), !.i = p.i + 1]
  <2>1. q = [p |-> Ends(x), s |-> s]
    <3>1. ~(IsAlnum(c) /\ p.separated)
      BY <1>4
    <3>2. c # 0
      BY ONLY <1>4 DEF IsAlnum
    <3>3. AddData(p, c, s) = Fed(Ends(x), s)
      BY <1>4, <3>1, <3>2 DEF AddData
    <3> QED
      BY <1>2, <3>3 DEF Fed
  <2>2. c # 0
    BY ONLY <1>4 DEF IsAlnum
  <2>3. p.separated = FALSE
    BY <1>3, <1>4
  <2>4. InData(r, x, s, pos + 1, mx)
    BY <2>2, <2>3, NameGrows
  <2> HIDE DEF x
  <2>5. ParserIs(r, Ends(x), s, pos + 1, mx)
    BY <2>4, EndsKeeps
  <2> QED
    BY <2>1, <2>5
<1>5. CASE IsAlnum(c) /\ p.separated
  <2> DEFINE x == [p EXCEPT !.extra = Store(p.extra, p.i - s.ulen, c), !.i = p.i + 1]
  <2>1. q = [p |-> Ends(x), s |-> s]
    BY <1>2, <1>5 DEF AddData, Fed
  <2>2. InData(r, x, s, pos + 1, mx)
    BY <1>5, SecretGrows
  <2> HIDE DEF x
  <2>3. ParserIs(r, Ends(x), s, pos + 1, mx)
    BY <2>2, EndsKeeps
  <2> QED
    BY <2>1, <2>3
<1>6. CASE ~IsAlnum(c) /\ c = 0 /\ p.i > 0 /\ ~p.separated
  <2> DEFINE x == [p EXCEPT !.user = Append(p.user, 0), !.i = p.i + 1, !.separated = TRUE]
             s1 == [s EXCEPT !.ulen = p.i + 1]
  <2>1. q = [p |-> Ends(x), s |-> s1]
    BY <1>2, <1>6 DEF AddData, Fed
  <2>2. InData(r, x, s1, pos + 1, mx)
    BY <1>6, Separator
  <2> HIDE DEF x, s1
  <2>3. ParserIs(r, Ends(x), s1, pos + 1, mx)
    BY <2>2, EndsKeeps
  <2> QED
    BY <2>1, <2>3
<1>7. CASE ~IsAlnum(c) /\ ~(c = 0 /\ p.i > 0 /\ ~p.separated)
  <2>1. q = [p |-> [p EXCEPT !.state = "invalid_data"], s |-> s] /\ pos + 1 \in Nat
    BY <1>1, <1>2, <1>7 DEF AddData, Fed
  <2>2. ParserIs(r, [p EXCEPT !.state = "invalid_data"], s, pos + 1, mx)
    BY <1>1, <2>1, Invalid
  <2> QED
    BY <2>1, <2>2
<1> QED
  BY <1>4, <1>5, <1>6, <1>7

(* monitor_parser_feed.                                                    *)
LEMMA FeedKeeps ==
  ASSUME NEW r, IsRequest(r), NEW p, NEW s, NEW pos, NEW mx, ParserIs(r, p, s, pos, mx),
         ~monitor_is_done(p), pos + 1 \in 1 .. Len(serialize_request(r)),
         NEW q, q = monitor_parser_feed(p, serialize_request(r)[pos + 1], s)
  PROVE  ParserIs(r, q.p, q.s, pos + 1, mx)
<1> DEFINE c == serialize_request(r)[pos + 1]
<1>1. c \in Nat
  <2>1. serialize_request(r) \in Seq(Nat)
    BY RequestShape DEF Shape
  <2> QED
    BY <2>1
<1>2. c = serialize_request(r)[pos + 1] /\ q = monitor_parser_feed(p, c, s)
  OBVIOUS
<1> HIDE DEF c
<1>3. p.state \in {"version", "token", "method", "target", "dlen", "data"}
  BY DEF monitor_is_done
<1>4. p.state = "data" => r.cmd \in {"disector"} \cup Adds \cup Dels
  BY DEF ParserIs, Changes
<1> QED
  BY <1>1, <1>2, <1>3, <1>4, FeedVersion, FeedToken, FeedMethod, FeedTarget, FeedLength, FeedFlag, FeedAdd,
     FeedDel

-----------------------------------------------------------------------------
(* monitor_consume: the bytes that one recv() brought.                     *)

(* What its loop has done after k bytes.                                   *)
LoopAt(p, bytes, s, f, k) ==
  IF k = 0 THEN Fed(p, s)
  ELSE IF monitor_is_done(f[k - 1].p) THEN f[k - 1]
  ELSE monitor_parser_feed(f[k - 1].p, bytes[k], f[k - 1].s)

Loops(p, bytes, s, m, f) == f = [k \in 0 .. m |-> LoopAt(p, bytes, s, f, k)]

(* The recursive function of monitor_consume exists: the smallest length   *)
(* without one would extend that of the length before it.                  *)
LEMMA LoopExists ==
  ASSUME NEW p, NEW bytes, NEW s, NEW L \in Nat
  PROVE  \E f : Loops(p, bytes, s, L, f)
<1> DEFINE bad == {m \in Nat : ~\E f : Loops(p, bytes, s, m, f)}
<1>1. SUFFICES ASSUME bad # {} PROVE FALSE
  OBVIOUS
<1>2. PICK m \in bad : \A y \in bad : m <= y
  <2>1. bad \in SUBSET Nat
    OBVIOUS
  <2> HIDE DEF bad
  <2> QED
    BY <1>1, <2>1, LeastExists
<1>3. m # 0
  <2>1. SUFFICES ASSUME m = 0 PROVE \E f : Loops(p, bytes, s, 0, f)
    OBVIOUS
  <2> DEFINE g == [k \in 0 .. 0 |-> Fed(p, s)]
  <2>2. \A k \in 0 .. 0 : LoopAt(p, bytes, s, g, k) = Fed(p, s)
    BY DEF LoopAt
  <2>3. Loops(p, bytes, s, 0, g)
    BY <2>2 DEF Loops
  <2> QED
    BY <2>3
<1>4. m - 1 \in Nat /\ m - 1 \notin bad
  BY <1>2, <1>3
<1>5. PICK g : Loops(p, bytes, s, m - 1, g)
  BY <1>4
<1> DEFINE h == [k \in 0 .. m |-> IF k < m THEN g[k] ELSE LoopAt(p, bytes, s, g, m)]
<1>6. ASSUME NEW k \in 0 .. m PROVE h[k] = LoopAt(p, bytes, s, h, k)
  <2>1. k > 0 => h[k - 1] = g[k - 1]
    OBVIOUS
  <2>2. LoopAt(p, bytes, s, h, k) = LoopAt(p, bytes, s, g, k)
    <3> HIDE DEF h
    <3> QED
      BY <2>1 DEF LoopAt
  <2>3. CASE k < m
    <3>1. k \in 0 .. m - 1
      BY <1>4, <2>3
    <3>2. g[k] = LoopAt(p, bytes, s, g, k)
      BY <1>5, <3>1 DEF Loops
    <3> QED
      BY <2>2, <2>3, <3>2
  <2>4. CASE k = m
    BY <2>2, <2>4
  <2> QED
    BY <2>3, <2>4
<1>7. Loops(p, bytes, s, m, h)
  <2>1. h = [k \in 0 .. m |-> h[k]]
    OBVIOUS
  <2> HIDE DEF h
  <2> QED
    BY <1>6, <2>1 DEF Loops
<1> QED
  BY <1>7

(* A parser that is where it should be after `pos' bytes of r is so after  *)
(* n of them, unless it was done before.                                   *)
Consumed(r, q, n, mx) ==
  \E at \in Nat : ParserIs(r, q.p, q.s, at, mx) /\ (~monitor_is_done(q.p) => at = n)

(* The loop of monitor_consume, by its first byte that could go wrong.     *)
LEMMA ConsumeKeeps ==
  ASSUME NEW r, IsRequest(r), NEW p, NEW s, NEW pos \in Nat, NEW mx, ParserIs(r, p, s, pos, mx),
         NEW n \in Nat, pos <= n, n <= Len(serialize_request(r))
  PROVE  Consumed(r, monitor_consume(p, SubSeq(serialize_request(r), pos + 1, n), s), n, mx)
<1> DEFINE B == serialize_request(r)
           bytes == SubSeq(B, pos + 1, n)
           L == Len(bytes)
           run == CHOOSE f : f = [k \in 0 .. L |-> LoopAt(p, bytes, s, f, k)]
           bad == {k \in 0 .. L : ~Consumed(r, run[k], pos + k, mx)}
<1>0. B \in Seq(Nat)
  BY RequestShape DEF Shape
<1>1. L = n - pos /\ L \in Nat /\ \A k \in 1 .. L : bytes[k] = B[pos + k] /\ pos + k \in 1 .. Len(B)
  <2>1. n <= Len(B) /\ Len(B) \in Nat
    BY <1>0
  <2> HIDE DEF B
  <2>2. pos + 1 \in 1 .. Len(B) + 1 /\ n \in (pos + 1) - 1 .. Len(B)
    BY <2>1
  <2>3. L = n - (pos + 1) + 1 /\ \A k \in 1 .. n - (pos + 1) + 1 : bytes[k] = B[(pos + 1) + k - 1]
    BY <1>0, <2>2, SubSeqProperties
  <2> HIDE DEF bytes
  <2>4. n - (pos + 1) + 1 = n - pos /\ \A k \in 1 .. n - pos : (pos + 1) + k - 1 = pos + k
    OBVIOUS
  <2> QED
    BY <2>1, <2>3, <2>4
<1>2. run = [k \in 0 .. L |-> LoopAt(p, bytes, s, run, k)]
  <2>1. PICK f : Loops(p, bytes, s, L, f)
    BY <1>1, LoopExists
  <2>2. f = [k \in 0 .. L |-> LoopAt(p, bytes, s, f, k)]
    BY <2>1 DEF Loops
  <2> QED
    BY <2>2
<1>3. monitor_consume(p, bytes, s) = run[L]
  BY DEF monitor_consume, LoopAt
<1> HIDE DEF run, bytes, L
<1>4. bad = {}
  <2>1. SUFFICES ASSUME bad # {} PROVE FALSE
    OBVIOUS
  <2>2. PICK m \in bad : \A y \in bad : m <= y
    <3>1. bad \in SUBSET Nat
      BY <1>1
    <3> HIDE DEF bad
    <3> QED
      BY <2>1, <3>1, LeastExists
  <2>3. m \in 0 .. L /\ m \in Nat /\ run[m] = LoopAt(p, bytes, s, run, m) /\ ~Consumed(r, run[m], pos + m, mx)
    <3>1. m \in 0 .. L /\ ~Consumed(r, run[m], pos + m, mx)
      OBVIOUS
    <3>2. m \in Nat
      BY <1>1, <3>1
    <3>3. run[m] = LoopAt(p, bytes, s, run, m)
      BY <1>2, <3>1, Zenon
    <3> QED
      BY <3>1, <3>2, <3>3
  <2>4. CASE m = 0
    <3>1. run[m] = [p |-> p, s |-> s]
      BY <2>3, <2>4 DEF LoopAt, Fed
    <3>2. Consumed(r, run[m], pos + m, mx)
      BY <2>4, <3>1 DEF Consumed
    <3> QED
      BY <2>3, <3>2
  <2>5. CASE m # 0
    <3>1. m - 1 \in 0 .. L /\ m - 1 \notin bad
      BY <1>1, <2>2, <2>3, <2>5
    <3> DEFINE o == run[m - 1]
    <3>2. Consumed(r, o, pos + (m - 1), mx)
      BY <3>1
    <3>3. PICK at \in Nat : ParserIs(r, o.p, o.s, at, mx) /\ (~monitor_is_done(o.p) => at = pos + (m - 1))
      BY <3>2 DEF Consumed
    <3>4. run[m] = IF monitor_is_done(o.p) THEN o ELSE monitor_parser_feed(o.p, bytes[m], o.s)
      BY <2>3, <2>5 DEF LoopAt
    <3> HIDE DEF o
    <3>5. CASE monitor_is_done(o.p)
      <4>1. Consumed(r, run[m], pos + m, mx)
        BY <3>3, <3>4, <3>5 DEF Consumed
      <4> QED
        BY <2>3, <4>1
    <3>6. CASE ~monitor_is_done(o.p)
      <4>1. at + 1 = pos + m /\ m \in 1 .. L
        BY <1>1, <2>3, <2>5, <3>3, <3>6
      <4>2. run[m] = monitor_parser_feed(o.p, B[at + 1], o.s) /\ at + 1 \in 1 .. Len(B)
        BY <1>1, <3>4, <3>6, <4>1
      <4>3. ParserIs(r, run[m].p, run[m].s, at + 1, mx)
        BY <3>3, <3>6, <4>2, FeedKeeps
      <4>4. Consumed(r, run[m], pos + m, mx)
        BY <4>1, <4>3 DEF Consumed
      <4> QED
        BY <2>3, <4>4
    <3> QED
      BY <3>5, <3>6
  <2> QED
    BY <2>4, <2>5
<1>5. Consumed(r, run[L], pos + L, mx)
  BY <1>1, <1>4
<1>6. pos + L = n
  BY <1>1
<1> QED
  BY <1>3, <1>5, <1>6 DEF bytes

-----------------------------------------------------------------------------
(* Every connection that is read has a parser that is where it should be.  *)

(* The statics may change where the parser does not look at them again.    *)
LEMMA StaticsChange ==
  ASSUME NEW r, NEW p, NEW s, NEW pos, NEW mx, ParserIs(r, p, s, pos, mx),
         NEW t \in StaticTypes, NEW my, mx => my,
         ~my => /\ p.state = "dlen" /\ p.i = 1 => t.combined[1] = s.combined[1]
                /\ p.state = "data" /\ p.separated => t.ulen = s.ulen
  PROVE  ParserIs(r, p, t, pos, my)
<1>1. LengthIs(r, p, t, pos, my)
  BY DEF ParserIs, LengthIs
<1>2. p.state = "data" /\ ~my => DataIs(r, p, t, pos)
  <2> SUFFICES ASSUME p.state = "data", ~my PROVE DataIs(r, p, t, pos)
    OBVIOUS
  <2>1. DataIs(r, p, s, pos) /\ (p.separated => t.ulen = s.ulen)
    BY DEF ParserIs
  <2> QED
    BY <2>1 DEF DataIs, SecretIs
<1>3. p \in ParserTypes /\ pos \in Nat /\ HeaderIs(r, p, pos)
  BY DEF ParserIs
<1>4. p.state \in {"dlen", "data"} =>
        p.token = r.token /\ p.method = Config /\ p.target = r.cmd /\ r.cmd \in Changes
  BY DEF ParserIs
<1>5. p.state = "done" =>
        /\ p.token = r.token /\ p.method \in {Get, Config}
        /\ p.method = Get => p.target = r.cmd /\ r.cmd \in Range(GetTargets)
        /\ p.method = Config =>
             p.target = r.cmd /\ r.cmd \in Changes /\ (~my => FoundIs(r, p))
  BY DEF ParserIs
<1> QED
  BY <1>1, <1>2, <1>3, <1>4, <1>5 DEF ParserIs

(* monitor_parser_init.                                                    *)
LEMMA InitialParser ==
  ASSUME NEW r, NEW s \in StaticTypes, NEW mx
  PROVE  ParserIs(r, monitor_parser_init, s, 0, mx) /\ ~monitor_is_done(monitor_parser_init)
<1> DEFINE p == monitor_parser_init
<1>1. p \in ParserTypes
  BY DEF monitor_parser_init, ParserTypes
<1>2. p.state = "version" /\ p.token = <<>> /\ Fresh(p)
  BY DEF monitor_parser_init, Fresh
<1> HIDE DEF p
<1>3. ~monitor_is_done(p)
  BY <1>2 DEF monitor_is_done
<1>4. ParserIs(r, p, s, 0, mx)
  BY <1>1, <1>2 DEF ParserIs, HeaderIs, LengthIs
<1> QED
  BY <1>3, <1>4 DEF p

(* What a client waits for is one of its requests.                         *)
LEMMA Requested ==
  ASSUME ConnOK, NEW c \in Clients, req[c] # NoRequest
  PROVE  IsRequest(req[c])
<1>1. req[c] \in Requests[c]
  BY DEF ConnOK
<1>2. Requests[c] \in SUBSET AllRequests
  BY RequestsAssumption DEF RequestsAssumption, AllRequests
<1>3. /\ Len(req[c].token) = TokenSize
      /\ req[c].secret \in IF req[c].cmd = "disector" THEN {<<0>>, <<1>>} ELSE Seq(Chars)
  BY <1>1, RequestsAssumption DEF RequestsAssumption
<1> QED
  BY <1>1, <1>2, <1>3 DEF IsRequest

(* What the parser of c makes of the bytes up to the n-th.                 *)
ReadOf(c, n) ==
  monitor_consume(parser[c], SubSeq(serialize_request(req[c]), taken[c] + 1, n), Statics)

(* recv() brings the parser to the n-th byte, or it is done before.        *)
LEMMA ReadConsumes ==
  ASSUME ConnOK, ParsersOK, NEW c \in Clients, NEW n, srv[c] = "read", n \in Unread(c)
  PROVE  n \in Nat /\ Consumed(req[c], ReadOf(c, n), n, c \in mixed)
<1> DEFINE B == serialize_request(req[c])
<1>1. IsRequest(req[c])
  BY Requested DEF ConnOK
<1>2. Len(B) \in Nat
  BY <1>1, RequestShape DEF Shape
<1>3. taken[c] \in Nat /\ ParserIs(req[c], parser[c], Statics, taken[c], c \in mixed)
  BY DEF ParsersOK, ParserIs
<1>4. n \in taken[c] + 1 .. Len(B)
  BY DEF Unread
<1> HIDE DEF B
<1>5. n \in Nat /\ taken[c] <= n /\ n <= Len(B)
  BY <1>2, <1>3, <1>4
<1> DEFINE mx == c \in mixed
<1>6. ParserIs(req[c], parser[c], Statics, taken[c], mx)
  BY <1>3
<1> HIDE DEF mx
<1>7. Consumed(req[c], monitor_consume(parser[c], SubSeq(serialize_request(req[c]), taken[c] + 1, n), Statics), n, mx)
  BY <1>1, <1>3, <1>5, <1>6, ConsumeKeeps DEF B
<1> QED
  BY <1>5, <1>7 DEF ReadOf, mx

(* What each action does to the parsers.                                   *)
LEMMA ParsersKept ==
  ASSUME ConnOK, ParsersOK, UNCHANGED <<parser, staticVars>>, DOMAIN taken' = Clients,
         \A d \in Clients : srv'[d] = "queued" => taken'[d] = 0,
         \A d \in Clients : srv'[d] = "read" =>
           /\ srv[d] = "read" /\ taken'[d] = taken[d] /\ req'[d] = req[d]
           /\ d \in mixed' <=> d \in mixed
  PROVE  ParsersOK'
<1>1. Statics' = Statics /\ Statics \in StaticTypes /\ DOMAIN parser' = Clients
  BY DEF ParsersOK, Statics, staticVars
<1>2. ASSUME NEW d \in Clients, srv'[d] = "read"
      PROVE  ~monitor_is_done(parser'[d]) /\ ParserIs(req'[d], parser'[d], Statics', taken'[d], d \in mixed')
  <2> DEFINE mx == d \in mixed
             my == d \in mixed'
  <2>1. ~monitor_is_done(parser[d]) /\ ParserIs(req[d], parser[d], Statics, taken[d], mx)
    BY <1>2 DEF ParsersOK
  <2>2. mx => my
    BY <1>2
  <2> HIDE DEF mx, my
  <2>3. ParserIs(req[d], parser[d], Statics, taken[d], my)
    BY <1>1, <2>1, <2>2, StaticsChange
  <2> QED
    BY <1>1, <1>2, <2>1, <2>3 DEF my
<1> QED
  BY <1>1, <1>2 DEF ParsersOK

(* An accepted connection starts with a new parser.                        *)
LEMMA ParsersAccept ==
  ASSUME ConnOK, ParsersOK, NEW c \in Clients, monitor_passive_accept(c)
  PROVE  ParsersOK'
<1>1. /\ srv[c] = "queued" /\ srv' = [srv EXCEPT ![c] = "read"]
      /\ parser' = [parser EXCEPT ![c] = monitor_parser_init]
      /\ UNCHANGED <<req, taken, combinedlen, username_len_with_null, mixed>>
  BY DEF monitor_passive_accept, clientVars, staticVars
<1>2. Statics' = Statics /\ Statics \in StaticTypes
  BY <1>1 DEF ParsersOK, Statics
<1>3. DOMAIN parser' = Clients /\ DOMAIN taken' = Clients /\ taken'[c] = 0
  BY <1>1 DEF ParsersOK
<1>4. \A d \in Clients : d # c => srv'[d] = srv[d] /\ parser'[d] = parser[d]
  BY <1>1 DEF ConnOK, ParsersOK
<1>5. srv'[c] = "read" /\ parser'[c] = monitor_parser_init
  BY <1>1 DEF ConnOK, ParsersOK
<1>6. ASSUME NEW d \in Clients, srv'[d] = "read"
      PROVE  ~monitor_is_done(parser'[d]) /\ ParserIs(req'[d], parser'[d], Statics', taken'[d], d \in mixed')
  <2>1. CASE d = c
    <3> DEFINE mx == d \in mixed'
    <3> HIDE DEF mx
    <3>1. ~monitor_is_done(parser'[d]) /\ ParserIs(req'[d], parser'[d], Statics', taken'[d], mx)
      BY <1>2, <1>3, <1>5, <2>1, InitialParser
    <3> QED
      BY <3>1 DEF mx
  <2>2. CASE d # c
    BY <1>1, <1>2, <1>4, <1>6, <2>2 DEF ParsersOK
  <2> QED
    BY <2>1, <2>2
<1>7. \A d \in Clients : srv'[d] = "queued" => taken'[d] = 0
  BY <1>1, <1>4, <1>5 DEF ParsersOK
<1> QED
  BY <1>2, <1>3, <1>6, <1>7 DEF ParsersOK

(* monitor_read moves its own parser; the others keep theirs or are mixed. *)
LEMMA ParsersRead ==
  ASSUME ConnOK, ParsersOK, NEW c \in Clients, NEW n, monitor_read(c, n)
  PROVE  ParsersOK'
<1> DEFINE q == ReadOf(c, n)
<1>1. /\ srv[c] = "read" /\ n \in Unread(c)
      /\ taken' = [taken EXCEPT ![c] = n] /\ parser' = [parser EXCEPT ![c] = q.p]
      /\ combinedlen' = q.s.combined /\ username_len_with_null' = q.s.ulen /\ req' = req
  BY DEF monitor_read, ReadOf, Statics, clientVars
<1>2. /\ mixed' = (IF monitor_is_done(q.p) THEN mixed \ {c} ELSE mixed)
                     \cup {d \in Clients \ {c} : Overwritten(d)}
      /\ IF monitor_is_done(q.p) THEN srv' = [srv EXCEPT ![c] = "write"] ELSE srv' = srv
  BY DEF monitor_read, ReadOf, Statics, Answer
<1>3. n \in Nat /\ Consumed(req[c], q, n, c \in mixed)
  BY <1>1, ReadConsumes
<1> HIDE DEF q
<1>4. PICK at \in Nat : /\ ParserIs(req[c], q.p, q.s, at, c \in mixed)
                        /\ ~monitor_is_done(q.p) => at = n
  BY <1>3 DEF Consumed
<1>5. q.s \in StaticTypes
  BY <1>4 DEF ParserIs
<1>6. Statics' = q.s /\ Statics' \in StaticTypes
  BY <1>1, <1>5 DEF Statics, StaticTypes
<1>7. DOMAIN parser' = Clients /\ DOMAIN taken' = Clients
  BY <1>1 DEF ParsersOK
<1>8. \A d \in Clients : /\ srv'[d] \in {"queued", "read"} => srv'[d] = srv[d]
                         /\ d # c => parser'[d] = parser[d] /\ taken'[d] = taken[d]
  BY <1>1, <1>2 DEF ConnOK, ParsersOK
<1>9. parser'[c] = q.p /\ taken'[c] = n
  BY <1>1 DEF ParsersOK
<1>10. ASSUME NEW d \in Clients, srv'[d] = "read"
       PROVE  ~monitor_is_done(parser'[d]) /\ ParserIs(req'[d], parser'[d], Statics', taken'[d], d \in mixed')
  <2>1. CASE d = c
    <3>1. ~monitor_is_done(q.p)
      BY <1>1, <1>2, <1>10, <2>1 DEF ConnOK
    <3>2. c \in mixed' <=> c \in mixed
      BY <1>2, <3>1
    <3> QED
      BY <1>1, <1>4, <1>6, <1>9, <2>1, <3>1, <3>2
  <2>2. CASE d # c
    <3> DEFINE mx == d \in mixed
               my == d \in mixed'
    <3>1. srv[d] = "read" /\ ~monitor_is_done(parser[d]) /\ ParserIs(req[d], parser[d], Statics, taken[d], mx)
      BY <1>8, <1>10 DEF ParsersOK
    <3>2. mx => my
      BY <1>2, <2>2
    <3>3. ~my => ~Overwritten(d)
      BY <1>2, <2>2
    <3> HIDE DEF mx, my
    <3>4. ~my => /\ parser[d].state = "dlen" /\ parser[d].i = 1 => Statics'.combined[1] = Statics.combined[1]
                 /\ parser[d].state = "data" /\ parser[d].separated => Statics'.ulen = Statics.ulen
      BY <3>1, <3>3 DEF Overwritten, Statics
    <3>5. ParserIs(req[d], parser[d], Statics', taken[d], my)
      BY <1>6, <3>1, <3>2, <3>4, StaticsChange
    <3> QED
      BY <1>1, <1>8, <2>2, <3>1, <3>5 DEF my
  <2> QED
    BY <2>1, <2>2
<1>11. \A d \in Clients : srv'[d] = "queued" => taken'[d] = 0
  BY <1>1, <1>8 DEF ParsersOK
<1> QED
  BY <1>6, <1>7, <1>10, <1>11 DEF ParsersOK

(* The parsers after any step.                                             *)
LEMMA ParsersStep ==
  ASSUME ConnOK, ParsersOK, [Next]_vars
  PROVE  ParsersOK'
<1>0. DOMAIN taken = Clients /\ \A d \in Clients : srv[d] = "queued" => taken[d] = 0
  BY DEF ParsersOK
<1>1. ASSUME NEW c \in Clients, NEW r, ClientAsks(c, r) PROVE ParsersOK'
  <2>1. /\ srv' = [srv EXCEPT ![c] = "queued"] /\ taken' = [taken EXCEPT ![c] = 0]
        /\ req' = [req EXCEPT ![c] = r] /\ UNCHANGED <<parser, staticVars, mixed>>
    BY <1>1 DEF ClientAsks
  <2>2. \A d \in Clients : srv'[d] = "queued" => taken'[d] = 0
    BY <1>0, <2>1 DEF ConnOK
  <2>3. \A d \in Clients : srv'[d] = "read" => srv[d] = "read" /\ taken'[d] = taken[d] /\ req'[d] = req[d]
    BY <1>0, <2>1 DEF ConnOK
  <2> QED
    BY <1>0, <2>1, <2>2, <2>3, ParsersKept
<1>2. ASSUME UNCHANGED <<req, srv, taken, parser, staticVars, mixed>> PROVE ParsersOK'
  BY <1>0, <1>2, ParsersKept
<1>3. ASSUME NEW c \in Clients, NEW st, st \notin {"queued", "read"}, srv' = [srv EXCEPT ![c] = st],
             \A d \in Clients : d # c => req'[d] = req[d],
             mixed' = mixed \/ mixed' = mixed \ {c}, UNCHANGED <<taken, parser, staticVars>>
      PROVE  ParsersOK'
  <2>1. \A d \in Clients : d # c => srv'[d] = srv[d]
    BY <1>3 DEF ConnOK
  <2>2. srv'[c] = st
    BY <1>3 DEF ConnOK
  <2> QED
    BY <1>0, <1>3, <2>1, <2>2, ParsersKept
<1>4. ASSUME NEW c \in Clients, ClientReports(c) PROVE ParsersOK'
  <2>1. /\ srv' = [srv EXCEPT ![c] = "none"] /\ req' = [req EXCEPT ![c] = NoRequest]
        /\ UNCHANGED <<taken, parser, staticVars, mixed>>
    BY <1>4 DEF ClientReports
  <2>2. \A d \in Clients : d # c => req'[d] = req[d]
    BY <2>1 DEF ConnOK
  <2> QED
    BY <1>3, <2>1, <2>2
<1>5. ASSUME NEW c \in Clients,
             AcceptFails(c) \/ monitor_read_fails(c) \/ monitor_write_fails(c)
      PROVE  ParsersOK'
  <2>1. /\ srv' = [srv EXCEPT ![c] = "closed"] /\ UNCHANGED <<req, taken, parser, staticVars>>
        /\ mixed' = mixed \/ mixed' = mixed \ {c}
    BY <1>5 DEF AcceptFails, monitor_read_fails, monitor_write_fails, monitor_finish, clientVars
  <2> QED
    BY <1>3, <2>1
<1>6. ASSUME NEW c \in Clients, NEW n, monitor_write(c, n) PROVE ParsersOK'
  <2>1. /\ srv' = [srv EXCEPT ![c] = "closed"] \/ srv' = srv
        /\ UNCHANGED <<req, taken, parser, staticVars, mixed>>
    BY <1>6 DEF monitor_write, monitor_finish, clientVars
  <2> QED
    BY <1>2, <1>3, <2>1
<1>7. ASSUME NEW c \in Clients, ClientNext(c) PROVE ParsersOK'
  <2>1. ASSUME NEW n, ClientRecv(c, n) PROVE ParsersOK'
    BY <1>2, <2>1 DEF ClientRecv, serverVars
  <2>2. CASE ClientAborts(c) \/ ClientKilled(c)
    BY <1>2, <2>2 DEF ClientAborts, ClientKilled, serverVars
  <2> QED
    BY <1>1, <1>4, <1>7, <2>1, <2>2 DEF ClientNext
<1>8. ASSUME NEW c \in Clients, ServerNext(c) PROVE ParsersOK'
  BY <1>5, <1>6, <1>8, ParsersAccept, ParsersRead DEF ServerNext
<1>9. CASE ServerStops
  <2>1. /\ srv' = [c \in Clients |-> IF srv[c] = "none" THEN "none" ELSE "closed"]
        /\ UNCHANGED <<taken, parser, staticVars>>
    BY <1>9 DEF ServerStops
  <2>2. \A d \in Clients : srv'[d] \notin {"queued", "read"}
    BY <2>1
  <2> QED
    BY <1>0, <2>1, <2>2, ParsersKept
<1>10. CASE UNCHANGED vars
  BY <1>2, <1>10 DEF vars, clientVars, serverVars
<1> QED
  BY <1>7, <1>8, <1>9, <1>10 DEF Next

-----------------------------------------------------------------------------
(* C strings.                                                              *)

(* SelectInSeq finds the first 0.                                          *)
LEMMA FirstZero ==
  ASSUME NEW s \in Seq(Nat), NEW k \in 1 .. Len(s), s[k] = 0, \A j \in 1 .. k - 1 : s[j] # 0
  PROVE  SelectInSeq(s, LAMBDA b : b = 0) = k
<1> DEFINE I == {i \in 1 .. Len(s) : s[i] = 0}
<1>1. SelectInSeq(s, LAMBDA b : b = 0) = IF I # {} THEN Min(I) ELSE 0
  BY DEF SelectInSeq
<1>2. k \in I /\ I \in SUBSET Nat
  OBVIOUS
<1>3. \A i \in I : ~(i < k)
  OBVIOUS
<1>4. k \in Nat
  OBVIOUS
<1> HIDE DEF I
<1> DEFINE m == Min(I)
<1>5. m \in I /\ m <= k
  BY <1>2, MinOf
<1> HIDE DEF m
<1>6. m \in Nat /\ ~(m < k)
  BY <1>2, <1>3, <1>5
<1>7. m = k
  BY ONLY <1>4, <1>5, <1>6
<1> QED
  BY <1>1, <1>2, <1>7 DEF m

(* C strings are bytes without a 0.                                        *)
LEMMA CharsType ==
  ASSUME NEW s \in Seq(Chars)
  PROVE  s \in Seq(Nat) /\ \A k \in 1 .. Len(s) : s[k] # 0
<1>1. \A k \in 1 .. Len(s) : s[k] \in Nat /\ s[k] # 0
  BY DEF Chars
<1> QED
  BY <1>1

(* A name with or without its 0 is read as the name.                       *)
LEMMA CStrOf ==
  ASSUME NEW s \in Seq(Chars)
  PROVE  CStr(s) = s /\ CStr(s \o <<0>>) = s
<1>1. s \in Seq(Nat) /\ \A k \in 1 .. Len(s) : s[k] # 0
  BY CharsType
<1> DEFINE t == s \o <<0>>
           u == t \o <<0>>
           m == Len(s)
<1>2. /\ t \in Seq(Nat) /\ Len(t) = m + 1 /\ t[m + 1] = 0 /\ \A k \in 1 .. m : t[k] = s[k]
  BY ONLY <1>1
<1>3. m \in Nat
  BY <1>1
<1> HIDE DEF t, m
<1>4. /\ u \in Seq(Nat) /\ Len(u) = m + 2 /\ \A k \in 1 .. m + 1 : u[k] = t[k]
  <2>1. u \in Seq(Nat) /\ Len(u) = Len(t) + 1 /\ \A k \in 1 .. Len(t) : u[k] = t[k]
    BY ONLY <1>2
  <2> HIDE DEF u
  <2> QED
    BY <1>2, <1>3, <2>1
<1> HIDE DEF u
<1>5. SelectInSeq(t, LAMBDA b : b = 0) = m + 1
  <2>1. m + 1 \in 1 .. Len(t) /\ \A j \in 1 .. (m + 1) - 1 : t[j] # 0
    BY <1>1, <1>2, <1>3 DEF m
  <2> QED
    BY <1>2, <2>1, FirstZero
<1>6. SelectInSeq(u, LAMBDA b : b = 0) = m + 1
  <2>1. m + 1 \in 1 .. Len(u) /\ u[m + 1] = 0 /\ \A j \in 1 .. (m + 1) - 1 : u[j] # 0
    BY <1>1, <1>2, <1>3, <1>4, SMTT(30) DEF m
  <2> QED
    BY <1>4, <2>1, FirstZero
<1>7. (m + 1) - 1 = m
  BY <1>3
<1>8. CStr(s) = SubSeq(s, 1, m) /\ CStr(t) = SubSeq(t, 1, m)
  BY <1>5, <1>6, <1>7 DEF CStr, t, u
<1>9. SubSeq(s, 1, m) = s
  BY <1>1, SubSeqAll DEF m
<1>10. SubSeq(t, 1, m) = s
  <2> DEFINE w == SubSeq(t, 1, m)
  <2>1. \A i \in 1 .. m : t[i] \in Nat
    BY <1>2, <1>3
  <2>2. w \in Seq(Nat) /\ Len(w) = (IF 1 <= m THEN m - 1 + 1 ELSE 0) /\ \A i \in 1 .. m - 1 + 1 : w[i] = t[1 + i - 1]
    BY <1>3, <2>1, SubSeqProperties
  <2>3. m - 1 + 1 = m /\ \A i \in 1 .. m : 1 + i - 1 = i
    BY <1>3
  <2> HIDE DEF w
  <2>4. Len(w) = m /\ \A i \in 1 .. m : w[i] = s[i]
    BY <1>2, <1>3, <2>2, <2>3
  <2> QED
    BY <1>1, <2>2, <2>4, SeqEqual DEF w, m
<1> QED
  BY <1>8, <1>9, <1>10 DEF t

(* CStr of bytes is a sequence of bytes.                                   *)
LEMMA CStrType ==
  ASSUME NEW s \in Seq(Nat)
  PROVE  CStr(s) \in Seq(Nat)
<1> DEFINE t == s \o <<0>>
           I == {i \in 1 .. Len(t) : t[i] = 0}
           x == SelectInSeq(t, LAMBDA b : b = 0)
<1>1. t \in Seq(Nat) /\ Len(t) = Len(s) + 1 /\ t[Len(s) + 1] = 0 /\ Len(s) \in Nat
  OBVIOUS
<1>2. x = IF I # {} THEN Min(I) ELSE 0
  BY DEF SelectInSeq
<1> HIDE DEF t, x
<1>3. I \in SUBSET Nat /\ Len(s) + 1 \in I /\ I \subseteq 1 .. Len(s) + 1
  BY <1>1
<1> HIDE DEF I
<1>4. x \in 1 .. Len(s) + 1
  BY <1>2, <1>3, MinOf
<1>5. x - 1 \in 0 .. Len(s)
  BY <1>1, <1>4
<1>6. \A i \in 1 .. x - 1 : s[i] \in Nat
  BY <1>1, <1>5
<1>7. SubSeq(s, 1, x - 1) \in Seq(Nat)
  BY <1>1, <1>5, <1>6, SubSeqProperties
<1> QED
  BY <1>7 DEF CStr, x, t

(* What was found in data that were not mixed is what was sent.            *)
LEMMA FoundAsSent ==
  ASSUME NEW r, IsRequest(r), NEW p \in ParserTypes, FoundIs(r, p)
  PROVE  /\ r.cmd \in Adds => Name(p) = r.name /\ Secret(p) = r.secret
         /\ r.cmd \in Dels => Name(p) = r.name
<1>1. r.name \in Seq(Chars)
  BY DEF IsRequest, AllRequests
<1>2. r.cmd \in Adds => r.secret \in Seq(Chars)
  BY DEF IsRequest, Adds
<1>3. CStr(r.name) = r.name /\ CStr(r.name \o <<0>>) = r.name
  BY <1>1, CStrOf
<1>4. r.cmd \in Adds => CStr(r.secret) = r.secret
  BY <1>2, CStrOf
<1> QED
  BY <1>3, <1>4 DEF FoundIs, Name, Secret

-----------------------------------------------------------------------------
(* The changes of the tables.                                              *)

UserSet(t) == {t.slot[i] : i \in 1 .. t.n}

(* n entries are at most n different ones.                                 *)
LEMMA SetSize ==
  ASSUME NEW n \in Nat, NEW f, NEW S, S = {f[i] : i \in 1 .. n}
  PROVE  IsFiniteSet(S) /\ Cardinality(S) <= n
<1> DEFINE g == [i \in 1 .. n |-> f[i]]
<1>1. g \in Surjection(1 .. n, S)
  <2>1. g \in [1 .. n -> S]
    OBVIOUS
  <2>2. \A x \in S : \E i \in 1 .. n : g[i] = x
    OBVIOUS
  <2> HIDE DEF g
  <2> QED
    BY <2>1, <2>2 DEF Surjection
<1>2. IsFiniteSet(1 .. n) /\ Cardinality(1 .. n) = n
  <2>1. IsFiniteSet(1 .. n) /\ Cardinality(1 .. n) = IF 1 > n THEN 0 ELSE n - 1 + 1
    BY FS_Interval
  <2> QED
    BY <2>1
<1> HIDE DEF g
<1> QED
  BY <1>1, <1>2, FS_Surjection

(* socksv5_register_user adds one user with a new name, or nothing.        *)
LEMMA UserAdded ==
  ASSUME NEW t, UsersOK(t), NEW name \in Seq(Nat), NEW pass, NEW u,
         u = socksv5_register_user(t, name, pass), NEW e, e = [uname |-> name, passwd |-> pass]
  PROVE  /\ UsersOK(u)
         /\ \/ u = t
            \/ /\ t.n < MaxUsers /\ UserSet(u) = UserSet(t) \cup {e}
               /\ name \notin {v.uname : v \in UserSet(t)}
<1>1. CASE RegisterStatus(t, name) # 0
  BY <1>1 DEF socksv5_register_user
<1>2. CASE RegisterStatus(t, name) = 0
  <2> DEFINE n == t.n
             f == t.slot
             g == [f EXCEPT ![n + 1] = e]
  <2>1. u = [slot |-> g, n |-> n + 1]
    BY <1>2 DEF socksv5_register_user
  <2>2. n \in Nat /\ MaxUsers \in Nat /\ DOMAIN f = 1 .. MaxUsers
    BY MaxUsersAssumption DEF MaxUsersAssumption, UsersOK
  <2>3. n < MaxUsers /\ \A i \in 1 .. n : f[i].uname # name
    <3>1. ~(n >= MaxUsers) /\ Position(t, name) = {}
      BY <1>2 DEF RegisterStatus
    <3> QED
      BY <2>2, <3>1 DEF Position
  <2>4. /\ \A i, j \in 1 .. n : f[i].uname = f[j].uname => i = j
        /\ \A i \in 1 .. n : f[i].uname \in Seq(Nat)
    BY DEF UsersOK
  <2>5. UserSet(t) = {f[i] : i \in 1 .. n}
    BY DEF UserSet
  <2>6. u.slot = g /\ u.n = n + 1
    BY <2>1
  <2> HIDE DEF n, f
  <2>7. /\ DOMAIN g = 1 .. MaxUsers /\ g[n + 1] = e /\ \A i \in 1 .. n : g[i] = f[i]
    BY <2>2, <2>3
  <2>8. e.uname = name
    OBVIOUS
  <2> HIDE DEF g
  <2>9. UsersOK(u)
    <3>1. n + 1 \in 0 .. MaxUsers /\ \A i \in 1 .. n + 1 : i \in 1 .. n \/ i = n + 1
      BY <2>2, <2>3
    <3>2. \A i, j \in 1 .. n + 1 : g[i].uname = g[j].uname => i = j
      BY <2>3, <2>4, <2>7, <2>8, <3>1
    <3>3. \A i \in 1 .. n + 1 : g[i].uname \in Seq(Nat)
      BY <2>4, <2>7, <2>8, <3>1
    <3> QED
      BY <2>6, <2>7, <3>1, <3>2, <3>3 DEF UsersOK
  <2>10. UserSet(u) = UserSet(t) \cup {e}
    <3>1. 1 .. n + 1 = (1 .. n) \cup {n + 1}
      BY <2>2
    <3>2. UserSet(u) = {g[i] : i \in 1 .. n + 1}
      BY <2>6 DEF UserSet
    <3> QED
      BY <2>5, <2>7, <3>1, <3>2
  <2>11. name \notin {v.uname : v \in UserSet(t)}
    BY <2>3, <2>5
  <2> QED
    BY <2>3, <2>9, <2>10, <2>11 DEF n
<1> QED
  BY <1>1, <1>2

(* socksv5_unregister_user removes the one user of that name, or nothing.  *)
LEMMA UserRemoved ==
  ASSUME NEW t, UsersOK(t), NEW name, NEW u, u = socksv5_unregister_user(t, name)
  PROVE  /\ UsersOK(u)
         /\ \/ u = t
            \/ \E e \in UserSet(t) : e.uname = name /\ UserSet(u) = UserSet(t) \ {e}
<1>1. CASE Position(t, name) = {}
  BY <1>1 DEF socksv5_unregister_user
<1>2. CASE Position(t, name) # {}
  <2> DEFINE n == t.n
             f == t.slot
             gone == Min(Position(t, name))
             g == [i \in 1 .. MaxUsers |-> IF i \in gone .. n - 1 THEN f[i + 1] ELSE f[i]]
  <2>1. u = [slot |-> g, n |-> n - 1]
    BY <1>2 DEF socksv5_unregister_user
  <2>2. n \in Nat /\ n <= MaxUsers /\ MaxUsers \in Nat /\ DOMAIN f = 1 .. MaxUsers
    BY MaxUsersAssumption DEF MaxUsersAssumption, UsersOK
  <2>3. gone \in 1 .. n /\ f[gone].uname = name
    <3>1. Position(t, name) \in SUBSET Nat
      BY <2>2 DEF Position
    <3>2. gone \in Position(t, name)
      BY <1>2, <3>1, MinOf
    <3> HIDE DEF gone
    <3> QED
      BY <3>2 DEF Position
  <2>4. /\ \A i, j \in 1 .. n : f[i].uname = f[j].uname => i = j
        /\ \A i \in 1 .. n : f[i].uname \in Seq(Nat)
    BY DEF UsersOK
  <2>5. UserSet(t) = {f[i] : i \in 1 .. n}
    BY DEF UserSet
  <2>6. u.slot = g /\ u.n = n - 1
    BY <2>1
  <2> HIDE DEF n, f, gone
  <2>7. DOMAIN g = 1 .. MaxUsers
    OBVIOUS
  <2>8. \A i \in 1 .. n - 1 : g[i] = IF i < gone THEN f[i] ELSE f[i + 1]
    BY <2>2, <2>3
  <2> HIDE DEF g
  <2>9. n - 1 \in 0 .. MaxUsers /\ \A i \in 1 .. n - 1 : i \in 1 .. n /\ i + 1 \in 1 .. n
    BY <2>2, <2>3
  <2> DEFINE at(i) == IF i < gone THEN i ELSE i + 1
  <2>10. \A i \in 1 .. n - 1 : g[i] = f[at(i)] /\ at(i) \in 1 .. n /\ at(i) # gone
    BY <2>2, <2>3, <2>8, <2>9
  <2>11. \A i, j \in 1 .. n - 1 : at(i) = at(j) => i = j
    BY <2>2, <2>3
  <2>12. \A i \in 1 .. n : i # gone => \E j \in 1 .. n - 1 : at(j) = i
    <3> TAKE i \in 1 .. n
    <3> HAVE i # gone
    <3>1. CASE i < gone
      <4>1. i \in 1 .. n - 1 /\ at(i) = i
        BY <2>2, <2>3, <3>1
      <4> QED
        BY <4>1
    <3>2. CASE i > gone
      <4>1. i - 1 \in 1 .. n - 1 /\ at(i - 1) = i
        BY <2>2, <2>3, <3>2
      <4> QED
        BY <4>1
    <3> QED
      BY <2>3, <3>1, <3>2
  <2> HIDE DEF at
  <2>13. UsersOK(u)
    <3>1. \A i, j \in 1 .. n - 1 : g[i].uname = g[j].uname => i = j
      BY <2>4, <2>10, <2>11
    <3>2. \A i \in 1 .. n - 1 : g[i].uname \in Seq(Nat)
      BY <2>4, <2>10
    <3> QED
      BY <2>6, <2>7, <2>9, <3>1, <3>2 DEF UsersOK
  <2>14. UserSet(u) = UserSet(t) \ {f[gone]}
    <3>1. UserSet(u) = {g[i] : i \in 1 .. n - 1}
      BY <2>6 DEF UserSet
    <3>2. ASSUME NEW x \in UserSet(u) PROVE x \in UserSet(t) \ {f[gone]}
      <4>1. PICK i \in 1 .. n - 1 : x = g[i]
        BY <3>1
      <4>2. x = f[at(i)] /\ at(i) \in 1 .. n /\ at(i) # gone
        BY <2>10, <4>1
      <4>3. f[at(i)].uname # f[gone].uname
        BY <2>3, <2>4, <4>2
      <4> QED
        BY <2>5, <4>2, <4>3
    <3>3. ASSUME NEW x \in UserSet(t) \ {f[gone]} PROVE x \in UserSet(u)
      <4>1. PICK i \in 1 .. n : x = f[i] /\ i # gone
        BY <2>5
      <4>2. PICK j \in 1 .. n - 1 : at(j) = i
        BY <2>12, <4>1
      <4>3. x = g[j]
        BY <2>10, <4>1, <4>2
      <4> QED
        BY <3>1, <4>3
    <3> QED
      BY <3>2, <3>3
  <2>15. f[gone] \in UserSet(t)
    BY <2>3, <2>5
  <2> QED
    BY <2>3, <2>13, <2>14, <2>15
<1> QED
  BY <1>1, <1>2

(* monitor_register_admin, once root is there: the same.                   *)
LEMMA AdminAdded ==
  ASSUME NEW tab, AdminsOK(tab), NEW name \in Seq(Nat), NEW tok \in Seq(Nat),
         NEW u, u = monitor_register_admin(tab, name, tok),
         NEW e, e = [uname |-> name, token |-> tok]
  PROVE  /\ AdminsOK(u)
         /\ \/ u = tab
            \/ /\ Len(tab) < MaxAdmins /\ Range(u) = Range(tab) \cup {e}
               /\ name \notin {v.uname : v \in Range(tab)}
<1>1. CASE AdminStatus(tab, name, tok) # 0
  BY <1>1 DEF monitor_register_admin
<1>2. CASE AdminStatus(tab, name, tok) = 0
  <2> DEFINE n == Len(tab)
  <2>1. tab \in Seq(Admins) /\ n \in Nat /\ n >= 1 /\ n <= MaxAdmins /\ MaxAdmins \in Nat
    BY MonitorAssumption DEF MonitorAssumption, AdminsOK
  <2>2. tab # <<>>
    BY <2>1
  <2>3. u = Append(tab, e)
    BY <1>2, <2>2 DEF monitor_register_admin
  <2>4. e \in Admins /\ e.uname = name
    BY DEF Admins
  <2>5. ~(Len(tab) >= MaxAdmins) /\ ~\E i \in DOMAIN tab : tab[i].uname = name
    BY <1>2 DEF AdminStatus
  <2>6. DOMAIN tab = 1 .. n
    BY <2>1
  <2>7. n < MaxAdmins /\ \A i \in 1 .. n : tab[i].uname # name
    <3>1. \A i \in 1 .. n : tab[i].uname # name
      BY ONLY <2>5, <2>6
    <3>2. ~(n >= MaxAdmins)
      BY <2>5
    <3> HIDE DEF n
    <3>3. n < MaxAdmins
      BY ONLY <2>1, <3>2
    <3> QED
      BY <3>1, <3>3
  <2>8. /\ u \in Seq(Admins) /\ Len(u) = n + 1 /\ DOMAIN u = 1 .. n + 1
        /\ u[n + 1] = e /\ \A i \in 1 .. n : u[i] = tab[i]
    BY <2>1, <2>3, <2>4
  <2>9. tab[1] = [uname |-> RootName, token |-> RootToken]
        /\ \A i, j \in 1 .. n : tab[i].uname = tab[j].uname => i = j
    BY DEF AdminsOK
  <2> HIDE DEF n
  <2>10. AdminsOK(u)
    <3>1. n + 1 \in 1 .. MaxAdmins /\ 1 \in 1 .. n /\ \A i \in 1 .. n + 1 : i \in 1 .. n \/ i = n + 1
      BY <2>1, <2>7
    <3>2. \A i, j \in 1 .. n + 1 : u[i].uname = u[j].uname => i = j
      <4>1. \A i \in 1 .. n : u[i].uname # u[n + 1].uname
        BY ONLY <2>4, <2>7, <2>8
      <4>2. \A i, j \in 1 .. n : u[i].uname = u[j].uname => i = j
        BY ONLY <2>8, <2>9
      <4> QED
        BY ONLY <3>1, <4>1, <4>2
    <3> QED
      BY <2>8, <2>9, <3>1, <3>2 DEF AdminsOK
  <2>11. Range(u) = Range(tab) \cup {e}
    <3>1. 1 .. n + 1 = (1 .. n) \cup {n + 1}
      BY <2>1
    <3>2. Range(u) = {u[i] : i \in 1 .. n + 1} /\ Range(tab) = {tab[i] : i \in 1 .. n}
      BY <2>6, <2>8 DEF Range
    <3>3. u[n + 1] = e /\ \A i \in 1 .. n : u[i] = tab[i]
      BY <2>8
    <3> QED
      BY ONLY <3>1, <3>2, <3>3, SMTT(30)
  <2>12. name \notin {v.uname : v \in Range(tab)}
    BY <2>6, <2>7 DEF Range
  <2> QED
    BY <2>7, <2>10, <2>11, <2>12 DEF n
<1> QED
  BY <1>1, <1>2

(* The elements of a sequence without its g-th.                            *)
LEMMA RemovedAt ==
  ASSUME NEW S, NEW s \in Seq(S), NEW g \in 1 .. Len(s), NEW w, w = RemoveAt(s, g), NEW n, n = Len(s)
  PROVE  /\ w \in Seq(S) /\ Len(w) = n - 1
         /\ \A i \in 1 .. n - 1 : w[i] = IF i < g THEN s[i] ELSE s[i + 1]
<1> DEFINE a == SubSeq(s, 1, g - 1)
           b == SubSeq(s, g + 1, n)
<1>0. n \in Nat /\ g \in Nat /\ g >= 1 /\ g <= n
  OBVIOUS
<1>1. \A i \in 1 .. n : s[i] \in S
  OBVIOUS
<1>2. a \in Seq(S) /\ Len(a) = g - 1 /\ \A i \in 1 .. g - 1 : a[i] = s[i]
  <2>1. g - 1 \in Int /\ \A i \in 1 .. g - 1 : s[i] \in S
    BY <1>0, <1>1
  <2>2. /\ a \in Seq(S) /\ Len(a) = (IF 1 <= g - 1 THEN (g - 1) - 1 + 1 ELSE 0)
        /\ \A i \in 1 .. (g - 1) - 1 + 1 : a[i] = s[1 + i - 1]
    BY <2>1, SubSeqProperties
  <2>3. (g - 1) - 1 + 1 = g - 1 /\ \A i \in 1 .. g - 1 : 1 + i - 1 = i
    BY <1>0
  <2> HIDE DEF a
  <2> QED
    BY <1>0, <2>2, <2>3
<1>3. b \in Seq(S) /\ Len(b) = n - g /\ \A i \in 1 .. n - g : b[i] = s[g + i]
  <2>1. g + 1 \in Int /\ n \in Int /\ \A i \in g + 1 .. n : s[i] \in S
    BY <1>0, <1>1
  <2>2. /\ b \in Seq(S) /\ Len(b) = (IF g + 1 <= n THEN n - (g + 1) + 1 ELSE 0)
        /\ \A i \in 1 .. n - (g + 1) + 1 : b[i] = s[(g + 1) + i - 1]
    BY <2>1, SubSeqProperties
  <2>3. n - (g + 1) + 1 = n - g /\ \A i \in 1 .. n - g : (g + 1) + i - 1 = g + i
    BY <1>0
  <2> HIDE DEF b
  <2> QED
    BY <1>0, <2>2, <2>3
<1>4. w = a \o b
  BY DEF RemoveAt
<1> HIDE DEF a, b
<1>5. /\ w \in Seq(S) /\ Len(w) = Len(a) + Len(b)
      /\ \A i \in 1 .. Len(a) + Len(b) : w[i] = IF i <= Len(a) THEN a[i] ELSE b[i - Len(a)]
  <2>1. a \in Seq(S) /\ b \in Seq(S)
    BY <1>2, <1>3
  <2> QED
    BY ONLY <1>4, <2>1, ConcatProperties
<1>6. Len(a) + Len(b) = n - 1
  BY <1>0, <1>2, <1>3
<1>7. ASSUME NEW i \in 1 .. n - 1 PROVE w[i] = IF i < g THEN s[i] ELSE s[i + 1]
  <2>1. CASE i < g
    <3>1. i \in 1 .. g - 1 /\ i <= Len(a)
      BY <1>0, <1>2, <2>1
    <3> QED
      BY <1>2, <1>5, <1>6, <2>1, <3>1
  <2>2. CASE ~(i < g)
    <3>1. ~(i <= Len(a)) /\ i - Len(a) \in 1 .. n - g /\ g + (i - Len(a)) = i + 1
      BY <1>0, <1>2, <2>2
    <3>2. w[i] = b[i - Len(a)]
      BY <1>5, <1>6, <3>1
    <3>3. b[i - Len(a)] = s[g + (i - Len(a))]
      BY <1>3, <3>1
    <3> QED
      BY <2>2, <3>1, <3>2, <3>3
  <2> QED
    BY <2>1, <2>2
<1> QED
  BY <1>5, <1>6, <1>7

(* monitor_unregister_admin removes one administrator and never root.      *)
LEMMA AdminRemoved ==
  ASSUME NEW tab, AdminsOK(tab), NEW name, NEW u, u = monitor_unregister_admin(tab, name)
  PROVE  /\ AdminsOK(u)
         /\ \/ u = tab
            \/ \E e \in Range(tab) : /\ e.uname = name /\ e # [uname |-> RootName, token |-> RootToken]
                                    /\ Range(u) = Range(tab) \ {e}
<1>1. CASE RemovableAdmin(tab, name) = {}
  BY <1>1 DEF monitor_unregister_admin
<1>2. CASE RemovableAdmin(tab, name) # {}
  <2> DEFINE n == Len(tab)
             gone == Min(RemovableAdmin(tab, name))
  <2>1. u = RemoveAt(tab, gone)
    BY <1>2 DEF monitor_unregister_admin
  <2>2. tab \in Seq(Admins) /\ n \in Nat /\ n >= 1 /\ n <= MaxAdmins /\ MaxAdmins \in Nat /\ DOMAIN tab = 1 .. n
    BY MonitorAssumption DEF MonitorAssumption, AdminsOK
  <2>3. gone \in 2 .. n /\ tab[gone].uname = name /\ name # RootName
    <3>1. RemovableAdmin(tab, name) \in SUBSET Nat
      BY <2>2 DEF RemovableAdmin
    <3>2. gone \in RemovableAdmin(tab, name)
      BY <1>2, <3>1, MinOf
    <3> HIDE DEF gone
    <3> QED
      BY <3>2 DEF RemovableAdmin
  <2>4. tab[1] = [uname |-> RootName, token |-> RootToken]
        /\ \A i, j \in 1 .. n : tab[i].uname = tab[j].uname => i = j
    BY DEF AdminsOK
  <2> HIDE DEF gone
  <2>5. gone \in 1 .. Len(tab)
    BY <2>2, <2>3
  <2>6. /\ u \in Seq(Admins) /\ Len(u) = n - 1
        /\ \A i \in 1 .. n - 1 : u[i] = IF i < gone THEN tab[i] ELSE tab[i + 1]
    <3>1. tab \in Seq(Admins) /\ gone \in 1 .. Len(tab) /\ u = RemoveAt(tab, gone)
      BY <2>1, <2>2, <2>5
    <3>2. n = Len(tab)
      OBVIOUS
    <3> HIDE DEF n
    <3> QED
      BY ONLY <3>1, <3>2, RemovedAt
  <2>7. DOMAIN u = 1 .. n - 1
    BY <2>6
  <2> HIDE DEF n
  <2> DEFINE at(i) == IF i < gone THEN i ELSE i + 1
  <2>8. gone \in 1 .. n /\ gone > 1
    BY <2>2, <2>3
  <2>9. \A i \in 1 .. n - 1 : u[i] = tab[at(i)] /\ at(i) \in 1 .. n /\ at(i) # gone
    BY <2>2, <2>6, <2>8
  <2>10. \A i, j \in 1 .. n - 1 : at(i) = at(j) => i = j
    BY <2>2, <2>8
  <2>11. \A i \in 1 .. n : i # gone => \E j \in 1 .. n - 1 : at(j) = i
    <3> TAKE i \in 1 .. n
    <3> HAVE i # gone
    <3>1. CASE i < gone
      <4>1. i \in 1 .. n - 1 /\ at(i) = i
        BY <2>2, <2>8, <3>1
      <4> QED
        BY <4>1
    <3>2. CASE i > gone
      <4>1. i - 1 \in 1 .. n - 1 /\ at(i - 1) = i
        BY <2>2, <2>8, <3>2
      <4> QED
        BY <4>1
    <3> QED
      BY <2>8, <3>1, <3>2
  <2>12. 1 \in 1 .. n - 1 /\ at(1) = 1 /\ n - 1 \in 1 .. MaxAdmins
    BY <2>2, <2>8
  <2> HIDE DEF at
  <2>13. AdminsOK(u)
    <3>1. \A i, j \in 1 .. n - 1 : u[i].uname = u[j].uname => i = j
      BY <2>4, <2>9, <2>10
    <3>2. u[1] = [uname |-> RootName, token |-> RootToken]
      BY <2>4, <2>9, <2>12
    <3> QED
      BY <2>6, <2>12, <3>1, <3>2 DEF AdminsOK
  <2>14. Range(u) = Range(tab) \ {tab[gone]}
    <3>1. Range(u) = {u[i] : i \in 1 .. n - 1} /\ Range(tab) = {tab[i] : i \in 1 .. n}
      BY <2>2, <2>7 DEF Range
    <3>2. ASSUME NEW x \in Range(u) PROVE x \in Range(tab) \ {tab[gone]}
      <4>1. PICK i \in 1 .. n - 1 : x = u[i]
        BY <3>1
      <4>2. x = tab[at(i)] /\ at(i) \in 1 .. n /\ at(i) # gone
        BY <2>9, <4>1
      <4>3. tab[at(i)].uname # tab[gone].uname
        BY <2>4, <2>8, <4>2
      <4> QED
        BY <3>1, <4>2, <4>3
    <3>3. ASSUME NEW x \in Range(tab) \ {tab[gone]} PROVE x \in Range(u)
      <4>1. PICK i \in 1 .. n : x = tab[i] /\ i # gone
        BY <3>1
      <4>2. PICK j \in 1 .. n - 1 : at(j) = i
        BY <2>11, <4>1
      <4>3. x = u[j]
        BY <2>9, <4>1, <4>2
      <4> QED
        BY <3>1, <4>3
    <3> QED
      BY <3>2, <3>3
  <2>15. tab[gone] \in Range(tab)
    BY <2>2, <2>8 DEF Range
  <2>16. tab[gone] # [uname |-> RootName, token |-> RootToken]
    BY <2>3
  <2> QED
    BY <2>3, <2>13, <2>14, <2>15, <2>16
<1> QED
  BY <1>1, <1>2

-----------------------------------------------------------------------------
(* The monitor keeps the promise of Registry.                              *)

Pending == [c \in Clients |-> IF done[c] THEN NoRequest ELSE req[c]]

Root == [uname |-> RootName, token |-> RootToken]

(* What Registry sees as pending.                                          *)
LEMMA PendingOf ==
  ASSUME ConnOK, NEW c \in Clients
  PROVE  /\ srv[c] \in {"queued", "read"} => Pending[c] = req[c] /\ req[c] # NoRequest
         /\ srv[c] \notin {"queued", "read"} => Pending[c] = NoRequest
BY DEF ConnOK, Pending

(* The end of a request, in the terms of Registry.                         *)
LEMMA RequestOver ==
  ASSUME ConnOK, NEW c \in Clients, srv[c] \in {"queued", "read"},
         done' = [done EXCEPT ![c] = TRUE], req' = req,
         c \notin mixed', mixed \ {c} \subseteq mixed',
         \A d \in mixed' \ mixed : d \in Clients /\ srv[d] = "read"
  PROVE  Promise!Over(c) /\ Pending[c] = req[c] /\ req[c] # NoRequest
<1>1. Pending[c] = req[c] /\ req[c] # NoRequest
  BY PendingOf
<1>2. Pending' = [Pending EXCEPT ![c] = NoRequest]
  <2>1. DOMAIN done = Clients
    BY DEF ConnOK
  <2>2. \A d \in Clients : Pending'[d] = IF d = c THEN NoRequest ELSE Pending[d]
    BY <2>1 DEF Pending
  <2> QED
    BY <2>2 DEF Pending
<1>3. \A d \in mixed' \ mixed : Pending'[d] # NoRequest
  <2> TAKE d \in mixed' \ mixed
  <2>1. d # c /\ d \in Clients /\ srv[d] = "read"
    OBVIOUS
  <2>2. Pending[d] # NoRequest
    BY <2>1, PendingOf
  <2> QED
    BY <1>2, <2>1, <2>2 DEF Pending
<1> QED
  BY <1>1, <1>2, <1>3 DEF Promise!Over, Pending

(* A request that is over and changed nothing.                             *)
LEMMA Unaffected ==
  ASSUME ConnOK, NEW c \in Clients, Promise!Over(c), Pending[c] # NoRequest, UNCHANGED tableVars
  PROVE  Promise!NoEffect(c)
<1>1. UNCHANGED <<UserSet(users), Range(admins), is_disector_on>>
  BY DEF tableVars, UserSet
<1> QED
  BY <1>1 DEF Promise!NoEffect, Pending, UserSet

(* Registry has these two through an INSTANCE of its own.                  *)
LEMMA SameSets ==
  ASSUME NEW S
  PROVE  Promise!Cardinality(S) = Cardinality(S) /\ Promise!IsFiniteSet(S) = IsFiniteSet(S)
<1>1. Promise!Cardinality(S) = Cardinality(S)
  BY DEF Promise!Cardinality, Cardinality
<1>2. Promise!IsFiniteSet(S) = IsFiniteSet(S)
  BY DEF Promise!IsFiniteSet, IsFiniteSet
<1> QED
  BY <1>1, <1>2

(* A changing request, carried out on the parsed data p.                   *)
Sound(r, p, mx) ==
  /\ p \in ParserTypes /\ p.token = r.token /\ p.target = r.cmd /\ r.cmd \in Changes
  /\ ~mx => FoundIs(r, p)

(* ADD PROXY USER adds the user, or changes nothing.                       *)
LEMMA PromiseAddUser ==
  ASSUME TablesOK, NEW c \in Clients, IsRequest(Pending[c]), NEW p, Sound(Pending[c], p, c \in mixed),
         Pending[c].cmd = "add_user",
         users' = socksv5_register_user(users, Name(p), Secret(p)), UNCHANGED <<admins, is_disector_on>>
  PROVE  TablesOK' /\ (users' = users \/ Promise!AddUser(c))
<1> DEFINE e == [uname |-> Name(p), passwd |-> Secret(p)]
           old == UserSet(users)
           new == UserSet(users')
<1>0. Name(p) \in Seq(Nat)
  <2>1. p.user \in Seq(Nat)
    BY DEF Sound, ParserTypes
  <2> QED
    BY <2>1, CStrType DEF Name
<1>1. /\ UsersOK(users')
      /\ \/ users' = users
         \/ /\ users.n < MaxUsers /\ new = old \cup {e}
            /\ Name(p) \notin {v.uname : v \in old}
  <2>1. e = [uname |-> Name(p), passwd |-> Secret(p)] /\ UsersOK(users)
    BY DEF TablesOK
  <2> HIDE DEF e
  <2> QED
    BY <1>0, <2>1, UserAdded
<1>2. TablesOK'
  BY <1>1 DEF TablesOK
<1>3. ASSUME users.n < MaxUsers, new = old \cup {e}, Name(p) \notin {v.uname : v \in old}
      PROVE  Promise!AddUser(c)
  <2>1. Promise!Cardinality(old) < MaxUsers
    <3>1. users.n \in Nat /\ MaxUsers \in Nat
      BY MaxUsersAssumption DEF MaxUsersAssumption, TablesOK, UsersOK
    <3>2. IsFiniteSet(old) /\ Cardinality(old) <= users.n
      BY <3>1, SetSize DEF UserSet
    <3> QED
      BY <1>3, <3>1, <3>2, FS_CardinalityType, SameSets
  <2>2. c \notin mixed => Name(p) = Pending[c].name /\ Secret(p) = Pending[c].secret
    BY FoundAsSent DEF Sound, Adds
  <2>3. e.uname = Name(p) /\ e.passwd = Secret(p)
    OBVIOUS
  <2> HIDE DEF e, old, new
  <2>4. e \in new /\ e.uname \notin {v.uname : v \in old} /\ Promise!AsSent(c, e.uname, e.passwd)
    BY <1>3, <2>2, <2>3 DEF Promise!AsSent, Pending
  <2>5. \E u \in new : /\ u.uname \notin {v.uname : v \in old}
                       /\ new = old \cup {u} /\ Promise!AsSent(c, u.uname, u.passwd)
    BY ONLY <1>3, <2>4
  <2>6. UNCHANGED <<Range(admins), is_disector_on>> /\ Pending[c].cmd = "add_user"
    OBVIOUS
  <2> QED
    BY ONLY <2>1, <2>5, <2>6 DEF Promise!AddUser, Promise!UserNames, Pending, old, new, UserSet
<1> QED
  BY <1>1, <1>2, <1>3

(* DELETE PROXY USER removes one user, or changes nothing.                 *)
LEMMA PromiseDelUser ==
  ASSUME TablesOK, NEW c \in Clients, IsRequest(Pending[c]), NEW p, Sound(Pending[c], p, c \in mixed),
         Pending[c].cmd = "del_user",
         users' = socksv5_unregister_user(users, Name(p)), UNCHANGED <<admins, is_disector_on>>
  PROVE  TablesOK' /\ (users' = users \/ Promise!DelUser(c))
<1> DEFINE old == UserSet(users)
           new == UserSet(users')
<1>1. /\ UsersOK(users')
      /\ users' = users \/ \E e \in old : e.uname = Name(p) /\ new = old \ {e}
  BY UserRemoved DEF TablesOK
<1>2. TablesOK'
  BY <1>1 DEF TablesOK
<1>3. ASSUME NEW e \in old, e.uname = Name(p), new = old \ {e} PROVE Promise!DelUser(c)
  <2>1. c \notin mixed => Name(p) = Pending[c].name
    BY FoundAsSent DEF Sound, Dels
  <2>2. Promise!AsSent(c, e.uname, Pending[c].secret)
    BY <1>3, <2>1 DEF Promise!AsSent, Pending
  <2> QED
    BY <1>3, <2>2 DEF Promise!DelUser, Pending, UserSet
<1> QED
  BY <1>1, <1>2, <1>3

(* ADD ADMIN adds the administrator, or changes nothing.                   *)
LEMMA PromiseAddAdmin ==
  ASSUME TablesOK, NEW c \in Clients, IsRequest(Pending[c]), NEW p, Sound(Pending[c], p, c \in mixed),
         Pending[c].cmd = "add_admin",
         admins' = monitor_register_admin(admins, Name(p), Secret(p)), UNCHANGED <<users, is_disector_on>>
  PROVE  TablesOK' /\ (admins' = admins \/ Promise!AddAdmin(c))
<1> DEFINE e == [uname |-> Name(p), token |-> Secret(p)]
           old == Range(admins)
           new == Range(admins')
<1>0. Name(p) \in Seq(Nat) /\ Secret(p) \in Seq(Nat)
  <2>1. p.user \in Seq(Nat) /\ p.extra \in Seq(Nat)
    BY DEF Sound, ParserTypes
  <2> QED
    BY <2>1, CStrType DEF Name, Secret
<1>1. /\ AdminsOK(admins')
      /\ \/ admins' = admins
         \/ /\ Len(admins) < MaxAdmins /\ new = old \cup {e}
            /\ Name(p) \notin {v.uname : v \in old}
  <2>1. e = [uname |-> Name(p), token |-> Secret(p)] /\ AdminsOK(admins)
    BY DEF TablesOK
  <2> HIDE DEF e
  <2> QED
    BY <1>0, <2>1, AdminAdded
<1>2. TablesOK'
  BY <1>1 DEF TablesOK
<1>3. ASSUME Len(admins) < MaxAdmins, new = old \cup {e}, Name(p) \notin {v.uname : v \in old}
      PROVE  Promise!AddAdmin(c)
  <2>1. Promise!Cardinality(old) < MaxAdmins
    <3>1. Len(admins) \in Nat /\ MaxAdmins \in Nat /\ DOMAIN admins = 1 .. Len(admins)
      BY MonitorAssumption DEF MonitorAssumption, TablesOK, AdminsOK
    <3>2. IsFiniteSet(old) /\ Cardinality(old) <= Len(admins)
      BY <3>1, SetSize DEF Range
    <3> QED
      BY <1>3, <3>1, <3>2, FS_CardinalityType, SameSets
  <2>2. c \notin mixed => Name(p) = Pending[c].name /\ Secret(p) = Pending[c].secret
    BY FoundAsSent DEF Sound, Adds
  <2>3. e.uname = Name(p) /\ e.token = Secret(p)
    OBVIOUS
  <2> HIDE DEF e, old, new
  <2>4. e \in new /\ e.uname \notin {v.uname : v \in old} /\ Promise!AsSent(c, e.uname, e.token)
    BY <1>3, <2>2, <2>3 DEF Promise!AsSent, Pending
  <2>5. \E u \in new : /\ u.uname \notin {v.uname : v \in old}
                       /\ new = old \cup {u} /\ Promise!AsSent(c, u.uname, u.token)
    BY ONLY <1>3, <2>4
  <2>6. UNCHANGED <<UserSet(users), is_disector_on>> /\ Pending[c].cmd = "add_admin"
    BY DEF UserSet
  <2> QED
    BY ONLY <2>1, <2>5, <2>6 DEF Promise!AddAdmin, Promise!AdminNames, Pending, old, new, UserSet
<1> QED
  BY <1>1, <1>2, <1>3

(* DELETE ADMIN removes one other than root, or changes nothing.           *)
LEMMA PromiseDelAdmin ==
  ASSUME TablesOK, NEW c \in Clients, IsRequest(Pending[c]), NEW p, Sound(Pending[c], p, c \in mixed),
         Pending[c].cmd = "del_admin",
         admins' = monitor_unregister_admin(admins, Name(p)), UNCHANGED <<users, is_disector_on>>
  PROVE  TablesOK' /\ (admins' = admins \/ Promise!DelAdmin(c))
<1> DEFINE old == Range(admins)
           new == Range(admins')
<1>1. /\ AdminsOK(admins')
      /\ admins' = admins \/ \E e \in old : e.uname = Name(p) /\ e # Root /\ new = old \ {e}
  BY AdminRemoved DEF TablesOK, Root
<1>2. TablesOK'
  BY <1>1 DEF TablesOK
<1>3. ASSUME NEW e \in old, e.uname = Name(p), e # Root, new = old \ {e} PROVE Promise!DelAdmin(c)
  <2>1. c \notin mixed => Name(p) = Pending[c].name
    BY FoundAsSent DEF Sound, Dels
  <2>2. Promise!AsSent(c, e.uname, Pending[c].secret)
    BY <1>3, <2>1 DEF Promise!AsSent, Pending
  <2> QED
    BY <1>3, <2>2 DEF Promise!DelAdmin, Pending, Root
<1> QED
  BY <1>1, <1>2, <1>3

(* The switch is set as asked.                                             *)
LEMMA PromiseDisector ==
  ASSUME TablesOK, NEW c \in Clients, IsRequest(Pending[c]), NEW p, Sound(Pending[c], p, c \in mixed),
         Pending[c].cmd = "disector", is_disector_on' = (p.flag = 1), UNCHANGED <<users, admins>>
  PROVE  TablesOK' /\ Promise!SetDisector(c)
<1>1. is_disector_on' \in BOOLEAN
  OBVIOUS
<1>2. TablesOK'
  BY <1>1 DEF TablesOK
<1>3. c \notin mixed => (p.flag = 1 <=> Pending[c].secret = <<1>>)
  BY DEF Sound, FoundIs
<1>4. c \notin mixed => is_disector_on' = (Pending[c].secret = <<1>>)
  BY <1>3, Zenon
<1>5. UNCHANGED <<UserSet(users), Range(admins)>>
  BY DEF UserSet
<1> QED
  BY <1>1, <1>2, <1>4, <1>5 DEF Promise!SetDisector, Pending, UserSet

(* monitor_process on what the parser found.                               *)
LEMMA Processed ==
  ASSUME ConnOK, TablesOK, NEW c \in Clients, IsRequest(Pending[c]), Pending[c] # NoRequest,
         Promise!Over(c), NEW p, p.token = Pending[c].token,
         p.method \in {Get, Config}, p.method = Config => Sound(Pending[c], p, c \in mixed),
         ProcessTables(p)
  PROVE  TablesOK' /\ (Promise!Execute(c) \/ Promise!NoEffect(c))
<1>1. ASSUME UNCHANGED tableVars PROVE TablesOK' /\ Promise!NoEffect(c)
  <2>1. TablesOK'
    BY <1>1 DEF TablesOK, tableVars
  <2> QED
    BY <1>1, <2>1, Unaffected
<1>2. CASE ~monitor_is_admin(p.token) \/ p.method = Get
  BY <1>1, <1>2 DEF ProcessTables
<1>3. CASE monitor_is_admin(p.token) /\ p.method # Get
  <2>1. Sound(Pending[c], p, c \in mixed)
    BY <1>3
  <2>2. p.target = Pending[c].cmd /\ Pending[c].cmd \in Changes
    BY <2>1 DEF Sound
  <2>3. Promise!Authorised(c)
    <3>1. PICK i \in DOMAIN admins : admins[i].token = Pending[c].token
      BY <1>3 DEF monitor_is_admin
    <3>2. admins[i] \in Range(admins)
      BY DEF Range
    <3> QED
      BY <3>1, <3>2 DEF Promise!Authorised, Pending
  <2>4. /\ users' = CASE p.target = "add_user" -> socksv5_register_user(users, Name(p), Secret(p))
                      [] p.target = "del_user" -> socksv5_unregister_user(users, Name(p))
                      [] OTHER                 -> users
        /\ admins' = CASE p.target = "add_admin" ->
                            monitor_register_admin(admins, Name(p), Secret(p))
                       [] p.target = "del_admin" -> monitor_unregister_admin(admins, Name(p))
                       [] OTHER                  -> admins
        /\ is_disector_on' = IF p.target = "disector" THEN p.flag = 1 ELSE is_disector_on
    BY <1>3 DEF ProcessTables
  <2>5. ASSUME Promise!AddUser(c) \/ Promise!DelUser(c) \/ Promise!AddAdmin(c) \/ Promise!DelAdmin(c)
                 \/ Promise!SetDisector(c)
        PROVE  Promise!Execute(c)
    BY <2>3, <2>5 DEF Promise!Execute, Pending
  <2>6. CASE p.target = "add_user"
    <3>1. users' = socksv5_register_user(users, Name(p), Secret(p)) /\ UNCHANGED <<admins, is_disector_on>>
      BY ONLY <2>4, <2>6
    <3>2. TablesOK' /\ (users' = users \/ Promise!AddUser(c))
      BY <2>1, <2>2, <2>6, <3>1, PromiseAddUser
    <3> QED
      BY <1>1, <2>5, <3>1, <3>2 DEF tableVars
  <2>7. CASE p.target = "del_user"
    <3>1. users' = socksv5_unregister_user(users, Name(p)) /\ UNCHANGED <<admins, is_disector_on>>
      BY ONLY <2>4, <2>7
    <3>2. TablesOK' /\ (users' = users \/ Promise!DelUser(c))
      BY <2>1, <2>2, <2>7, <3>1, PromiseDelUser
    <3> QED
      BY <1>1, <2>5, <3>1, <3>2 DEF tableVars
  <2>8. CASE p.target = "add_admin"
    <3>1. admins' = monitor_register_admin(admins, Name(p), Secret(p)) /\ UNCHANGED <<users, is_disector_on>>
      BY ONLY <2>4, <2>8
    <3>2. TablesOK' /\ (admins' = admins \/ Promise!AddAdmin(c))
      BY <2>1, <2>2, <2>8, <3>1, PromiseAddAdmin
    <3> QED
      BY <1>1, <2>5, <3>1, <3>2 DEF tableVars
  <2>9. CASE p.target = "del_admin"
    <3>1. admins' = monitor_unregister_admin(admins, Name(p)) /\ UNCHANGED <<users, is_disector_on>>
      BY ONLY <2>4, <2>9
    <3>2. TablesOK' /\ (admins' = admins \/ Promise!DelAdmin(c))
      BY <2>1, <2>2, <2>9, <3>1, PromiseDelAdmin
    <3> QED
      BY <1>1, <2>5, <3>1, <3>2 DEF tableVars
  <2>10. CASE p.target = "disector"
    <3>1. is_disector_on' = (p.flag = 1) /\ UNCHANGED <<users, admins>>
      BY ONLY <2>4, <2>10
    <3>2. TablesOK' /\ Promise!SetDisector(c)
      BY <2>1, <2>2, <2>10, <3>1, PromiseDisector
    <3> QED
      BY <2>5, <3>2
  <2> QED
    BY <2>2, <2>6, <2>7, <2>8, <2>9, <2>10 DEF Changes, Adds, Dels
<1> QED
  BY <1>2, <1>3

(* monitor_read: the request is carried out, or others' data get mixed.    *)
LEMMA PromiseRead ==
  ASSUME ConnOK, ParsersOK, TablesOK, NEW c \in Clients, NEW n, monitor_read(c, n)
  PROVE  TablesOK' /\ (Promise!Mix \/ Promise!Execute(c) \/ Promise!NoEffect(c))
<1> DEFINE q == ReadOf(c, n)
<1>1. srv[c] = "read" /\ n \in Unread(c) /\ req' = req
  BY DEF monitor_read, clientVars
<1>2. /\ mixed' = (IF monitor_is_done(q.p) THEN mixed \ {c} ELSE mixed)
                     \cup {d \in Clients \ {c} : Overwritten(d)}
      /\ IF monitor_is_done(q.p) THEN Answer(c, q.p) ELSE UNCHANGED <<done, tableVars>>
  BY DEF monitor_read, ReadOf, Statics
<1>3. \A d \in mixed' \ mixed : d \in Clients /\ srv[d] = "read"
  BY <1>2 DEF Overwritten
<1>4. Consumed(req[c], q, n, c \in mixed)
  BY <1>1, ReadConsumes
<1> HIDE DEF q
<1>5. PICK at \in Nat : ParserIs(req[c], q.p, q.s, at, c \in mixed)
  BY <1>4 DEF Consumed
<1>6. CASE ~monitor_is_done(q.p)
  <2>1. UNCHANGED <<done, tableVars>> /\ mixed \subseteq mixed'
    BY <1>2, <1>6
  <2>2. TablesOK' /\ UNCHANGED <<UserSet(users), Range(admins), is_disector_on, Pending>>
    BY <1>1, <2>1 DEF TablesOK, tableVars, UserSet, Pending
  <2>3. \A d \in mixed' \ mixed : Pending[d] # NoRequest
    BY <1>3, PendingOf
  <2>4. Promise!Mix
    BY <2>1, <2>2, <2>3 DEF Promise!Mix, Pending, UserSet
  <2> QED
    BY <2>2, <2>4
<1>7. CASE monitor_is_done(q.p)
  <2>1. Answer(c, q.p) /\ c \notin mixed' /\ mixed \ {c} \subseteq mixed'
    BY <1>2, <1>7
  <2>2. done' = [done EXCEPT ![c] = TRUE]
    BY <2>1 DEF Answer
  <2>3. Promise!Over(c) /\ Pending[c] = req[c] /\ req[c] # NoRequest
    BY <1>1, <1>3, <2>1, <2>2, RequestOver
  <2>4. IsRequest(Pending[c])
    BY <2>3, Requested
  <2>5. CASE q.p.state = "done"
    <3>1. ProcessTables(q.p)
      BY <2>1, <2>5 DEF Answer
    <3>2. /\ q.p.token = req[c].token /\ q.p.method \in {Get, Config}
          /\ q.p.method = Config => Sound(req[c], q.p, c \in mixed)
      BY <1>5, <2>5 DEF ParserIs, Sound
    <3> QED
      BY <2>3, <2>4, <3>1, <3>2, Processed
  <2>6. CASE q.p.state # "done"
    <3>1. UNCHANGED tableVars
      BY <2>1, <2>6 DEF Answer
    <3>2. TablesOK'
      BY <3>1 DEF TablesOK, tableVars
    <3> QED
      BY <2>3, <3>1, <3>2, Unaffected
  <2> QED
    BY <2>5, <2>6
<1> QED
  BY <1>6, <1>7

(* What Registry sees of a step that is none of its own.                   *)
LEMMA Unseen ==
  ASSUME TablesOK, UNCHANGED <<tableVars, mixed>>, UNCHANGED Pending
  PROVE  TablesOK' /\ UNCHANGED Promise!rvars
<1>1. TablesOK'
  BY DEF TablesOK, tableVars
<1>2. UNCHANGED <<UserSet(users), Range(admins), is_disector_on, Pending, mixed>>
  BY DEF tableVars, UserSet
<1> QED
  BY <1>1, <1>2 DEF Promise!rvars, UserSet, Pending

(* A new request.                                                          *)
LEMMA PromiseAsk ==
  ASSUME ConnOK, TablesOK, NEW c \in Clients, NEW r \in Requests[c], ClientAsks(c, r)
  PROVE  TablesOK' /\ Promise!Ask(c)
<1>1. /\ req[c] = NoRequest /\ req' = [req EXCEPT ![c] = r] /\ done' = [done EXCEPT ![c] = FALSE]
      /\ UNCHANGED <<tableVars, mixed>>
  BY DEF ClientAsks
<1>2. r # NoRequest
  BY RequestsAssumption DEF RequestsAssumption
<1>3. Pending[c] = NoRequest
  BY <1>1, PendingOf DEF ConnOK
<1>4. Pending' = [Pending EXCEPT ![c] = r]
  <2>1. DOMAIN done = Clients /\ DOMAIN req = Clients
    BY DEF ConnOK
  <2>2. \A d \in Clients : Pending'[d] = IF d = c THEN r ELSE Pending[d]
    BY <1>1, <2>1 DEF Pending
  <2> QED
    BY <2>2 DEF Pending
<1>5. Pending'[c] = r
  BY <1>4 DEF Pending
<1>6. TablesOK' /\ UNCHANGED <<UserSet(users), Range(admins), is_disector_on, mixed>>
  BY <1>1 DEF TablesOK, tableVars, UserSet
<1>7. /\ Pending[c] = NoRequest /\ Pending'[c] # NoRequest
      /\ Pending' = [Pending EXCEPT ![c] = Pending'[c]]
  BY <1>2, <1>3, <1>4, <1>5
<1> QED
  BY <1>6, <1>7 DEF Promise!Ask, Pending, UserSet

(* Every step of the monitor is one of Registry or invisible there.        *)
LEMMA PromiseStep ==
  ASSUME ConnOK, ParsersOK, TablesOK, [Next]_vars
  PROVE  TablesOK' /\ [Promise!RNext]_(Promise!rvars)
<1>1. ASSUME UNCHANGED <<req, done, tableVars, mixed>>
      PROVE  TablesOK' /\ UNCHANGED Promise!rvars
  BY <1>1, Unseen DEF Pending
<1>2. ASSUME NEW c \in Clients, NEW r \in Requests[c], ClientAsks(c, r)
      PROVE  TablesOK' /\ Promise!RNext
  BY <1>2, PromiseAsk DEF Promise!RNext
<1>3. ASSUME NEW c \in Clients, ClientReports(c) PROVE TablesOK' /\ UNCHANGED Promise!rvars
  <2>1. srv[c] = "closed" /\ req' = [req EXCEPT ![c] = NoRequest] /\ UNCHANGED <<done, tableVars, mixed>>
    BY <1>3 DEF ClientReports
  <2>2. \A d \in Clients : Pending'[d] = Pending[d]
    BY <2>1 DEF ConnOK, Pending
  <2>3. UNCHANGED Pending
    BY <2>2 DEF Pending
  <2> QED
    BY <2>1, <2>3, Unseen
<1>4. ASSUME NEW c \in Clients, AcceptFails(c) \/ monitor_read_fails(c)
      PROVE  TablesOK' /\ Promise!RNext
  <2>1. /\ srv[c] \in {"queued", "read"} /\ done' = [done EXCEPT ![c] = TRUE] /\ req' = req
        /\ mixed' = mixed \ {c} /\ UNCHANGED tableVars
    <3>1. CASE AcceptFails(c)
      BY <3>1 DEF AcceptFails, clientVars, ConnOK
    <3>2. CASE monitor_read_fails(c)
      BY <3>2 DEF monitor_read_fails, clientVars
    <3> QED
      BY <1>4, <3>1, <3>2
  <2>2. Promise!Over(c) /\ Pending[c] = req[c] /\ req[c] # NoRequest
    <3>1. c \notin mixed' /\ mixed \ {c} \subseteq mixed' /\ mixed' \ mixed = {}
      BY <2>1
    <3> QED
      BY <2>1, <3>1, RequestOver
  <2>3. TablesOK'
    BY <2>1 DEF TablesOK, tableVars
  <2> QED
    BY <2>1, <2>2, <2>3, Unaffected DEF Promise!RNext
<1>5. ASSUME NEW c \in Clients, ClientNext(c)
      PROVE  TablesOK' /\ [Promise!RNext]_(Promise!rvars)
  <2>1. ASSUME NEW n, ClientRecv(c, n) PROVE TablesOK' /\ UNCHANGED Promise!rvars
    BY <1>1, <2>1 DEF ClientRecv, serverVars
  <2>2. CASE ClientAborts(c) \/ ClientKilled(c)
    BY <1>1, <2>2 DEF ClientAborts, ClientKilled, serverVars
  <2> QED
    BY <1>2, <1>3, <1>5, <2>1, <2>2 DEF ClientNext
<1>6. ASSUME NEW c \in Clients, ServerNext(c)
      PROVE  TablesOK' /\ [Promise!RNext]_(Promise!rvars)
  <2>1. CASE monitor_passive_accept(c) \/ monitor_write_fails(c)
    BY <1>1, <2>1 DEF monitor_passive_accept, monitor_write_fails, clientVars
  <2>2. ASSUME NEW n, monitor_write(c, n) PROVE TablesOK' /\ UNCHANGED Promise!rvars
    BY <1>1, <2>2 DEF monitor_write, clientVars
  <2>3. ASSUME NEW n, monitor_read(c, n) PROVE TablesOK' /\ Promise!RNext
    BY <2>3, PromiseRead DEF Promise!RNext
  <2> QED
    BY <1>4, <1>6, <2>1, <2>2, <2>3 DEF ServerNext
<1>7. CASE ServerStops
  <2>1. done' = [c \in Clients |-> TRUE] /\ req' = req /\ mixed' = {} /\ UNCHANGED tableVars
    BY <1>7 DEF ServerStops, clientVars
  <2>2. Pending' = [c \in Clients |-> NoRequest]
    BY <2>1 DEF Pending
  <2>3. TablesOK' /\ UNCHANGED <<UserSet(users), Range(admins), is_disector_on>>
    BY <2>1 DEF TablesOK, tableVars, UserSet
  <2>4. Promise!Stop
    BY <2>1, <2>2, <2>3 DEF Promise!Stop, Pending, UserSet
  <2> QED
    BY <2>3, <2>4 DEF Promise!RNext
<1>8. CASE UNCHANGED vars
  BY <1>1, <1>8 DEF vars, clientVars, serverVars
<1> QED
  BY <1>5, <1>6, <1>7, <1>8 DEF Next

(* main() leaves root and the users of the command line in the tables.     *)
LEMMA TablesInit == Init => TablesOK
<1> SUFFICES ASSUME Init PROVE TablesOK
  OBVIOUS
<1>1. users = StartUsers /\ admins = monitor_register_admin(<<>>, RootName, RootToken) /\ is_disector_on = TRUE
  BY DEF Init
<1>2. UsersOK(users)
  BY <1>1, StartAssumption DEF StartAssumption, UsersOK
<1>3. AdminStatus(<<>>, RootName, RootToken) = 0
  <2>1. MaxAdmins \in Nat /\ MaxAdmins > 0 /\ Len(RootToken) = TokenSize
    BY MonitorAssumption DEF MonitorAssumption
  <2> QED
    BY <2>1 DEF AdminStatus
<1>4. admins = <<Root>>
  BY <1>1, <1>3 DEF monitor_register_admin, Root
<1>5. Root \in Admins
  <2>1. RootName \in Seq(Nat) /\ RootToken \in Seq(Nat)
    BY StartAssumption, CharsType DEF StartAssumption
  <2> QED
    BY <2>1 DEF Root, Admins
<1>6. admins \in Seq(Admins) /\ Len(admins) = 1 /\ admins[1] = Root
  BY <1>4, <1>5
<1>7. 1 \in 1 .. MaxAdmins
  BY MonitorAssumption DEF MonitorAssumption
<1>8. AdminsOK(admins)
  BY <1>6, <1>7 DEF AdminsOK, Root
<1>9. is_disector_on \in BOOLEAN
  BY <1>1
<1> QED
  BY <1>2, <1>8, <1>9 DEF TablesOK

(* No parser is in use yet.                                                *)
LEMMA ParsersInit == Init => ParsersOK
<1> SUFFICES ASSUME Init PROVE ParsersOK
  OBVIOUS
<1>1. Statics \in StaticTypes
  BY DEF Init, Statics, StaticTypes
<1> QED
  BY <1>1 DEF Init, ParsersOK

MonitorInv == ConnOK /\ ParsersOK /\ TablesOK

(* Each parser is where the bytes of its request lead, up to what other    *)
(* connections did to the statics, and the tables are sound.               *)
THEOREM MonitorInvariant == Spec => []MonitorInv
<1>1. Init => MonitorInv
  BY ConnInit, ParsersInit, TablesInit DEF MonitorInv
<1>2. MonitorInv /\ [Next]_vars => MonitorInv'
  BY ConnStep, ParsersStep, PromiseStep DEF MonitorInv
<1> QED
  BY <1>1, <1>2, PTL DEF Spec

(* monitor_read and monitor_process carry out each request at most once,   *)
(* in one step, with the data its client sent and by the right of its      *)
(* token, however many clients there are and wherever recv() cuts.         *)
THEOREM MonitorImplementsRegistry == Spec => ImplementsRegistry
<1>1. Init => Promise!RInit
  <2> SUFFICES ASSUME Init PROVE Promise!RInit
    OBVIOUS
  <2>1. TablesOK
    BY TablesInit
  <2> DEFINE S == UserSet(users)
  <2>2. \A u, v \in S : u.uname = v.uname => u = v
    BY <2>1 DEF TablesOK, UsersOK, UserSet
  <2>3. Promise!IsFiniteSet(S) /\ Promise!Cardinality(S) <= MaxUsers
    <3>1. users.n \in Nat /\ users.n <= MaxUsers /\ MaxUsers \in Nat
      BY <2>1, MaxUsersAssumption DEF MaxUsersAssumption, TablesOK, UsersOK
    <3>2. IsFiniteSet(S) /\ Cardinality(S) <= users.n
      BY <3>1, SetSize DEF UserSet
    <3>3. Cardinality(S) <= MaxUsers
      BY <3>1, <3>2, FS_CardinalityType
    <3> QED
      BY <3>2, <3>3, SameSets
  <2>4. Range(admins) = {Root}
    <3>1. admins = <<Root>>
      BY MonitorAssumption DEF MonitorAssumption, Init, monitor_register_admin, AdminStatus, Root
    <3> QED
      BY <3>1 DEF Range
  <2>5. Pending = [c \in Clients |-> NoRequest]
    BY DEF Init, Pending
  <2>6. mixed = {} /\ is_disector_on \in BOOLEAN
    BY <2>1 DEF Init, TablesOK
  <2> HIDE DEF S
  <2> QED
    BY <2>2, <2>3, <2>4, <2>5, <2>6 DEF Promise!RInit, Root, Pending, S, UserSet
<1>2. MonitorInv /\ [Next]_vars => [Promise!RNext]_(Promise!rvars)
  BY PromiseStep DEF MonitorInv
<1> QED
  BY <1>1, <1>2, MonitorInvariant, PTL DEF Spec, ImplementsRegistry, Promise!RSpec

-----------------------------------------------------------------------------
(* The replies.                                                            *)

(* The client program reports t of the reply M to request r, whatever its  *)
(* buf held beyond it.                                                     *)
Reports(r, M, t) == \A fill \in {0, invalid_data} : process_response(r, M, fill) = t

(* The reply of c: what was received, what is on its way and what is left. *)
Reply(c) == buf[c] \o (line[c] \o wb[c])

ReplyTypes ==
  /\ \A v \in {wb, line, buf} : v \in [Clients -> Seq(Nat)]
  /\ pieces \in [Clients -> Nat]
  /\ DOMAIN truth = Clients /\ DOMAIN report = Clients

(* Before the answer there is nothing; a client that waits has printed     *)
(* nothing; and as long as no second piece was written over the first one, *)
(* the three parts make up a reply that says what the server did.          *)
ReplyOK(c) ==
  /\ srv[c] \in {"queued", "read"} => truth[c] = NoReport /\ pieces[c] = 0
  /\ srv[c] \in {"none", "queued", "read"} => buf[c] = <<>> /\ line[c] = <<>> /\ wb[c] = <<>>
  /\ srv[c] = "closed" => wb[c] = <<>>
  /\ req[c] # NoRequest => report[c] = NoReport
  /\ req[c] # NoRequest /\ pieces[c] = 0 => buf[c] = <<>>
  /\ req[c] # NoRequest /\ c \notin dead /\ truth[c] # NoReport /\ pieces[c] \in {0, 1} =>
       Reports(req[c], Reply(c), truth[c])
  /\ NoReport \notin {report[c], truth[c]} /\ pieces[c] = 1 => report[c] = truth[c]

ReportInv == MonitorInv /\ ReplyTypes /\ \A c \in Clients : ReplyOK(c)

(* A sequence cut in two.                                                  *)
LEMMA Halves ==
  ASSUME NEW w \in Seq(Nat), NEW n \in 1 .. Len(w)
  PROVE  /\ SubSeq(w, 1, n) \in Seq(Nat) /\ SubSeq(w, n + 1, Len(w)) \in Seq(Nat)
         /\ SubSeq(w, 1, n) \o SubSeq(w, n + 1, Len(w)) = w
<1> DEFINE u == SubSeq(w, 1, n)
           v == SubSeq(w, n + 1, Len(w))
           b == Len(w)
           z == u \o v
<1>1. b \in Nat /\ n \in Nat /\ n >= 1 /\ n <= b
  OBVIOUS
<1>2. u \in Seq(Nat) /\ Len(u) = n /\ \A i \in 1 .. n : u[i] = w[i]
  <2>1. \A i \in 1 .. n : w[i] \in Nat
    BY <1>1
  <2>2. /\ u \in Seq(Nat) /\ Len(u) = IF 1 <= n THEN n - 1 + 1 ELSE 0
        /\ \A i \in 1 .. n - 1 + 1 : u[i] = w[1 + i - 1]
    BY ONLY <1>1, <2>1, SubSeqProperties
  <2>3. n - 1 + 1 = n /\ \A i \in 1 .. n : 1 + i - 1 = i
    BY <1>1
  <2> HIDE DEF u
  <2> QED
    BY <1>1, <2>2, <2>3
<1>3. v \in Seq(Nat) /\ Len(v) = b - n /\ \A i \in 1 .. b - n : v[i] = w[n + i]
  <2> DEFINE c == n + 1
  <2>1. c \in Int /\ b \in Int /\ \A i \in c .. b : w[i] \in Nat
    BY <1>1
  <2>2. /\ b - c + 1 = b - n /\ (IF c <= b THEN b - c + 1 ELSE 0) = b - n
        /\ \A i \in 1 .. b - n : c + i - 1 = n + i
    BY <1>1
  <2>3. v = SubSeq(w, c, b)
    OBVIOUS
  <2> HIDE DEF b, c, v
  <2>4. /\ v \in Seq(Nat) /\ Len(v) = IF c <= b THEN b - c + 1 ELSE 0
        /\ \A i \in 1 .. b - c + 1 : v[i] = w[c + i - 1]
    BY ONLY <2>1, <2>3, SubSeqProperties
  <2> QED
    BY <2>2, <2>4
<1> HIDE DEF u, v
<1>4. /\ z \in Seq(Nat) /\ Len(z) = Len(u) + Len(v)
      /\ \A k \in 1 .. Len(u) : z[k] = u[k]
      /\ \A k \in 1 .. Len(v) : z[Len(u) + k] = v[k]
  <2>1. u \in Seq(Nat) /\ v \in Seq(Nat)
    BY <1>2, <1>3
  <2> QED
    BY ONLY <2>1, Joined
<1> HIDE DEF z
<1>5. Len(z) = b
  BY <1>1, <1>2, <1>3, <1>4
<1>6. ASSUME NEW i \in 1 .. b PROVE z[i] = w[i]
  <2>1. CASE i <= n
    BY <1>1, <1>2, <1>4, <2>1, SMTT(30)
  <2>2. CASE i > n
    <3>1. PICK k \in 1 .. b - n : i = n + k
      <4>1. i - n \in 1 .. b - n /\ i = n + (i - n)
        BY <1>1, <2>2
      <4> QED
        BY <4>1
    <3> QED
      BY <1>2, <1>3, <1>4, <3>1
  <2> QED
    BY <1>1, <2>1, <2>2
<1> HIDE DEF b
<1>7. z = w
  BY <1>4, <1>5, <1>6, SeqEqual DEF b
<1> QED
  BY <1>2, <1>3, <1>7 DEF u, v, z

(* Three parts in either order of joining.                                 *)
LEMMA Assoc ==
  ASSUME NEW s \in Seq(Nat), NEW t \in Seq(Nat), NEW u \in Seq(Nat)
  PROVE  (s \o t) \o u = s \o (t \o u)
BY ConcatAssociative, SMTT(30)

(* send() moves a part of the reply: the whole stays the same.             *)
LEMMA ReplyMoves ==
  ASSUME NEW b \in Seq(Nat), NEW l \in Seq(Nat), NEW w \in Seq(Nat), NEW n \in 1 .. Len(w)
  PROVE  /\ l \o SubSeq(w, 1, n) \in Seq(Nat) /\ SubSeq(w, n + 1, Len(w)) \in Seq(Nat)
         /\ b \o ((l \o SubSeq(w, 1, n)) \o SubSeq(w, n + 1, Len(w))) = b \o (l \o w)
<1> DEFINE u == SubSeq(w, 1, n)
           v == SubSeq(w, n + 1, Len(w))
<1>1. u \in Seq(Nat) /\ v \in Seq(Nat) /\ u \o v = w
  BY Halves
<1> HIDE DEF u, v
<1>2. l \o u \in Seq(Nat)
  BY <1>1, Joined
<1>3. (l \o u) \o v = l \o w
  <2>1. (l \o u) \o v = l \o (u \o v)
    BY <1>1, Assoc, ZenonT(60)
  <2> QED
    BY <1>1, <2>1
<1> QED
  BY <1>1, <1>2, <1>3 DEF u, v

(* So does the first recv() of it.                                         *)
LEMMA ReplyArrives ==
  ASSUME NEW l \in Seq(Nat), NEW w \in Seq(Nat), NEW n \in 1 .. Len(l)
  PROVE  SubSeq(l, 1, n) \o (SubSeq(l, n + 1, Len(l)) \o w) = <<>> \o (l \o w)
<1> DEFINE u == SubSeq(l, 1, n)
           v == SubSeq(l, n + 1, Len(l))
<1>1. u \in Seq(Nat) /\ v \in Seq(Nat) /\ u \o v = l
  BY Halves
<1> HIDE DEF u, v
<1>2. u \o (v \o w) = l \o w
  <2>1. (u \o v) \o w = u \o (v \o w)
    BY <1>1, Assoc, ZenonT(60)
  <2> QED
    BY <1>1, <2>1
<1>3. l \o w \in Seq(Nat)
  BY Joined
<1>4. <<>> \o (l \o w) = l \o w
  BY <1>3, ConcatEmptySeq
<1> QED
  BY <1>2, <1>4 DEF u, v

(* The list of names after the k-th, in the loops of socksv5_get_users and *)
(* monitor_get_admins.                                                     *)
ListAt(names, f, k) ==
  IF k = 0 THEN <<>>
  ELSE IF k = 1 THEN names[k]
  ELSE f[k - 1] \o <<0>> \o names[k]

Lists(names, m, f) == f = [k \in 0 .. m |-> ListAt(names, f, k)]

(* The recursive function of NameList exists.                              *)
LEMMA ListExists ==
  ASSUME NEW names, NEW L \in Nat
  PROVE  \E f : Lists(names, L, f)
<1> DEFINE bad == {m \in Nat : ~\E f : Lists(names, m, f)}
<1>1. SUFFICES ASSUME bad # {} PROVE FALSE
  OBVIOUS
<1>2. PICK m \in bad : \A y \in bad : m <= y
  <2>1. bad \in SUBSET Nat
    OBVIOUS
  <2> HIDE DEF bad
  <2> QED
    BY <1>1, <2>1, LeastExists
<1>3. m # 0
  <2>1. SUFFICES ASSUME m = 0 PROVE \E f : Lists(names, 0, f)
    OBVIOUS
  <2> DEFINE g == [k \in 0 .. 0 |-> <<>>]
  <2>2. \A k \in 0 .. 0 : ListAt(names, g, k) = <<>>
    BY DEF ListAt
  <2>3. Lists(names, 0, g)
    BY <2>2 DEF Lists
  <2> QED
    BY <2>3
<1>4. m - 1 \in Nat /\ m - 1 \notin bad
  BY <1>2, <1>3
<1>5. PICK g : Lists(names, m - 1, g)
  BY <1>4
<1> DEFINE h == [k \in 0 .. m |-> IF k < m THEN g[k] ELSE ListAt(names, g, m)]
<1>6. ASSUME NEW k \in 0 .. m PROVE h[k] = ListAt(names, h, k)
  <2>1. k > 0 => h[k - 1] = g[k - 1]
    OBVIOUS
  <2>2. ListAt(names, h, k) = ListAt(names, g, k)
    <3> HIDE DEF h
    <3> QED
      BY <2>1 DEF ListAt
  <2>3. CASE k < m
    <3>1. k \in 0 .. m - 1
      BY <1>4, <2>3
    <3>2. g[k] = ListAt(names, g, k)
      BY <1>5, <3>1 DEF Lists
    <3> QED
      BY <2>2, <2>3, <3>2
  <2>4. CASE k = m
    BY <2>2, <2>4
  <2> QED
    BY <2>3, <2>4
<1>7. Lists(names, m, h)
  <2>1. h = [k \in 0 .. m |-> h[k]]
    OBVIOUS
  <2> HIDE DEF h
  <2> QED
    BY <1>6, <2>1 DEF Lists
<1> QED
  BY <1>7

(* A list of names is made of bytes.                                       *)
LEMMA NameListType ==
  ASSUME NEW names, Len(names) \in Nat, \A k \in 1 .. Len(names) : names[k] \in Seq(Nat)
  PROVE  NameList(names) \in Seq(Nat)
<1> DEFINE L == Len(names)
           list == CHOOSE f : f = [k \in 0 .. L |-> ListAt(names, f, k)]
           bad == {k \in 0 .. L : list[k] \notin Seq(Nat)}
<1>1. list = [k \in 0 .. L |-> ListAt(names, list, k)]
  <2>1. PICK f : Lists(names, L, f)
    BY ListExists
  <2>2. f = [k \in 0 .. L |-> ListAt(names, f, k)]
    BY <2>1 DEF Lists
  <2> QED
    BY <2>2
<1>2. NameList(names) = list[L]
  BY DEF NameList, ListAt
<1>3. L \in Nat
  OBVIOUS
<1> HIDE DEF list
<1>4. bad = {}
  <2>1. SUFFICES ASSUME bad # {} PROVE FALSE
    OBVIOUS
  <2>2. PICK m \in bad : \A y \in bad : m <= y
    <3>1. bad \in SUBSET Nat
      BY <1>3
    <3> HIDE DEF bad
    <3> QED
      BY <2>1, <3>1, LeastExists
  <2>3. m \in 0 .. L /\ list[m] = ListAt(names, list, m) /\ list[m] \notin Seq(Nat)
    <3>1. m \in 0 .. L /\ list[m] \notin Seq(Nat)
      OBVIOUS
    <3>2. list[m] = ListAt(names, list, m)
      BY <1>1, <3>1, Zenon
    <3> QED
      BY <3>1, <3>2
  <2>4. m # 0
    BY <2>3 DEF ListAt
  <2>5. m - 1 \in 0 .. L /\ m - 1 \notin bad /\ m \in 1 .. L
    BY <1>3, <2>2, <2>3, <2>4
  <2> DEFINE o == list[m - 1]
             e == names[m]
  <2>6. o \in Seq(Nat) /\ e \in Seq(Nat)
    BY <2>5
  <2>7. list[m] = e \/ list[m] = (o \o <<0>>) \o e
    BY <2>3, <2>4 DEF ListAt
  <2> HIDE DEF o, e
  <2>8. (o \o <<0>>) \o e \in Seq(Nat)
    <3>1. <<0>> \in Seq(Nat)
      OBVIOUS
    <3>2. o \o <<0>> \in Seq(Nat)
      BY <2>6, <3>1, Joined, Zenon
    <3> QED
      BY <2>6, <3>2, Joined, Zenon
  <2> QED
    BY <2>3, <2>6, <2>7, <2>8
<1> QED
  BY <1>2, <1>3, <1>4

(* The part of a reply that is its data.                                   *)
LEMMA DataOfReply ==
  ASSUME NEW a \in Seq(Nat), NEW d \in Seq(Nat), 3 + Len(d) <= Len(a),
         \A k \in 1 .. Len(d) : a[3 + k] = d[k]
  PROVE  SubSeq(a, 4, 3 + Len(d)) = d
<1> DEFINE n == Len(d)
           z == SubSeq(a, 4, 3 + n)
           m == 3 + n
<1>1. n \in Nat /\ Len(a) \in Nat /\ m \in Nat /\ m <= Len(a)
  OBVIOUS
<1>2. \A i \in 4 .. m : a[i] \in Nat
  BY <1>1
<1>3. z = SubSeq(a, 4, m)
  OBVIOUS
<1> HIDE DEF z
<1>4. /\ z \in Seq(Nat) /\ Len(z) = IF 4 <= m THEN m - 4 + 1 ELSE 0
      /\ \A i \in 1 .. m - 4 + 1 : z[i] = a[4 + i - 1]
  <2> HIDE DEF m
  <2>1. 4 \in Int /\ m \in Int
    BY <1>1
  <2> QED
    BY ONLY <1>2, <1>3, <2>1, SubSeqProperties
<1>5. m - 4 + 1 = n /\ (IF 4 <= m THEN m - 4 + 1 ELSE 0) = n /\ \A i \in 1 .. n : 4 + i - 1 = 3 + i
  BY <1>1
<1> HIDE DEF m
<1>6. Len(z) = n /\ \A i \in 1 .. n : z[i] = a[3 + i]
  BY <1>4, <1>5
<1>7. \A i \in 1 .. n : z[i] = d[i]
  BY <1>6
<1>8. z = d
  BY <1>4, <1>6, <1>7, SeqEqual
<1> QED
  BY <1>8 DEF z

(* What a reply with status st and data d consists of.                     *)
ReplyLaid(M, st, d) ==
  /\ M \in Seq(Nat) /\ Len(M) = 3 + Len(d) /\ M[1] = st
  /\ M[2] * Radix + M[3] = Len(d)
  /\ \A k \in 1 .. Len(d) : M[3 + k] = d[k]

(* monitor_marshall lays it out.                                           *)
LEMMA Marshalled ==
  ASSUME NEW st \in Nat, NEW d \in Seq(Nat)
  PROVE  ReplyLaid(monitor_marshall(st, d), st, d)
<1> DEFINE n == Len(d)
           a == n \div Radix
           b == n % Radix
           h == <<st>>
           l == <<a, b>>
           x == h \o l
           M == x \o d
<1>1. n \in Nat
  OBVIOUS
<1> HIDE DEF n
<1>2. a \in Nat /\ b \in Nat /\ a * Radix + b = n
  BY <1>1, TwoBytesOf
<1>3. monitor_marshall(st, d) = M
  BY DEF monitor_marshall, TwoBytes, n
<1> HIDE DEF a, b
<1>4. h \in Seq(Nat) /\ Len(h) = 1 /\ h[1] = st
  OBVIOUS
<1>5. l \in Seq(Nat) /\ Len(l) = 2 /\ l[1] = a /\ l[2] = b
  BY <1>2
<1> HIDE DEF h, l
<1>6. x \in Seq(Nat) /\ Len(x) = 3 /\ x[1] = st /\ x[2] = a /\ x[3] = b
  <2>1. /\ x \in Seq(Nat) /\ Len(x) = Len(h) + Len(l)
        /\ \A k \in 1 .. Len(h) : x[k] = h[k]
        /\ \A k \in 1 .. Len(l) : x[Len(h) + k] = l[k]
    <3>1. h \in Seq(Nat) /\ l \in Seq(Nat)
      BY <1>4, <1>5
    <3> QED
      BY ONLY <3>1, Joined
  <2> HIDE DEF x
  <2>2. 1 \in 1 .. 1 /\ 1 \in 1 .. 2 /\ 2 \in 1 .. 2 /\ 1 + 1 = 2 /\ 1 + 2 = 3
    OBVIOUS
  <2> QED
    BY <1>4, <1>5, <2>1, <2>2
<1> HIDE DEF x
<1>7. /\ M \in Seq(Nat) /\ Len(M) = 3 + n
      /\ \A k \in 1 .. 3 : M[k] = x[k]
      /\ \A k \in 1 .. n : M[3 + k] = d[k]
  <2>1. /\ M \in Seq(Nat) /\ Len(M) = Len(x) + Len(d)
        /\ \A k \in 1 .. Len(x) : M[k] = x[k]
        /\ \A k \in 1 .. Len(d) : M[Len(x) + k] = d[k]
    <3>1. x \in Seq(Nat) /\ d \in Seq(Nat)
      BY <1>6
    <3> QED
      BY ONLY <3>1, Joined
  <2> HIDE DEF M
  <2> QED
    BY <1>6, <2>1 DEF n
<1> HIDE DEF M
<1>8. M[1] = st /\ M[2] = a /\ M[3] = b
  BY <1>6, <1>7
<1>9. ReplyLaid(M, st, d)
  BY <1>2, <1>7, <1>8 DEF ReplyLaid, n
<1> QED
  BY <1>3, <1>9

(* The targets whose data are a number of four bytes.                      *)
Numbers == {"historic", "concurrent", "transfered"}

(* A reply of the server is reported as what it says: the status, and the  *)
(* data if it is a GET that succeeded.                                     *)
LEMMA ReplyReported ==
  ASSUME NEW r, NEW st \in Nat, NEW d \in Seq(Nat), NEW M, ReplyLaid(M, st, d),
         st = succeeded /\ r.cmd \in Numbers => Len(d) = 4
  PROVE  Reports(r, M, [status |-> st,
                        shown  |-> IF st = succeeded /\ r.cmd \in Range(GetTargets) THEN d ELSE <<>>])
<1> SUFFICES ASSUME NEW fill \in {0, invalid_data}
             PROVE  process_response(r, M, fill) =
                      [status |-> st,
                       shown  |-> IF st = succeeded /\ r.cmd \in Range(GetTargets) THEN d ELSE <<>>]
  BY DEF Reports
<1> DEFINE F == [k \in 1 .. 7 |-> fill]
           a == M \o F
           n == Len(d)
<1>1. F \in Seq(Nat) /\ Len(F) = 7
  BY DEF invalid_data
<1> HIDE DEF F
<1>2. n \in Nat /\ M \in Seq(Nat) /\ Len(M) = 3 + n /\ M[1] = st /\ M[2] * Radix + M[3] = n
      /\ \A k \in 1 .. n : M[3 + k] = d[k]
  BY DEF ReplyLaid
<1>3. a \in Seq(Nat) /\ Len(a) = Len(M) + Len(F) /\ \A k \in 1 .. Len(M) : a[k] = M[k]
  <2>1. M \in Seq(Nat) /\ F \in Seq(Nat)
    BY <1>1, <1>2
  <2> QED
    BY ONLY <2>1, Joined
<1> HIDE DEF a
<1>4. /\ Len(a) = n + 10 /\ a[1] = st /\ a[2] = M[2] /\ a[3] = M[3]
      /\ \A k \in 1 .. n : a[3 + k] = d[k]
  <2> HIDE DEF n
  <2>1. Len(a) = n + 10
    BY <1>1, <1>2, <1>3
  <2>2. a[1] = st /\ a[2] = M[2] /\ a[3] = M[3]
    BY <1>2, <1>3
  <2>3. ASSUME NEW k \in 1 .. n PROVE a[3 + k] = d[k]
    <3>1. 3 + k \in 1 .. Len(M)
      BY <1>2
    <3> QED
      BY <1>2, <1>3, <3>1
  <2> QED
    BY <2>1, <2>2, <2>3
<1>5. process_response(r, M, fill) = [status |-> a[1],
                                      shown |-> IF a[1] = succeeded THEN Shown(r, a) ELSE <<>>]
  BY DEF process_response, a, F
<1>6. SubSeq(a, 4, 3 + n) = d
  <2>1. 3 + n <= Len(a)
    BY <1>2, <1>4
  <2> QED
    BY <1>2, <1>3, <1>4, <2>1, DataOfReply
<1>7. Range(GetTargets) = Numbers \cup {"proxyusers", "adminusers"}
  BY TargetRanges DEF Numbers
<1>8. ASSUME st = succeeded PROVE Shown(r, a) = IF r.cmd \in Range(GetTargets) THEN d ELSE <<>>
  <2>1. CASE r.cmd \in Numbers
    <3>1. 3 + n = 7
      <4>1. n = 4
        BY <1>8, <2>1, Zenon
      <4> HIDE DEF n
      <4> QED
        BY <4>1
    <3>2. Shown(r, a) = SubSeq(a, 4, 7)
      BY <2>1 DEF Shown, Numbers
    <3> QED
      BY <1>6, <1>7, <2>1, <3>1, <3>2
  <2>2. CASE r.cmd \in {"proxyusers", "adminusers"}
    <3> DEFINE e == 3 + a[2] * Radix + a[3]
    <3>1. Shown(r, a) = SubSeq(a, 4, IF e <= Len(a) THEN e ELSE Len(a))
      BY <2>2 DEF Shown
    <3>2. e = 3 + n /\ e <= Len(a)
      <4>1. a[2] * Radix + a[3] = n
        BY <1>2, <1>4
      <4>2. a[2] * Radix \in Int /\ a[3] \in Int
        <5>1. 2 \in 1 .. Len(a) /\ 3 \in 1 .. Len(a) /\ Radix \in Nat
          BY <1>2, <1>4, MonitorAssumption DEF MonitorAssumption
        <5>2. a[2] \in Nat /\ a[3] \in Nat
          BY ONLY <1>3, <5>1
        <5> QED
          BY <5>1, <5>2
      <4> DEFINE x == a[2] * Radix
                 y == a[3]
      <4>3. x + y = n /\ x \in Int /\ y \in Int /\ Len(a) = n + 10 /\ e = 3 + x + y /\ n \in Nat
        BY <1>2, <1>4, <4>1, <4>2
      <4> HIDE DEF x, y, e, n
      <4> QED
        BY ONLY <4>3
    <3> HIDE DEF e
    <3> QED
      BY <1>6, <1>7, <2>2, <3>1, <3>2
  <2>3. CASE r.cmd \notin Range(GetTargets)
    BY <1>7, <2>3 DEF Shown, Numbers
  <2> QED
    BY <1>7, <2>1, <2>2, <2>3
<1> QED
  BY <1>4, <1>5, <1>8

(* A table is changed exactly if the function that should change it        *)
(* returns 0: its size changes.                                            *)
LEMMA UsersChange ==
  ASSUME NEW t, UsersOK(t), NEW name, NEW pass
  PROVE  /\ socksv5_register_user(t, name, pass) = t <=> RegisterStatus(t, name) # 0
         /\ socksv5_unregister_user(t, name) = t <=> Position(t, name) = {}
<1>1. t.n \in Nat
  BY MaxUsersAssumption DEF MaxUsersAssumption, UsersOK
<1>2. ASSUME RegisterStatus(t, name) = 0 PROVE socksv5_register_user(t, name, pass) # t
  <2> DEFINE u == socksv5_register_user(t, name, pass)
  <2>1. u.n = t.n + 1
    BY <1>2 DEF socksv5_register_user
  <2> HIDE DEF u
  <2>2. u # t
    BY <1>1, <2>1
  <2> QED
    BY <2>2 DEF u
<1>3. ASSUME Position(t, name) # {} PROVE socksv5_unregister_user(t, name) # t
  <2> DEFINE u == socksv5_unregister_user(t, name)
  <2>1. u.n = t.n - 1
    BY <1>3 DEF socksv5_unregister_user
  <2> HIDE DEF u
  <2>2. u # t
    BY <1>1, <2>1
  <2> QED
    BY <2>2 DEF u
<1> QED
  BY <1>2, <1>3 DEF socksv5_register_user, socksv5_unregister_user

(* The same for the administrators.                                        *)
LEMMA AdminsChange ==
  ASSUME NEW tab, AdminsOK(tab), NEW name \in Seq(Nat), NEW tok \in Seq(Nat)
  PROVE  /\ monitor_register_admin(tab, name, tok) = tab <=> AdminStatus(tab, name, tok) # 0
         /\ monitor_unregister_admin(tab, name) = tab <=> RemovableAdmin(tab, name) = {}
<1>1. tab \in Seq(Admins) /\ Len(tab) \in Nat /\ Len(tab) >= 1
  BY DEF AdminsOK
<1>2. ASSUME AdminStatus(tab, name, tok) = 0 PROVE monitor_register_admin(tab, name, tok) # tab
  <2> DEFINE e == [uname |-> IF tab = <<>> THEN RootName ELSE name, token |-> tok]
  <2>1. monitor_register_admin(tab, name, tok) = Append(tab, e)
    BY <1>2 DEF monitor_register_admin
  <2> HIDE DEF e
  <2>2. Len(Append(tab, e)) = Len(tab) + 1
    BY <1>1
  <2> QED
    BY <1>1, <2>1, <2>2
<1>3. ASSUME RemovableAdmin(tab, name) # {} PROVE monitor_unregister_admin(tab, name) # tab
  <2> DEFINE u == monitor_unregister_admin(tab, name)
             gone == Min(RemovableAdmin(tab, name))
  <2>1. u = RemoveAt(tab, gone)
    BY <1>3 DEF monitor_unregister_admin
  <2>2. gone \in 1 .. Len(tab)
    <3>1. RemovableAdmin(tab, name) \in SUBSET Nat
      BY <1>1 DEF RemovableAdmin
    <3>2. gone \in RemovableAdmin(tab, name)
      BY <1>3, <3>1, MinOf
    <3> HIDE DEF gone
    <3>3. gone \in 2 .. Len(tab)
      BY <3>2 DEF RemovableAdmin
    <3> QED
      BY <1>1, <3>3
  <2> HIDE DEF u, gone
  <2>3. PICK n : n = Len(tab)
    OBVIOUS
  <2>4. Len(u) = n - 1
    <3>1. tab \in Seq(Admins)
      BY <1>1
    <3> QED
      BY ONLY <2>1, <2>2, <2>3, <3>1, RemovedAt
  <2>5. u # tab
    BY <1>1, <2>3, <2>4
  <2> QED
    BY <2>5 DEF u
<1> QED
  BY <1>2, <1>3 DEF monitor_register_admin, monitor_unregister_admin

(* The status says whether a table changed.                                *)
LEMMA StatusTrue ==
  ASSUME TablesOK, NEW p \in ParserTypes, monitor_is_admin(p.token), p.method = Config,
         p.target \in Changes, ProcessTables(p)
  PROVE  (p.target # "disector" /\ UNCHANGED <<users, admins>>) <=> error_response(p) # 0
<1>1. /\ users' = CASE p.target = "add_user" -> socksv5_register_user(users, Name(p), Secret(p))
                    [] p.target = "del_user" -> socksv5_unregister_user(users, Name(p))
                    [] OTHER                 -> users
      /\ admins' = CASE p.target = "add_admin" ->
                          monitor_register_admin(admins, Name(p), Secret(p))
                     [] p.target = "del_admin" -> monitor_unregister_admin(admins, Name(p))
                     [] OTHER                  -> admins
  BY DEF ProcessTables, Get, Config
<1>2. Name(p) \in Seq(Nat) /\ Secret(p) \in Seq(Nat)
  <2>1. p.user \in Seq(Nat) /\ p.extra \in Seq(Nat)
    BY DEF ParserTypes
  <2> QED
    BY <2>1, CStrType DEF Name, Secret
<1>3. UsersOK(users) /\ AdminsOK(admins)
  BY DEF TablesOK
<1>4. CASE p.target = "add_user"
  <2>1. users' = socksv5_register_user(users, Name(p), Secret(p)) /\ admins' = admins
    BY ONLY <1>1, <1>4
  <2>2. error_response(p) = RegisterStatus(users, Name(p))
    BY <1>4 DEF error_response
  <2> QED
    BY <1>3, <1>4, <2>1, <2>2, UsersChange
<1>5. CASE p.target = "del_user"
  <2>1. users' = socksv5_unregister_user(users, Name(p)) /\ admins' = admins
    BY ONLY <1>1, <1>5
  <2>2. error_response(p) = IF Position(users, Name(p)) = {} THEN -1 ELSE 0
    BY <1>5 DEF error_response
  <2> QED
    BY <1>3, <1>5, <2>1, <2>2, UsersChange
<1>6. CASE p.target = "add_admin"
  <2>1. admins' = monitor_register_admin(admins, Name(p), Secret(p)) /\ users' = users
    BY ONLY <1>1, <1>6
  <2>2. error_response(p) = AdminStatus(admins, Name(p), Secret(p))
    BY <1>6 DEF error_response
  <2> QED
    BY <1>2, <1>3, <1>6, <2>1, <2>2, AdminsChange
<1>7. CASE p.target = "del_admin"
  <2>1. admins' = monitor_unregister_admin(admins, Name(p)) /\ users' = users
    BY ONLY <1>1, <1>7
  <2>2. error_response(p) = IF RemovableAdmin(admins, Name(p)) = {} THEN -1 ELSE 0
    BY <1>7 DEF error_response
  <2> QED
    BY <1>2, <1>3, <1>7, <2>1, <2>2, AdminsChange
<1>8. CASE p.target = "disector"
  <2>1. error_response(p) = 0
    BY <1>8 DEF error_response
  <2> QED
    BY <1>8, <2>1
<1> QED
  BY <1>4, <1>5, <1>6, <1>7, <1>8 DEF Changes, Adds, Dels

(* The data of a reply.                                                    *)
LEMMA ProcessDataType ==
  ASSUME TablesOK, NEW p, NEW d \in ProcessData(p)
  PROVE  /\ d \in Seq(Nat)
         /\ monitor_is_admin(p.token) /\ p.method # Config /\ p.target \in Numbers => Len(d) = 4
<1>1. CASE ~monitor_is_admin(p.token) \/ p.method = Config
  <2>1. d = <<0>>
    BY <1>1 DEF ProcessData
  <2> QED
    BY <1>1, <2>1
<1>2. CASE monitor_is_admin(p.token) /\ p.method # Config /\ p.target = "proxyusers"
  <2> DEFINE names == [i \in 1 .. users.n |-> users.slot[i].uname]
  <2>1. d = NameList(names)
    BY <1>2 DEF ProcessData, socksv5_get_users
  <2>2. users.n \in Nat /\ \A i \in 1 .. users.n : users.slot[i].uname \in Seq(Nat)
    BY MaxUsersAssumption DEF MaxUsersAssumption, TablesOK, UsersOK
  <2>3. Len(names) = users.n /\ \A k \in 1 .. users.n : names[k] \in Seq(Nat)
    <3>1. \A k \in 1 .. users.n : names[k] \in Seq(Nat)
      BY <2>2
    <3>2. DOMAIN names = 1 .. users.n
      OBVIOUS
    <3>3. Len(names) = users.n
      BY <2>2, <3>2
    <3> QED
      BY <3>1, <3>3
  <2> HIDE DEF names
  <2>4. NameList(names) \in Seq(Nat)
    BY <2>2, <2>3, NameListType
  <2> QED
    BY <1>2, <2>1, <2>4 DEF Numbers
<1>3. CASE monitor_is_admin(p.token) /\ p.method # Config /\ p.target = "adminusers"
  <2> DEFINE names == [i \in DOMAIN admins |-> admins[i].uname]
  <2>1. d = NameList(names)
    BY <1>3 DEF ProcessData, monitor_get_admins
  <2>2. admins \in Seq(Admins) /\ Len(admins) \in Nat /\ DOMAIN admins = 1 .. Len(admins)
    BY DEF TablesOK, AdminsOK
  <2>3. Len(names) = Len(admins) /\ \A k \in 1 .. Len(admins) : names[k] \in Seq(Nat)
    <3>1. \A k \in 1 .. Len(admins) : admins[k] \in Admins
      BY <2>2
    <3>2. \A k \in 1 .. Len(admins) : names[k] \in Seq(Nat)
      BY <2>2, <3>1 DEF Admins
    <3>3. DOMAIN names = 1 .. Len(admins)
      BY <2>2
    <3>4. Len(names) = Len(admins)
      <4> HIDE DEF names
      <4>1. names = [i \in DOMAIN admins |-> admins[i].uname]
        BY DEF names
      <4> QED
        BY <2>2, <3>3, <4>1
    <3> QED
      BY <3>2, <3>4
  <2> HIDE DEF names
  <2>4. NameList(names) \in Seq(Nat)
    BY <2>2, <2>3, NameListType
  <2> QED
    BY <1>3, <2>1, <2>4 DEF Numbers
<1>4. CASE /\ monitor_is_admin(p.token) /\ p.method # Config
           /\ p.target \notin {"proxyusers", "adminusers"}
  <2>1. PICK v \in Stats : d = <<0, 0, 0, v>>
    BY <1>4 DEF ProcessData
  <2>2. v \in Nat
    BY MonitorAssumption DEF MonitorAssumption
  <2> QED
    BY <2>1, <2>2
<1> QED
  BY <1>1, <1>2, <1>3, <1>4

(* The reply that monitor_read prepares is reported as what it did.        *)
LEMMA AnswerTrue ==
  ASSUME TablesOK, NEW c \in Clients, NEW r, IsRequest(r), NEW p, NEW s, NEW at, NEW mx,
         ParserIs(r, p, s, at, mx), monitor_is_done(p), Answer(c, p)
  PROVE  \E M \in Seq(Nat) : \E t : /\ wb' = [wb EXCEPT ![c] = M]
                                     /\ truth' = [truth EXCEPT ![c] = t]
                                     /\ Reports(r, M, t)
<1>0. p \in ParserTypes
  BY DEF ParserIs
<1>1. CASE p.state # "done"
  <2> DEFINE st == CASE p.state = "unsupported_version" -> 1
                     [] p.state = "unsupported_method"  -> 2
                     [] p.state = "unsupported_target"  -> 3
                     [] p.state = "invalid_data"        -> invalid_data
             M == monitor_error_marshall(p)
             t == [status |-> Head(M), shown |-> <<>>]
  <2>1. st \in {1, 2, 3, 4}
    <3>1. p.state \in {"unsupported_version", "unsupported_method", "unsupported_target", "invalid_data"}
      BY <1>0, <1>1 DEF monitor_is_done, ParserTypes
    <3> QED
      BY <3>1 DEF invalid_data
  <2>2. M = monitor_marshall(st, <<0>>)
    BY DEF monitor_error_marshall
  <2>3. wb' = [wb EXCEPT ![c] = M] /\ truth' = [truth EXCEPT ![c] = t]
    BY <1>1 DEF Answer
  <2> HIDE DEF st, M
  <2>4. st \in Nat /\ st # succeeded /\ <<0>> \in Seq(Nat)
    BY <2>1 DEF succeeded
  <2>5. ReplyLaid(M, st, <<0>>)
    BY <2>2, <2>4, Marshalled
  <2>6. Head(M) = st /\ M \in Seq(Nat)
    BY <2>5 DEF ReplyLaid
  <2>7. t = [status |-> st, shown |-> IF st = succeeded /\ r.cmd \in Range(GetTargets) THEN <<0>> ELSE <<>>]
    BY <2>4, <2>6
  <2>8. Reports(r, M, t)
    BY <2>4, <2>5, <2>7, ReplyReported
  <2> HIDE DEF t
  <2> QED
    BY <2>3, <2>6, <2>8
<1>2. CASE p.state = "done"
  <2>1. PICK d \in ProcessData(p) :
          /\ wb' = [wb EXCEPT ![c] = monitor_marshall(ProcessStatus(p), d)]
          /\ truth' = [truth EXCEPT ![c] =
               [status |-> IF ~monitor_is_admin(p.token) THEN error_auth
                           ELSE IF p.method = Config /\ p.target # "disector"
                                   /\ UNCHANGED <<users, admins>>
                           THEN invalid_data ELSE succeeded,
                shown  |-> IF monitor_is_admin(p.token) /\ p.method = Get THEN d ELSE <<>>]]
    BY <1>2 DEF Answer
  <2>2. ProcessTables(p)
    BY <1>2 DEF Answer
  <2>3. /\ p.method \in {Get, Config} /\ p.target = r.cmd
        /\ p.method = Get => r.cmd \in Range(GetTargets)
        /\ p.method = Config => r.cmd \in Changes
    BY <1>2 DEF ParserIs
  <2>4. Range(GetTargets) = Numbers \cup {"proxyusers", "adminusers"} /\ Range(GetTargets) \cap Changes = {}
    BY TargetRanges DEF Numbers, Changes, Adds, Dels
  <2> DEFINE st == ProcessStatus(p)
             M == monitor_marshall(st, d)
             said == IF ~monitor_is_admin(p.token) THEN error_auth
                     ELSE IF p.method = Config /\ p.target # "disector" /\ UNCHANGED <<users, admins>>
                     THEN invalid_data ELSE succeeded
             shown == IF monitor_is_admin(p.token) /\ p.method = Get THEN d ELSE <<>>
  <2>5. p.method = Get => error_response(p) = 0
    BY <2>3, <2>4 DEF error_response, Changes, Adds, Dels
  <2>6. said = st
    <3>1. CASE ~monitor_is_admin(p.token)
      BY <3>1 DEF ProcessStatus
    <3>2. CASE monitor_is_admin(p.token) /\ p.method = Get
      BY <2>5, <3>2 DEF ProcessStatus, Get, Config
    <3>3. CASE monitor_is_admin(p.token) /\ p.method = Config
      <4>1. (p.target # "disector" /\ UNCHANGED <<users, admins>>) <=> error_response(p) # 0
        BY <1>0, <2>2, <2>3, <3>3, StatusTrue
      <4>2. said = IF p.target # "disector" /\ UNCHANGED <<users, admins>> THEN invalid_data ELSE succeeded
        BY <3>3, Zenon
      <4>3. st = IF error_response(p) # 0 THEN invalid_data ELSE succeeded
        BY <3>3 DEF ProcessStatus
      <4> QED
        BY ONLY <4>1, <4>2, <4>3, Zenon
    <3> QED
      BY <2>3, <3>1, <3>2, <3>3
  <2>7. st \in Nat /\ (st = succeeded => monitor_is_admin(p.token))
    BY DEF ProcessStatus, error_auth, invalid_data, succeeded
  <2>8. monitor_is_admin(p.token) /\ p.method = Get => st = succeeded
    BY <2>5 DEF ProcessStatus
  <2>9. shown = IF st = succeeded /\ r.cmd \in Range(GetTargets) THEN d ELSE <<>>
    BY <2>3, <2>4, <2>7, <2>8
  <2>10. d \in Seq(Nat) /\ (st = succeeded /\ r.cmd \in Numbers => Len(d) = 4)
    <3>1. p.target \in Numbers => p.method # Config
      BY <2>3, <2>4
    <3> QED
      BY <2>3, <2>7, <3>1, ProcessDataType
  <2>11. /\ wb' = [wb EXCEPT ![c] = M]
         /\ truth' = [truth EXCEPT ![c] = [status |-> said, shown |-> shown]]
    BY <2>1
  <2> HIDE DEF st, said, shown
  <2>12. ReplyLaid(M, st, d)
    BY <2>7, <2>10, Marshalled
  <2> HIDE DEF M
  <2>13. M \in Seq(Nat)
    BY <2>12 DEF ReplyLaid
  <2>14. Reports(r, M, [status |-> said, shown |-> shown])
    BY <2>6, <2>7, <2>9, <2>10, <2>12, ReplyReported
  <2> QED
    BY <2>11, <2>13, <2>14
<1> QED
  BY <1>1, <1>2

(* A step leaves the exchange of d alone.                                  *)
SameExchange(d) ==
  /\ srv'[d] = srv[d] /\ req'[d] = req[d] /\ truth'[d] = truth[d] /\ report'[d] = report[d]
  /\ pieces'[d] = pieces[d] /\ buf'[d] = buf[d] /\ line'[d] = line[d] /\ wb'[d] = wb[d]

(* Then what is known of it stays, even if the client is killed.           *)
LEMMA ExchangeKept ==
  ASSUME NEW d, ReplyOK(d), SameExchange(d), dead \subseteq dead'
  PROVE  ReplyOK(d)'
<1>1. Reports(req[d], Reply(d), truth[d])' <=> Reports(req[d], Reply(d), truth[d])
  <2>1. Reply(d)' = Reply(d)
    BY DEF Reply, SameExchange
  <2>2. req'[d] = req[d] /\ truth'[d] = truth[d]
    BY DEF SameExchange
  <2> HIDE DEF Reply
  <2> QED
    BY <2>1, <2>2 DEF Reports
<1> QED
  BY <1>1 DEF ReplyOK, SameExchange

(* All clients but one.                                                    *)
LEMMA OneExchange ==
  ASSUME ReportInv, NEW c \in Clients, \A d \in Clients \ {c} : SameExchange(d), dead \subseteq dead',
         ReplyOK(c)'
  PROVE  \A d \in Clients : ReplyOK(d)'
<1> TAKE d \in Clients
<1>1. CASE d = c
  BY <1>1
<1>2. CASE d # c
  <2>1. ReplyOK(d) /\ SameExchange(d)
    BY <1>2 DEF ReportInv
  <2> QED
    BY <2>1, ExchangeKept
<1> QED
  BY <1>1, <1>2

(* What is known of the domains.                                           *)
LEMMA ReplyDomains ==
  ASSUME ReportInv, NEW c \in Clients
  PROVE  /\ wb \in [Clients -> Seq(Nat)] /\ line \in [Clients -> Seq(Nat)] /\ buf \in [Clients -> Seq(Nat)]
         /\ wb[c] \in Seq(Nat) /\ line[c] \in Seq(Nat) /\ buf[c] \in Seq(Nat) /\ pieces[c] \in Nat
         /\ pieces \in [Clients -> Nat] /\ DOMAIN truth = Clients /\ DOMAIN report = Clients
         /\ DOMAIN srv = Clients /\ DOMAIN req = Clients /\ (req[c] = NoRequest <=> srv[c] = "none")
         /\ ReplyOK(c)
BY DEF ReportInv, ReplyTypes, MonitorInv, ConnOK

(* A new request: nothing of the last one is left.                         *)
LEMMA ReplyAsks ==
  ASSUME ReportInv, NEW c \in Clients, NEW r \in Requests[c], ClientAsks(c, r)
  PROVE  ReplyTypes' /\ \A d \in Clients : ReplyOK(d)'
<1>1. /\ srv' = [srv EXCEPT ![c] = "queued"] /\ req' = [req EXCEPT ![c] = r]
      /\ truth' = [truth EXCEPT ![c] = NoReport] /\ report' = [report EXCEPT ![c] = NoReport]
      /\ pieces' = [pieces EXCEPT ![c] = 0] /\ req[c] = NoRequest
      /\ UNCHANGED <<buf, line, wb, dead>>
  BY DEF ClientAsks
<1>2. buf[c] = <<>> /\ line[c] = <<>> /\ wb[c] = <<>>
  BY <1>1, ReplyDomains DEF ReplyOK
<1>3. ReplyTypes'
  BY <1>1, ReplyDomains DEF ReplyTypes
<1>4. /\ srv'[c] = "queued" /\ truth'[c] = NoReport /\ report'[c] = NoReport /\ pieces'[c] = 0
      /\ buf'[c] = <<>> /\ line'[c] = <<>> /\ wb'[c] = <<>>
  BY <1>1, <1>2, ReplyDomains
<1>5. ReplyOK(c)'
  BY <1>4 DEF ReplyOK
<1>6. \A d \in Clients \ {c} : SameExchange(d)
  BY <1>1, ReplyDomains DEF SameExchange
<1> QED
  BY <1>1, <1>3, <1>5, <1>6, OneExchange

(* recv(): the first piece is the start of the reply.                      *)
LEMMA ReplyRecv ==
  ASSUME ReportInv, NEW c \in Clients, NEW n, ClientRecv(c, n)
  PROVE  ReplyTypes' /\ \A d \in Clients : ReplyOK(d)'
<1> DEFINE l == line[c]
           b == buf[c]
           w == wb[c]
           b1 == SubSeq(l, 1, n) \o SubSeq(b, n + 1, Len(b))
           l1 == SubSeq(l, n + 1, Len(l))
<1>1. /\ buf' = [buf EXCEPT ![c] = b1] /\ pieces' = [pieces EXCEPT ![c] = @ + 1]
      /\ line' = [line EXCEPT ![c] = l1] /\ n \in Portions(l) /\ c \notin dead
      /\ UNCHANGED <<req, report, dead, srv, truth, wb>>
  BY DEF ClientRecv, serverVars
<1>2. /\ wb \in [Clients -> Seq(Nat)] /\ line \in [Clients -> Seq(Nat)] /\ buf \in [Clients -> Seq(Nat)]
      /\ w \in Seq(Nat) /\ l \in Seq(Nat) /\ b \in Seq(Nat) /\ pieces[c] \in Nat
      /\ pieces \in [Clients -> Nat] /\ DOMAIN truth = Clients /\ DOMAIN report = Clients
      /\ ReplyOK(c)
  BY ReplyDomains
<1> HIDE DEF l, b, w
<1>3. n \in 1 .. Len(l)
  <2>1. n \in Portions(l) /\ l \in Seq(Nat)
    BY <1>1, <1>2
  <2> QED
    BY ONLY <2>1 DEF Portions
<1>4. l1 \in Seq(Nat) /\ SubSeq(l, 1, n) \in Seq(Nat)
  BY <1>2, <1>3, Halves
<1>5. SubSeq(b, n + 1, Len(b)) \in Seq(Nat) /\ (b = <<>> => SubSeq(b, n + 1, Len(b)) = <<>>)
  <2> DEFINE e == n + 1
             z == Len(b)
  <2>1. e \in Int /\ z \in Int /\ (\A i \in e .. z : b[i] \in Nat) /\ (b = <<>> => ~(e <= z))
    BY <1>2, <1>3, SMTT(30)
  <2> HIDE DEF e, z
  <2>2. SubSeq(b, e, z) \in Seq(Nat) /\ Len(SubSeq(b, e, z)) = IF e <= z THEN z - e + 1 ELSE 0
    BY ONLY <2>1, SubSeqProperties
  <2>3. b = <<>> => SubSeq(b, e, z) = <<>>
    BY <2>1, <2>2
  <2> QED
    BY <2>2, <2>3 DEF e, z
<1> DEFINE u == SubSeq(l, 1, n)
           v == SubSeq(b, n + 1, Len(b))
<1> HIDE DEF u, v, l1
<1>6. b1 \in Seq(Nat)
  <2>1. u \in Seq(Nat) /\ v \in Seq(Nat)
    BY <1>4, <1>5 DEF u, v
  <2>2. u \o v \in Seq(Nat)
    BY ONLY <2>1, Joined
  <2> QED
    BY <2>2 DEF u, v
<1>7. ReplyTypes'
  <2> HIDE DEF b1
  <2> QED
    BY <1>1, <1>2, <1>4, <1>6 DEF ReplyTypes
<1>8. srv[c] \notin {"none", "queued", "read"}
  <2>1. l # <<>>
    BY <1>3
  <2> QED
    BY <1>2, <2>1 DEF ReplyOK, l
<1>9. req[c] # NoRequest /\ report[c] = NoReport
  BY <1>2, <1>8, ReplyDomains DEF ReplyOK
<1>10. /\ srv'[c] = srv[c] /\ req'[c] = req[c] /\ truth'[c] = truth[c] /\ report'[c] = NoReport
       /\ pieces'[c] = pieces[c] + 1 /\ buf'[c] = b1 /\ line'[c] = l1 /\ wb'[c] = w
  <2> HIDE DEF b1
  <2> QED
    BY <1>1, <1>2, <1>9 DEF w
<1>11. ASSUME pieces[c] = 0, truth[c] # NoReport PROVE Reports(req[c], Reply(c), truth[c])'
  <2>1. b = <<>> /\ Reports(req[c], Reply(c), truth[c])
    BY <1>1, <1>2, <1>9, <1>11 DEF ReplyOK, b
  <2>2. b1 = u
    <3>1. u \in Seq(Nat) /\ v = <<>>
      BY <1>4, <1>5, <2>1 DEF u, v
    <3>2. u \o <<>> = u
      BY <3>1, ConcatEmptySeq
    <3> QED
      BY <3>1, <3>2 DEF u, v
  <2>3. u \o (l1 \o w) = <<>> \o (l \o w)
    BY <1>2, <1>3, ReplyArrives DEF u, l1
  <2>4. Reply(c)' = Reply(c)
    <3>1. Reply(c)' = b1 \o (l1 \o w)
      <4> HIDE DEF b1
      <4> QED
        BY <1>10 DEF Reply
    <3>2. Reply(c) = <<>> \o (l \o w)
      BY <2>1 DEF Reply, b, l, w
    <3> HIDE DEF b1
    <3> QED
      BY <2>2, <2>3, <3>1, <3>2
  <2> QED
    BY <1>10, <2>1, <2>4 DEF Reports
<1>12. ReplyOK(c)'
  <2>1. pieces[c] + 1 # 0 /\ (pieces[c] + 1 \in {0, 1} => pieces[c] = 0)
    BY <1>2
  <2> HIDE DEF b1
  <2> QED
    BY <1>2, <1>8, <1>10, <1>11, <2>1 DEF ReplyOK, w
<1>13. \A d \in Clients \ {c} : SameExchange(d)
  <2> HIDE DEF b1
  <2> QED
    BY <1>1, <1>2 DEF SameExchange
<1> QED
  BY <1>1, <1>7, <1>12, <1>13, OneExchange

(* The reply is over: what is printed is what it says, if it was all in    *)
(* one piece.                                                              *)
LEMMA ReplyReports ==
  ASSUME ReportInv, NEW c \in Clients, ClientReports(c)
  PROVE  ReplyTypes' /\ \A d \in Clients : ReplyOK(d)'
<1>1. PICK fill \in {0, invalid_data} :
        /\ report' = [report EXCEPT ![c] = process_response(req[c], buf[c], fill)]
        /\ buf' = [buf EXCEPT ![c] = <<>>] /\ req' = [req EXCEPT ![c] = NoRequest]
        /\ srv' = [srv EXCEPT ![c] = "none"]
        /\ c \notin dead /\ req[c] # NoRequest /\ srv[c] = "closed" /\ line[c] = <<>>
        /\ UNCHANGED <<pieces, dead, truth, wb, line>>
  BY DEF ClientReports
<1>2. ReplyOK(c) /\ wb[c] = <<>> /\ buf[c] \in Seq(Nat) /\ <<>> \in Seq(Nat)
  BY <1>1, ReplyDomains DEF ReplyOK
<1>3. ReplyTypes'
  BY <1>1, <1>2, ReplyDomains DEF ReplyTypes
<1> DEFINE said == process_response(req[c], buf[c], fill)
<1>4. ASSUME pieces[c] = 1, truth[c] # NoReport PROVE said = truth[c]
  <2>1. Reply(c) = buf[c]
    <3> DEFINE b == buf[c]
    <3>1. b \in Seq(Nat)
      BY <1>2
    <3> HIDE DEF b
    <3>2. <<>> \o <<>> = <<>> /\ b \o <<>> = b
      BY <1>2, <3>1, ConcatEmptySeq
    <3>3. Reply(c) = b \o (<<>> \o <<>>)
      BY <1>1, <1>2 DEF Reply, b
    <3> QED
      BY <3>2, <3>3 DEF b
  <2>2. Reports(req[c], Reply(c), truth[c])
    BY <1>1, <1>2, <1>4 DEF ReplyOK
  <2> QED
    BY <2>1, <2>2 DEF Reports
<1> HIDE DEF said
<1>5. /\ srv'[c] = "none" /\ req'[c] = NoRequest /\ report'[c] = said /\ truth'[c] = truth[c]
      /\ pieces'[c] = pieces[c] /\ buf'[c] = <<>> /\ line'[c] = <<>> /\ wb'[c] = <<>>
  BY <1>1, <1>2, ReplyDomains DEF said
<1>6. ReplyOK(c)'
  BY <1>4, <1>5 DEF ReplyOK
<1>7. \A d \in Clients \ {c} : SameExchange(d)
  BY <1>1, ReplyDomains DEF SameExchange
<1> QED
  BY <1>1, <1>3, <1>6, <1>7, OneExchange

(* Nothing of the exchanges changes.                                       *)
LEMMA ReplyQuiet ==
  ASSUME ReportInv, UNCHANGED <<srv, req, truth, report, pieces, buf, line, wb>>, dead \subseteq dead'
  PROVE  ReplyTypes' /\ \A d \in Clients : ReplyOK(d)'
<1>1. ReplyTypes'
  BY DEF ReportInv, ReplyTypes
<1>2. ASSUME NEW d \in Clients PROVE ReplyOK(d)'
  <2>1. SameExchange(d)
    BY DEF SameExchange
  <2> QED
    BY <2>1, ExchangeKept DEF ReportInv
<1> QED
  BY <1>1, <1>2

(* The connection of c moves on without an answer.                         *)
LEMMA ReplyWaits ==
  ASSUME ReportInv, NEW c \in Clients, srv[c] \in {"queued", "read"}, NEW st \in {"read", "closed"},
         srv' = [srv EXCEPT ![c] = st],
         UNCHANGED <<req, truth, report, pieces, buf, line, wb, dead>>
  PROVE  ReplyTypes' /\ \A d \in Clients : ReplyOK(d)'
<1>1. ReplyTypes'
  BY DEF ReportInv, ReplyTypes
<1>2. ReplyOK(c) /\ DOMAIN srv = Clients
  BY ReplyDomains
<1>3. srv'[c] = st
  BY <1>2
<1>4. ReplyOK(c)'
  BY <1>2, <1>3 DEF ReplyOK
<1>5. \A d \in Clients \ {c} : SameExchange(d)
  BY <1>2 DEF SameExchange
<1> QED
  BY <1>1, <1>4, <1>5, OneExchange

(* monitor_read: at the end of the request, the reply is in write_buffer.  *)
LEMMA ReplyRead ==
  ASSUME ReportInv, NEW c \in Clients, NEW n, monitor_read(c, n)
  PROVE  ReplyTypes' /\ \A d \in Clients : ReplyOK(d)'
<1> DEFINE q == ReadOf(c, n)
<1>1. /\ srv[c] = "read" /\ n \in Unread(c) /\ UNCHANGED <<req, report, pieces, buf, line, dead>>
      /\ IF monitor_is_done(q.p) THEN Answer(c, q.p) ELSE UNCHANGED <<srv, truth, wb>>
  BY DEF monitor_read, clientVars, ReadOf, Statics
<1>2. ConnOK /\ ParsersOK /\ TablesOK
  BY DEF ReportInv, MonitorInv
<1>3. Consumed(req[c], q, n, c \in mixed)
  BY <1>1, <1>2, ReadConsumes
<1> HIDE DEF q
<1>4. CASE ~monitor_is_done(q.p)
  BY <1>1, <1>4, ReplyQuiet
<1>5. CASE monitor_is_done(q.p)
  <2>1. PICK at \in Nat : ParserIs(req[c], q.p, q.s, at, c \in mixed)
    BY <1>3 DEF Consumed
  <2>2. req[c] # NoRequest /\ IsRequest(req[c])
    <3>1. req[c] # NoRequest
      BY <1>1, ReplyDomains
    <3> QED
      BY <1>2, <3>1, Requested
  <2>3. Answer(c, q.p) /\ srv' = [srv EXCEPT ![c] = "write"]
    BY <1>1, <1>5 DEF Answer
  <2>4. PICK M \in Seq(Nat) : \E t : /\ wb' = [wb EXCEPT ![c] = M]
                                      /\ truth' = [truth EXCEPT ![c] = t]
                                      /\ Reports(req[c], M, t)
    BY <1>2, <1>5, <2>1, <2>2, <2>3, AnswerTrue
  <2>5. PICK t : wb' = [wb EXCEPT ![c] = M] /\ truth' = [truth EXCEPT ![c] = t] /\ Reports(req[c], M, t)
    BY <2>4
  <2>6. ReplyTypes'
    BY <1>1, <2>5, ReplyDomains DEF ReplyTypes
  <2>7. pieces[c] = 0 /\ buf[c] = <<>> /\ line[c] = <<>> /\ report[c] = NoReport
    BY <1>1, <2>2, ReplyDomains DEF ReplyOK
  <2>8. /\ srv'[c] = "write" /\ wb'[c] = M /\ truth'[c] = t /\ buf'[c] = <<>> /\ line'[c] = <<>>
        /\ pieces'[c] = 0 /\ req'[c] = req[c] /\ report'[c] = NoReport
    BY <1>1, <2>3, <2>5, <2>7, ReplyDomains
  <2>9. Reply(c)' = M
    <3>1. Reply(c)' = <<>> \o (<<>> \o M)
      BY <2>8 DEF Reply
    <3>2. <<>> \o M = M
      BY ConcatEmptySeq
    <3> QED
      BY <3>1, <3>2
  <2>10. Reports(req[c], Reply(c), truth[c])'
    BY <2>5, <2>8, <2>9 DEF Reports
  <2>11. ReplyOK(c)'
    BY <2>8, <2>10 DEF ReplyOK
  <2>12. \A d \in Clients \ {c} : SameExchange(d)
    BY <1>1, <2>3, <2>5, ReplyDomains DEF SameExchange
  <2> QED
    BY <1>1, <2>6, <2>11, <2>12, OneExchange
<1> QED
  BY <1>4, <1>5

(* monitor_write: the reply goes on its way, piece by piece.               *)
LEMMA ReplyWrite ==
  ASSUME ReportInv, NEW c \in Clients, NEW n, monitor_write(c, n)
  PROVE  ReplyTypes' /\ \A d \in Clients : ReplyOK(d)'
<1> DEFINE b == buf[c]
           l == line[c]
           w == wb[c]
           l1 == l \o SubSeq(w, 1, n)
           w1 == SubSeq(w, n + 1, Len(w))
<1>1. /\ line' = [line EXCEPT ![c] = l1] /\ wb' = [wb EXCEPT ![c] = w1]
      /\ n \in Portions(w) /\ srv[c] = "write"
      /\ UNCHANGED <<req, report, truth, pieces, buf, dead>>
  BY DEF monitor_write, clientVars
<1>2. (wb'[c] = <<>> /\ srv' = [srv EXCEPT ![c] = "closed"]) \/ srv' = srv
  BY DEF monitor_write, monitor_finish
<1>3. b \in Seq(Nat) /\ l \in Seq(Nat) /\ w \in Seq(Nat)
  BY ReplyDomains
<1>4. n \in 1 .. Len(w)
  BY <1>1, <1>3 DEF Portions
<1>5. l1 \in Seq(Nat) /\ w1 \in Seq(Nat) /\ b \o (l1 \o w1) = b \o (l \o w)
  <2> HIDE DEF b, l, w
  <2> QED
    BY <1>3, <1>4, ReplyMoves
<1> HIDE DEF l1, w1
<1>6. ReplyTypes'
  BY <1>1, <1>5, ReplyDomains DEF ReplyTypes
<1>7. line'[c] = l1 /\ wb'[c] = w1
  BY <1>1, ReplyDomains
<1>8. Reply(c)' = Reply(c)
  BY <1>1, <1>5, <1>7 DEF Reply
<1>9. (srv'[c] = "closed" /\ wb'[c] = <<>>) \/ srv'[c] = "write"
  BY <1>1, <1>2, ReplyDomains
<1>10. ReplyOK(c)'
  <2>1. Reports(req[c], Reply(c), truth[c])' <=> Reports(req[c], Reply(c), truth[c])
    <3> HIDE DEF Reply
    <3> QED
      BY <1>1, <1>8 DEF Reports
  <2>2. ReplyOK(c)
    BY ReplyDomains
  <2> QED
    BY <1>1, <1>9, <2>1, <2>2 DEF ReplyOK
<1>11. \A d \in Clients \ {c} : SameExchange(d)
  BY <1>1, <1>2, ReplyDomains DEF SameExchange
<1> QED
  BY <1>1, <1>6, <1>10, <1>11, OneExchange

(* send() fails: the client is gone, and nobody reads the rest.            *)
LEMMA ReplyCut ==
  ASSUME ReportInv, NEW c \in Clients, monitor_write_fails(c)
  PROVE  ReplyTypes' /\ \A d \in Clients : ReplyOK(d)'
<1>1. /\ wb' = [wb EXCEPT ![c] = <<>>] /\ srv' = [srv EXCEPT ![c] = "closed"] /\ c \in dead
      /\ UNCHANGED <<req, report, truth, pieces, buf, line, dead>>
  BY DEF monitor_write_fails, monitor_finish, clientVars
<1>2. ReplyTypes'
  <2>1. <<>> \in Seq(Nat)
    OBVIOUS
  <2> QED
    BY <1>1, <2>1, ReplyDomains DEF ReplyTypes
<1>3. wb'[c] = <<>> /\ srv'[c] = "closed" /\ ReplyOK(c)
  BY <1>1, ReplyDomains
<1>4. ReplyOK(c)'
  BY <1>1, <1>3 DEF ReplyOK
<1>5. \A d \in Clients \ {c} : SameExchange(d)
  BY <1>1, ReplyDomains DEF SameExchange
<1> QED
  BY <1>1, <1>2, <1>4, <1>5, OneExchange

(* SIGTERM: a reply that was not all sent is owed no more.                 *)
LEMMA ReplyStops ==
  ASSUME ReportInv, ServerStops
  PROVE  ReplyTypes' /\ \A d \in Clients : ReplyOK(d)'
<1>1. /\ srv' = [c \in Clients |-> IF srv[c] = "none" THEN "none" ELSE "closed"]
      /\ wb' = [c \in Clients |-> <<>>]
      /\ truth' = [c \in Clients |-> IF wb[c] = <<>> THEN truth[c] ELSE NoReport]
      /\ UNCHANGED <<req, report, pieces, buf, line, dead>>
  BY DEF ServerStops, clientVars
<1>2. ReplyTypes'
  <2>1. <<>> \in Seq(Nat)
    OBVIOUS
  <2> QED
    BY <1>1, <2>1 DEF ReportInv, ReplyTypes
<1>3. ASSUME NEW d \in Clients PROVE ReplyOK(d)'
  <2>1. /\ srv'[d] = IF srv[d] = "none" THEN "none" ELSE "closed"
        /\ wb'[d] = <<>> /\ truth'[d] = IF wb[d] = <<>> THEN truth[d] ELSE NoReport
        /\ req'[d] = req[d] /\ report'[d] = report[d] /\ pieces'[d] = pieces[d] /\ buf'[d] = buf[d]
        /\ line'[d] = line[d] /\ (d \in dead' <=> d \in dead)
    BY <1>1
  <2>2. ReplyOK(d)
    BY DEF ReportInv
  <2>3. CASE wb[d] = <<>>
    <3>1. Reply(d)' = Reply(d) /\ truth'[d] = truth[d]
      BY <2>1, <2>3 DEF Reply
    <3>2. Reports(req[d], Reply(d), truth[d])' <=> Reports(req[d], Reply(d), truth[d])
      <4> HIDE DEF Reply
      <4> QED
        BY <2>1, <3>1 DEF Reports
    <3> QED
      BY <2>1, <2>2, <3>1, <3>2 DEF ReplyOK
  <2>4. CASE wb[d] # <<>>
    <3>1. truth'[d] = NoReport /\ srv'[d] = "closed"
      BY <2>1, <2>2, <2>4 DEF ReplyOK
    <3> QED
      BY <2>1, <2>2, <3>1 DEF ReplyOK
  <2> QED
    BY <2>3, <2>4
<1> QED
  BY <1>2, <1>3

(* What the replies rest on is kept by every step.                         *)
LEMMA ReplyStep ==
  ASSUME ReportInv, [Next]_vars
  PROVE  ReplyTypes' /\ \A d \in Clients : ReplyOK(d)'
<1> DEFINE Goal == ReplyTypes' /\ \A d \in Clients : ReplyOK(d)'
<1>1. ASSUME NEW c \in Clients, ClientNext(c) PROVE Goal
  <2>1. CASE ClientAborts(c) \/ ClientKilled(c)
    <3>1. UNCHANGED <<srv, req, truth, report, pieces, buf, line, wb>> /\ dead \subseteq dead'
      BY <2>1 DEF ClientAborts, ClientKilled, serverVars
    <3> QED
      BY <3>1, ReplyQuiet
  <2> HIDE DEF Goal
  <2>2. ASSUME NEW r \in Requests[c], ClientAsks(c, r) PROVE Goal
    BY <2>2, ReplyAsks DEF Goal
  <2>3. ASSUME NEW n, ClientRecv(c, n) PROVE Goal
    BY <2>3, ReplyRecv DEF Goal
  <2>4. ASSUME ClientReports(c) PROVE Goal
    BY <2>4, ReplyReports DEF Goal
  <2> QED
    BY <1>1, <2>1, <2>2, <2>3, <2>4 DEF ClientNext
<1>2. ASSUME NEW c \in Clients, ServerNext(c) PROVE Goal
  <2>1. CASE monitor_passive_accept(c)
    <3>1. /\ srv[c] = "queued" /\ srv' = [srv EXCEPT ![c] = "read"]
          /\ UNCHANGED <<req, truth, report, pieces, buf, line, wb, dead>>
      BY <2>1 DEF monitor_passive_accept, clientVars
    <3> QED
      BY <3>1, ReplyWaits
  <2>2. CASE AcceptFails(c) \/ monitor_read_fails(c)
    <3>1. /\ srv[c] \in {"queued", "read"} /\ srv' = [srv EXCEPT ![c] = "closed"]
          /\ UNCHANGED <<req, truth, report, pieces, buf, line, wb, dead>>
      BY <2>2 DEF AcceptFails, monitor_read_fails, monitor_finish, clientVars
    <3> QED
      BY <3>1, ReplyWaits
  <2> HIDE DEF Goal
  <2>3. ASSUME NEW n, monitor_read(c, n) PROVE Goal
    BY <2>3, ReplyRead DEF Goal
  <2>4. ASSUME NEW n, monitor_write(c, n) PROVE Goal
    BY <2>4, ReplyWrite DEF Goal
  <2>5. ASSUME monitor_write_fails(c) PROVE Goal
    BY <2>5, ReplyCut DEF Goal
  <2> QED
    BY <1>2, <2>1, <2>2, <2>3, <2>4, <2>5 DEF ServerNext
<1>3. CASE UNCHANGED vars
  BY <1>3, ReplyQuiet DEF vars, clientVars, serverVars
<1>4. CASE ServerStops
  BY <1>4, ReplyStops
<1> HIDE DEF Goal
<1>5. Goal
  BY <1>1, <1>2, <1>3, <1>4 DEF Next, Goal
<1> QED
  BY <1>5 DEF Goal

(* Nobody has asked anything.                                              *)
LEMMA ReplyInit == Init => ReplyTypes /\ \A c \in Clients : ReplyOK(c)
<1> SUFFICES ASSUME Init PROVE ReplyTypes /\ \A c \in Clients : ReplyOK(c)
  OBVIOUS
<1>1. /\ wb = [c \in Clients |-> <<>>] /\ line = [c \in Clients |-> <<>>] /\ buf = [c \in Clients |-> <<>>]
      /\ pieces = [c \in Clients |-> 0] /\ truth = [c \in Clients |-> NoReport]
      /\ report = [c \in Clients |-> NoReport] /\ srv = [c \in Clients |-> "none"]
      /\ req = [c \in Clients |-> NoRequest]
  BY DEF Init
<1>2. <<>> \in Seq(Nat)
  OBVIOUS
<1>3. ReplyTypes
  BY <1>1, <1>2 DEF ReplyTypes
<1>4. ASSUME NEW c \in Clients PROVE ReplyOK(c)
  <2>1. /\ wb[c] = <<>> /\ line[c] = <<>> /\ buf[c] = <<>> /\ srv[c] = "none" /\ req[c] = NoRequest
        /\ truth[c] = NoReport
    BY <1>1
  <2> QED
    BY <2>1 DEF ReplyOK
<1> QED
  BY <1>3, <1>4

(* Until a second recv() writes over the first one, what a client has of   *)
(* its reply, what is on its way and what monitor_write has left make up   *)
(* one reply; read back by process_response, it says what monitor_process  *)
(* did and what the tables and counters were then (monitor_marshall).      *)
THEOREM MonitorReplies == Spec => []ReportInv
<1>1. Init => ReportInv
  BY ConnInit, ParsersInit, TablesInit, ReplyInit DEF ReportInv, MonitorInv
<1>2. ReportInv /\ [Next]_vars => ReportInv'
  <2> SUFFICES ASSUME ReportInv, [Next]_vars PROVE ReportInv'
    OBVIOUS
  <2>1. MonitorInv
    BY DEF ReportInv
  <2>2. MonitorInv'
    BY <2>1, ConnStep, ParsersStep, PromiseStep DEF MonitorInv
  <2>3. ReplyTypes' /\ \A d \in Clients : ReplyOK(d)'
    BY ReplyStep
  <2> QED
    BY <2>2, <2>3 DEF ReportInv
<1> QED
  BY <1>1, <1>2, PTL DEF Spec

(* What the client program prints of a reply that one recv() brought is    *)
(* what the server did and what its tables and counters were at that       *)
(* moment (client.c:61-69), for any number of clients, administrators,     *)
(* users and statistics.                                                   *)
THEOREM MonitorReportsTruth == Spec => []ReportTrue
<1>1. ReportInv => ReportTrue
  <2> SUFFICES ASSUME ReportInv, NEW c \in Clients
               PROVE  NoReport \notin {report[c], truth[c]} /\ pieces[c] = 1 => report[c] = truth[c]
    BY DEF ReportTrue
  <2>1. ReplyOK(c)
    BY DEF ReportInv
  <2> QED
    BY <2>1 DEF ReplyOK
<1> QED
  BY <1>1, MonitorReplies, PTL
=============================================================================
