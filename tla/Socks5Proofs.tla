---------------------------- MODULE Socks5Proofs ----------------------------
(***************************************************************************)
(* Proofs about the life of the connections and what happens inside them,  *)
(* for any number of descriptors, structs, addresses and users, any size   *)
(* of the pool and any set of faults.                                      *)
(***************************************************************************)
EXTENDS Socks5, CopyProofs, FiniteSetTheorems

-----------------------------------------------------------------------------
(* The reference counts, as a relation between a heap, the items of the    *)
(* selector and the contents of the structs.                               *)

Heaps == [mem : SUBSET Structs, pool : SUBSET Structs, pool_size : Nat,
          references : [Structs -> Nat]]

Holds(d, fd, s) == fd \in Fds /\ d[fd] = s

RefsOf(c, d, s) ==
  (IF Holds(d, c.client_fd, s) THEN 1 ELSE 0) +
  (IF Holds(d, c.origin_fd, s) /\ c.origin_fd # c.client_fd THEN 1 ELSE 0)

HeapOK(h, d, cn) ==
  /\ h \in Heaps
  /\ d \in [Fds -> Structs \cup {NoStruct}]
  /\ h.pool \subseteq h.mem
  /\ \A fd \in Fds : d[fd] # NoStruct =>
       /\ d[fd] \in h.mem \ h.pool
       /\ fd = cn[d[fd]].client_fd \/ fd = cn[d[fd]].origin_fd
  /\ \A s \in h.mem \ h.pool : h.references[s] = RefsOf(cn[s], d, s) /\ RefsOf(cn[s], d, s) > 0

Unregister(d, fd) == [f \in Fds |-> IF f = fd THEN NoStruct ELSE d[f]]

(* What socks5_destroy changes, field by field.                            *)
LEMMA DestroyFields ==
  ASSUME NEW h \in Heaps, NEW s \in Structs
  PROVE  LET g == socks5_destroy(h, s)
         IN  /\ h.references[s] # 1 =>
                  /\ g.mem = h.mem /\ g.pool = h.pool /\ g.pool_size = h.pool_size
                  /\ g.references = [h.references EXCEPT ![s] = @ - 1]
                  /\ (h.references[s] > 1 => g \in Heaps)
             /\ h.references[s] = 1 =>
                  /\ g.references = h.references
                  /\ g \in Heaps
                  /\ g.mem \ g.pool = (h.mem \ h.pool) \ {s}
                  /\ h.pool \subseteq h.mem /\ s \in h.mem \ h.pool => g.pool \subseteq g.mem
<1> DEFINE g == socks5_destroy(h, s)
<1>1. /\ h = [mem |-> h.mem, pool |-> h.pool, pool_size |-> h.pool_size, references |-> h.references]
      /\ h.mem \in SUBSET Structs /\ h.pool \in SUBSET Structs /\ h.pool_size \in Nat
      /\ h.references \in [Structs -> Nat]
  BY DEF Heaps
<1>2. CASE h.references[s] # 1
  <2> DEFINE r == [h.references EXCEPT ![s] = @ - 1]
  <2>1. g = [h EXCEPT !.references = r]
    BY <1>2 DEF socks5_destroy
  <2>2. h.references[s] > 1 => r \in [Structs -> Nat]
    BY <1>1
  <2> HIDE DEF r
  <2>3. g = [mem |-> h.mem, pool |-> h.pool, pool_size |-> h.pool_size, references |-> r]
    BY <1>1, <2>1
  <2>4. h.references[s] > 1 => g \in Heaps
    BY <1>1, <2>2, <2>3 DEF Heaps
  <2> QED
    BY <1>2, <2>3, <2>4 DEF r
<1>3. CASE h.references[s] = 1 /\ h.pool_size < MaxPool
  <2>1. g = [mem |-> h.mem, pool |-> h.pool \cup {s}, pool_size |-> h.pool_size + 1,
             references |-> h.references]
    BY <1>1, <1>3 DEF socks5_destroy
  <2>2. g \in Heaps
    BY <1>1, <2>1 DEF Heaps
  <2> QED
    BY <1>1, <1>3, <2>1, <2>2
<1>4. CASE h.references[s] = 1 /\ ~(h.pool_size < MaxPool)
  <2>1. g = [mem |-> h.mem \ {s}, pool |-> h.pool, pool_size |-> h.pool_size,
             references |-> h.references]
    BY <1>1, <1>4 DEF socks5_destroy
  <2>2. g \in Heaps
    BY <1>1, <2>1 DEF Heaps
  <2> QED
    BY <1>1, <1>4, <2>1, <2>2
<1> QED
  BY <1>2, <1>3, <1>4

(* selector_unregister_fd on a registered descriptor, with the             *)
(* socks5_destroy of its handle_close, keeps the counts exact.             *)
LEMMA UnregisterOK ==
  ASSUME NEW h, NEW d, NEW cn, HeapOK(h, d, cn), NEW fd \in Fds, NEW s \in Structs, d[fd] = s
  PROVE  HeapOK(socks5_destroy(h, s), Unregister(d, fd), cn)
<1> DEFINE g == socks5_destroy(h, s)
           e == Unregister(d, fd)
<1>1. s # NoStruct
  BY Socks5Assumption DEF Socks5Assumption
<1>2. /\ h \in Heaps /\ h.pool \subseteq h.mem /\ s \in h.mem \ h.pool
      /\ h.references[s] = RefsOf(cn[s], d, s)
      /\ fd = cn[s].client_fd \/ fd = cn[s].origin_fd
  BY <1>1 DEF HeapOK
<1>3. e \in [Fds -> Structs \cup {NoStruct}] /\ \A f \in Fds : e[f] = IF f = fd THEN NoStruct ELSE d[f]
  BY DEF HeapOK, Unregister
<1>4. \A t \in Structs : t # s => RefsOf(cn[t], e, t) = RefsOf(cn[t], d, t)
  <2> SUFFICES ASSUME NEW t \in Structs, t # s PROVE RefsOf(cn[t], e, t) = RefsOf(cn[t], d, t)
    OBVIOUS
  <2>1. t # NoStruct
    BY Socks5Assumption DEF Socks5Assumption
  <2>2. ASSUME NEW f PROVE Holds(e, f, t) <=> Holds(d, f, t)
    BY <1>3, <2>1 DEF Holds
  <2> QED
    BY <2>2 DEF RefsOf
<1>5. RefsOf(cn[s], e, s) = RefsOf(cn[s], d, s) - 1
  BY <1>1, <1>2, <1>3 DEF RefsOf, Holds
<1>6. RefsOf(cn[s], d, s) \in {1, 2}
  BY <1>2 DEF RefsOf, HeapOK
<1>7. CASE RefsOf(cn[s], d, s) = 1
  <2>1. g \in Heaps /\ g.references = h.references /\ g.mem \ g.pool = (h.mem \ h.pool) \ {s}
        /\ g.pool \subseteq g.mem
    <3>1. h.references[s] = 1
      BY <1>2, <1>7
    <3> QED
      BY <1>2, <3>1, DestroyFields
  <2>2. \A f \in Fds : f # fd => d[f] # s
    BY <1>1, <1>2, <1>7 DEF RefsOf, Holds, HeapOK
  <2>3. \A f \in Fds : e[f] # NoStruct =>
          e[f] \in g.mem \ g.pool /\ (f = cn[e[f]].client_fd \/ f = cn[e[f]].origin_fd)
    BY <1>3, <2>1, <2>2 DEF HeapOK
  <2>4. \A t \in g.mem \ g.pool : g.references[t] = RefsOf(cn[t], e, t) /\ RefsOf(cn[t], e, t) > 0
    BY <1>2, <1>4, <2>1 DEF HeapOK, Heaps
  <2> QED
    BY <1>3, <2>1, <2>3, <2>4 DEF HeapOK
<1>8. CASE RefsOf(cn[s], d, s) = 2
  <2>1. /\ g \in Heaps /\ g.references = [h.references EXCEPT ![s] = @ - 1]
        /\ g.mem = h.mem /\ g.pool = h.pool
    BY <1>2, <1>8, DestroyFields
  <2>2. \A f \in Fds : e[f] # NoStruct =>
          e[f] \in g.mem \ g.pool /\ (f = cn[e[f]].client_fd \/ f = cn[e[f]].origin_fd)
    BY <1>3, <2>1 DEF HeapOK
  <2>3. \A t \in g.mem \ g.pool : g.references[t] = RefsOf(cn[t], e, t) /\ RefsOf(cn[t], e, t) > 0
    BY <1>2, <1>4, <1>5, <1>8, <2>1 DEF HeapOK, Heaps
  <2> QED
    BY <1>2, <1>3, <2>1, <2>2, <2>3 DEF HeapOK
<1> QED
  BY <1>6, <1>7, <1>8

(* Struct s is only pointed to by the item of its client.                  *)
OnlyClient(d, c, s) == c.client_fd \in Fds /\ \A f \in Fds : d[f] = s <=> f = c.client_fd

(* The contents of one struct change and the items do not: what has to be  *)
(* shown is about that struct alone.                                       *)
LEMMA RewriteOK ==
  ASSUME NEW h, NEW d, NEW cn \in [Structs -> Conns], HeapOK(h, d, cn),
         NEW s \in Structs, NEW c,
         \A f \in Fds : d[f] = s => f = c.client_fd \/ f = c.origin_fd,
         s \in h.mem \ h.pool => RefsOf(c, d, s) = RefsOf(cn[s], d, s)
  PROVE  HeapOK(h, d, [cn EXCEPT ![s] = c])
<1> DEFINE cm == [cn EXCEPT ![s] = c]
<1>1. cm[s] = c /\ \A t \in Structs : t # s => cm[t] = cn[t]
  OBVIOUS
<1>2. h.mem \ h.pool \subseteq Structs
  BY DEF HeapOK, Heaps
<1> HIDE DEF cm
<1>3. \A fd \in Fds : d[fd] # NoStruct =>
       d[fd] \in h.mem \ h.pool /\ (fd = cm[d[fd]].client_fd \/ fd = cm[d[fd]].origin_fd)
  BY <1>1, <1>2 DEF HeapOK
<1>4. \A t \in h.mem \ h.pool : h.references[t] = RefsOf(cm[t], d, t) /\ RefsOf(cm[t], d, t) > 0
  BY <1>1, <1>2 DEF HeapOK
<1>5. HeapOK(h, d, cm)
  BY <1>3, <1>4 DEF HeapOK
<1> QED
  BY <1>5 DEF cm

(* A handler that leaves both descriptors of its struct as they are.       *)
LEMMA RewriteSame ==
  ASSUME NEW h, NEW d, NEW cn \in [Structs -> Conns], HeapOK(h, d, cn),
         NEW s \in Structs, NEW c,
         c.client_fd = cn[s].client_fd, c.origin_fd = cn[s].origin_fd
  PROVE  HeapOK(h, d, [cn EXCEPT ![s] = c])
<1>1. RefsOf(c, d, s) = RefsOf(cn[s], d, s)
  BY DEF RefsOf
<1>2. \A f \in Fds : d[f] = s => f = c.client_fd \/ f = c.origin_fd
  BY Socks5Assumption DEF Socks5Assumption, HeapOK
<1> QED
  BY <1>1, <1>2, RewriteOK

(* A struct that is no longer in use may hold anything.                    *)
LEMMA RewriteFree ==
  ASSUME NEW h, NEW d, NEW cn \in [Structs -> Conns], HeapOK(h, d, cn),
         NEW s \in Structs, s \notin h.mem \ h.pool, NEW c
  PROVE  HeapOK(h, d, [cn EXCEPT ![s] = c])
<1>1. \A f \in Fds : d[f] # s
  BY Socks5Assumption DEF Socks5Assumption, HeapOK
<1> QED
  BY <1>1, RewriteOK

(* The origin of a struct that only its client holds is forgotten, or set  *)
(* to the client's own descriptor.                                         *)
LEMMA RewriteOrigin ==
  ASSUME NEW h, NEW d, NEW cn \in [Structs -> Conns], HeapOK(h, d, cn),
         NEW s \in Structs, OnlyClient(d, cn[s], s), NEW c,
         c.client_fd = cn[s].client_fd,
         c.origin_fd = NoFd \/ c.origin_fd = cn[s].client_fd
  PROVE  HeapOK(h, d, [cn EXCEPT ![s] = c])
<1>1. NoFd \notin Fds
  BY Socks5Assumption DEF Socks5Assumption, NoFd
<1>2. RefsOf(c, d, s) = 1 /\ RefsOf(cn[s], d, s) = 1
  BY <1>1 DEF OnlyClient, RefsOf, Holds
<1>3. \A f \in Fds : d[f] = s => f = c.client_fd
  BY DEF OnlyClient
<1> QED
  BY <1>2, <1>3, RewriteOK

(* The items and contents change for struct s only: what has to be shown   *)
(* is about that struct alone.                                             *)
LEMMA RegisterOK ==
  ASSUME NEW h, NEW d, NEW cn \in [Structs -> Conns], HeapOK(h, d, cn),
         NEW s \in Structs, NEW fd \in Fds, d[fd] = NoStruct, NEW c, NEW g \in Heaps,
         g.pool \subseteq g.mem,
         g.mem \ g.pool = (h.mem \ h.pool) \cup {s},
         \A t \in Structs : t # s => g.references[t] = h.references[t],
         \A f \in Fds : d[f] = s => f = c.client_fd,
         fd = c.client_fd \/ fd = c.origin_fd,
         g.references[s] = RefsOf(c, [d EXCEPT ![fd] = s], s),
         RefsOf(c, [d EXCEPT ![fd] = s], s) > 0
  PROVE  HeapOK(g, [d EXCEPT ![fd] = s], [cn EXCEPT ![s] = c])
<1> DEFINE cm == [cn EXCEPT ![s] = c]
           e  == [d EXCEPT ![fd] = s]
<1>1. cm[s] = c /\ \A t \in Structs : t # s => cm[t] = cn[t]
  OBVIOUS
<1>2. /\ e \in [Fds -> Structs \cup {NoStruct}]
      /\ e[fd] = s /\ \A f \in Fds : f # fd => e[f] = d[f]
  BY DEF HeapOK
<1>3. s # NoStruct /\ \A t \in Structs : t # NoStruct
  BY Socks5Assumption DEF Socks5Assumption
<1>4. g.references[s] = RefsOf(c, e, s) /\ RefsOf(c, e, s) > 0
  OBVIOUS
<1> HIDE DEF cm, e
<1>5. \A f \in Fds : e[f] # NoStruct =>
       e[f] \in g.mem \ g.pool /\ (f = cm[e[f]].client_fd \/ f = cm[e[f]].origin_fd)
  BY <1>1, <1>2, <1>3 DEF HeapOK
<1>6. ASSUME NEW t \in g.mem \ g.pool
      PROVE  g.references[t] = RefsOf(cm[t], e, t) /\ RefsOf(cm[t], e, t) > 0
  <2>1. t \in Structs
    BY DEF Heaps
  <2>2. CASE t = s
    BY <1>1, <1>4, <2>2
  <2>3. CASE t # s
    <3>1. ASSUME NEW f PROVE Holds(e, f, t) <=> Holds(d, f, t)
      BY <1>2, <1>3, <2>1, <2>3 DEF Holds
    <3>2. RefsOf(cn[t], e, t) = RefsOf(cn[t], d, t)
      BY <3>1 DEF RefsOf
    <3> QED
      BY <1>1, <2>1, <2>3, <3>2 DEF HeapOK
  <2> QED
    BY <2>2, <2>3
<1>7. HeapOK(g, e, cm)
  BY <1>2, <1>5, <1>6 DEF HeapOK
<1> QED
  BY <1>7 DEF cm, e

(* request_connect: the origin's item takes a second reference.            *)
LEMMA RegisterOrigin ==
  ASSUME NEW h, NEW d, NEW cn \in [Structs -> Conns], HeapOK(h, d, cn),
         NEW s \in Structs, OnlyClient(d, cn[s], s), NEW fd \in Fds, d[fd] = NoStruct, NEW c,
         c.client_fd = cn[s].client_fd, c.origin_fd = fd
  PROVE  HeapOK([h EXCEPT !.references = [h.references EXCEPT ![s] = @ + 1]],
                [d EXCEPT ![fd] = s], [cn EXCEPT ![s] = c])
<1> DEFINE r == [h.references EXCEPT ![s] = @ + 1]
           g == [h EXCEPT !.references = r]
           e == [d EXCEPT ![fd] = s]
<1>1. s # NoStruct
  BY Socks5Assumption DEF Socks5Assumption
<1>2. /\ h = [mem |-> h.mem, pool |-> h.pool, pool_size |-> h.pool_size, references |-> h.references]
      /\ h.mem \in SUBSET Structs /\ h.pool \in SUBSET Structs /\ h.pool_size \in Nat
      /\ h.references \in [Structs -> Nat] /\ h.pool \subseteq h.mem
      /\ d \in [Fds -> Structs \cup {NoStruct}]
  BY DEF HeapOK, Heaps
<1>3. s \in h.mem \ h.pool
  BY <1>1 DEF HeapOK, OnlyClient
<1>4. h.references[s] = 1
  BY <1>3 DEF HeapOK, RefsOf, OnlyClient, Holds
<1>5. r \in [Structs -> Nat] /\ r[s] = 2 /\ \A t \in Structs : t # s => r[t] = h.references[t]
  BY <1>2, <1>4
<1> HIDE DEF r
<1>6. g = [mem |-> h.mem, pool |-> h.pool, pool_size |-> h.pool_size, references |-> r]
  BY <1>2
<1>7. g \in Heaps /\ g.mem = h.mem /\ g.pool = h.pool /\ g.references = r
  BY <1>2, <1>5, <1>6 DEF Heaps
<1>8. e[fd] = s /\ \A f \in Fds : f # fd => e[f] = d[f]
  BY <1>2
<1>9. RefsOf(c, e, s) = 2
  <2>1. fd # c.client_fd
    BY <1>1 DEF OnlyClient
  <2>2. Holds(e, c.client_fd, s) /\ Holds(e, c.origin_fd, s)
    BY <1>8, <2>1 DEF Holds, OnlyClient
  <2> QED
    BY <2>1, <2>2 DEF RefsOf
<1>10. g.mem \ g.pool = (h.mem \ h.pool) \cup {s} /\ g.pool \subseteq g.mem
  BY <1>2, <1>3, <1>7
<1>11. \A f \in Fds : d[f] = s => f = c.client_fd
  BY DEF OnlyClient
<1>12. g.references[s] = RefsOf(c, e, s) /\ RefsOf(c, e, s) > 0
       /\ \A t \in Structs : t # s => g.references[t] = h.references[t]
  BY <1>5, <1>7, <1>9
<1> HIDE DEF g
<1>13. HeapOK(g, e, [cn EXCEPT ![s] = c])
  BY <1>7, <1>10, <1>11, <1>12, RegisterOK
<1> QED
  BY <1>13 DEF g, r

(* What socks5_new changes, field by field.                                *)
LEMMA NewFields ==
  ASSUME NEW h \in Heaps, NEW s \in Structs, h.pool \subseteq h.mem, s \in Allocatable(h)
  PROVE  /\ socks5_new(h, s) \in Heaps
         /\ socks5_new(h, s).pool \subseteq socks5_new(h, s).mem
         /\ socks5_new(h, s).mem \ socks5_new(h, s).pool = (h.mem \ h.pool) \cup {s}
         /\ s \notin h.mem \ h.pool
         /\ socks5_new(h, s).references[s] = 1
         /\ \A t \in Structs : t # s => socks5_new(h, s).references[t] = h.references[t]
<1>1. /\ h.mem \in SUBSET Structs /\ h.pool \in SUBSET Structs /\ h.pool_size \in Nat
      /\ h.references \in [Structs -> Nat]
  BY DEF Heaps
<1>2. s \notin h.mem \ h.pool
  BY DEF Allocatable
<1> DEFINE r == [h.references EXCEPT ![s] = 1]
<1>3. r \in [Structs -> Nat] /\ r[s] = 1 /\ \A t \in Structs : t # s => r[t] = h.references[t]
  BY <1>1
<1>4. socks5_new(h, s) = [mem |-> h.mem \cup {s}, pool |-> h.pool \ {s},
                          pool_size |-> h.pool_size, references |-> r]
  BY DEF socks5_new
<1> HIDE DEF r
<1> QED
  BY <1>1, <1>2, <1>3, <1>4 DEF Heaps

(* socksv5_passive_accept: a new struct with the client's reference.       *)
LEMMA AcceptOK ==
  ASSUME NEW h, NEW d, NEW cn \in [Structs -> Conns], HeapOK(h, d, cn),
         NEW s \in Structs, s \in Allocatable(h), NEW fd \in Fds, d[fd] = NoStruct, NEW c,
         c.client_fd = fd, c.origin_fd = NoFd
  PROVE  HeapOK(socks5_new(h, s), [d EXCEPT ![fd] = s], [cn EXCEPT ![s] = c])
<1> DEFINE e == [d EXCEPT ![fd] = s]
<1>1. s # NoStruct /\ NoFd \notin Fds
  BY Socks5Assumption DEF Socks5Assumption, NoFd
<1>2. h \in Heaps /\ h.pool \subseteq h.mem /\ d \in [Fds -> Structs \cup {NoStruct}]
  BY DEF HeapOK
<1>3. \A f \in Fds : d[f] # s
  BY <1>1, <1>2, NewFields DEF HeapOK
<1>4. e[fd] = s
  BY <1>2
<1>5. RefsOf(c, e, s) = 1
  BY <1>1, <1>4 DEF RefsOf, Holds
<1> DEFINE g == socks5_new(h, s)
<1>6. /\ g \in Heaps /\ g.pool \subseteq g.mem /\ g.mem \ g.pool = (h.mem \ h.pool) \cup {s}
      /\ g.references[s] = 1
      /\ \A t \in Structs : t # s => g.references[t] = h.references[t]
  BY <1>2, NewFields
<1> HIDE DEF g
<1>7. \A f \in Fds : d[f] = s => f = c.client_fd
  BY <1>3
<1>8. g.references[s] = RefsOf(c, e, s) /\ RefsOf(c, e, s) > 0
  BY <1>5, <1>6
<1>9. HeapOK(g, e, [cn EXCEPT ![s] = c])
  BY <1>6, <1>7, <1>8, RegisterOK
<1> QED
  BY <1>9 DEF g

(* The error path of socksv5_passive_accept gives the struct back.         *)
LEMMA AcceptFailsOK ==
  ASSUME NEW h, NEW d, NEW cn, HeapOK(h, d, cn), NEW s \in Structs, s \in Allocatable(h)
  PROVE  HeapOK(socks5_destroy(socks5_new(h, s), s), d, cn)
<1> DEFINE n == socks5_new(h, s)
           g == socks5_destroy(n, s)
<1>1. h \in Heaps /\ h.pool \subseteq h.mem
  BY DEF HeapOK
<1>2. n \in Heaps /\ n.pool \subseteq n.mem /\ n.mem \ n.pool = (h.mem \ h.pool) \cup {s}
      /\ s \notin h.mem \ h.pool /\ n.references[s] = 1
      /\ \A t \in Structs : t # s => n.references[t] = h.references[t]
  BY <1>1, NewFields
<1> HIDE DEF n
<1>3. g \in Heaps /\ g.references = n.references /\ g.mem \ g.pool = (n.mem \ n.pool) \ {s}
      /\ g.pool \subseteq g.mem
  <2>1. s \in n.mem \ n.pool
    BY <1>2
  <2> QED
    BY <1>2, <2>1, DestroyFields
<1> HIDE DEF g
<1>4. g.mem \ g.pool = h.mem \ h.pool
  BY <1>2, <1>3
<1>5. \A t \in g.mem \ g.pool : g.references[t] = h.references[t]
  BY <1>1, <1>2, <1>3, <1>4 DEF Heaps
<1>6. HeapOK(g, d, cn)
  BY <1>3, <1>4, <1>5 DEF HeapOK
<1> QED
  BY <1>6 DEF g, n

-----------------------------------------------------------------------------
(* The inductive invariant.                                                *)

(* What a connection in use is like while the server runs: both its        *)
(* descriptors are registered for it, it has no origin before it connects, *)
(* the client is not watched while the origin connects, and a connection   *)
(* that took its client for the origin (after a failed further attempt)    *)
(* is never served again.                                                  *)
ConnOK(c, d, i, s) ==
  /\ Holds(d, c.client_fd, s)
  /\ c.origin_fd # NoFd => Holds(d, c.origin_fd, s)
  /\ c.state \in {"NULL", "HELLO_READ", "HELLO_WRITE", "AUTH_READ", "AUTH_WRITE",
                  "REQUEST_READ", "REQUEST_RESOLV"} => c.origin_fd = NoFd
  /\ c.state = "REQUEST_CONNECTING" /\ c.origin_fd # NoFd => i[c.client_fd] = {}
  /\ c.origin_fd = c.client_fd => c.state = "REQUEST_WRITE" /\ i[c.client_fd] = {}

RunOK ==
  mode = "run" => open = Registered /\ \A s \in InUse : ConnOK(conn[s], data, interest, s)

(* The part of the invariant about descriptors, items and structs ...      *)
Core ==
  /\ open \in SUBSET Fds
  /\ interest \in [Fds -> Interests]
  /\ conn \in [Structs -> Conns]
  /\ \A s \in Structs : GoodCopy(conn[s].copy)
  /\ HeapOK(heap, data, conn)
  /\ RunOK

(* ... and the types of the rest.                                          *)
RestOK ==
  /\ mode \in {"run", "destroy", "exit"}
  /\ threads \in SUBSET Threads
  /\ jobs \in SUBSET Fds
  /\ is_auth_on \in BOOLEAN
  /\ registered_users \in 0 .. MaxUsers
  /\ historic_connections \in 0 .. CounterMod - 1
  /\ current_connections \in 0 .. CounterMod - 1

Socks5Inv == Core /\ RestOK /\ AllFreed

(* A connection whose items are left alone stays as it was.                *)
LEMMA ConnFrame ==
  ASSUME NEW c, NEW d, NEW i, NEW e, NEW j, NEW t, ConnOK(c, d, i, t),
         \A f \in Fds : d[f] = t => e[f] = t /\ j[f] = i[f]
  PROVE  ConnOK(c, e, j, t)
BY DEF ConnOK, Holds

(* What a step for connection s leaves alone: the contents and the items of *)
(* every other connection.                                                 *)
OthersKept(s) ==
  /\ InUse' \subseteq InUse \cup {s}
  /\ \A t \in Structs : t # s => conn'[t] = conn[t]
  /\ \A f \in Fds : data[f] # s /\ data[f] # NoStruct =>
                      data'[f] = data[f] /\ interest'[f] = interest[f]

(* A step for connection s while the server runs: what has to be shown is  *)
(* about that connection alone.                                            *)
LEMMA CoreStep ==
  ASSUME Core, mode = "run", NEW s \in Structs, NEW c \in Conns, GoodCopy(c.copy),
         conn' = [conn EXCEPT ![s] = c],
         interest' \in [Fds -> Interests],
         HeapOK(heap', data', conn'),
         open' = {f \in Fds : data'[f] # NoStruct},
         InUse' \subseteq InUse \cup {s},
         \A f \in Fds : data[f] # s /\ data[f] # NoStruct =>
                         data'[f] = data[f] /\ interest'[f] = interest[f],
         s \in InUse' => ConnOK(c, data', interest', s)
  PROVE  Core' /\ OthersKept(s)
<1>1. conn' \in [Structs -> Conns] /\ conn'[s] = c /\ \A t \in Structs : t # s => conn'[t] = conn[t]
  BY DEF Core
<1>2. \A t \in Structs : GoodCopy(conn'[t].copy)
  BY <1>1 DEF Core
<1>3. InUse' \subseteq Structs
  BY DEF HeapOK, Heaps, InUse
<1>4. ASSUME NEW t \in InUse' PROVE ConnOK(conn'[t], data', interest', t)
  <2>1. CASE t = s
    BY <1>1, <1>4, <2>1
  <2>2. CASE t # s
    <3>1. t \in InUse /\ t \in Structs /\ t # NoStruct
      BY <1>3, <2>2, Socks5Assumption DEF Socks5Assumption
    <3>2. ConnOK(conn[t], data, interest, t)
      BY <3>1 DEF Core, RunOK
    <3>3. \A f \in Fds : data[f] = t => data'[f] = t /\ interest'[f] = interest[f]
      BY <2>2, <3>1
    <3>4. ConnOK(conn[t], data', interest', t)
      BY <3>2, <3>3, ConnFrame
    <3> QED
      BY <1>1, <2>2, <3>1, <3>4
  <2> QED
    BY <2>1, <2>2
<1>5. open' \in SUBSET Fds /\ RunOK'
  BY <1>4 DEF RunOK, Registered
<1>6. Core'
  BY <1>1, <1>2, <1>5 DEF Core
<1> QED
  BY <1>1, <1>6 DEF OthersKept

(* What a handler finds: its connection is in use, in the state that       *)
(* ConnOK describes, and its two descriptors are not the same.             *)
LEMMA EventConn ==
  ASSUME Core, NEW fd \in Fds, NEW op, NEW s \in Structs, NEW st, Event(fd, op, s, st)
  PROVE  /\ mode = "run" /\ data[fd] = s /\ s \in InUse /\ conn[s] \in Conns
         /\ ConnOK(conn[s], data, interest, s)
         /\ fd = conn[s].client_fd \/ fd = conn[s].origin_fd
         /\ conn[s].origin_fd # conn[s].client_fd
         /\ conn[s].client_fd \in Fds
         /\ conn[s].state = st
<1>1. mode = "run" /\ data[fd] = s /\ op \in interest[fd] /\ conn[s].state = st
  BY DEF Event
<1>2. s \in InUse /\ (fd = conn[s].client_fd \/ fd = conn[s].origin_fd)
  BY <1>1, Socks5Assumption DEF Socks5Assumption, Core, HeapOK, InUse
<1>3. ConnOK(conn[s], data, interest, s) /\ conn[s] \in Conns
  BY <1>1, <1>2 DEF Core, RunOK
<1>4. conn[s].origin_fd # conn[s].client_fd
  BY <1>1, <1>2, <1>3 DEF ConnOK
<1> QED
  BY <1>1, <1>2, <1>3, <1>4 DEF ConnOK, Holds

(* A handler that only rewrites its struct and one interest.               *)
LEMMA JumpCore ==
  ASSUME Core, mode = "run", NEW s \in Structs, s \in InUse,
         NEW c \in Conns, GoodCopy(c.copy),
         c.client_fd = conn[s].client_fd, c.origin_fd = conn[s].origin_fd,
         NEW f \in Fds, data[f] = s, NEW ops \in Interests, Jump(s, c, f, ops),
         ConnOK(c, data, [interest EXCEPT ![f] = ops], s)
  PROVE  Core' /\ OthersKept(s)
<1>1. conn' = [conn EXCEPT ![s] = c] /\ interest' = [interest EXCEPT ![f] = ops]
      /\ data' = data /\ heap' = heap /\ open' = open
  BY DEF Jump
<1>2. interest' \in [Fds -> Interests]
  BY <1>1 DEF Core
<1>3. HeapOK(heap', data', conn')
  BY <1>1, RewriteSame DEF Core
<1>4. open' = {g \in Fds : data'[g] # NoStruct}
  BY <1>1 DEF Core, RunOK, Registered
<1>5. InUse' \subseteq InUse \cup {s}
  BY <1>1 DEF InUse
<1>6. \A g \in Fds : data[g] # s /\ data[g] # NoStruct =>
                      data'[g] = data[g] /\ interest'[g] = interest[g]
  BY <1>1 DEF Core
<1>7. ConnOK(c, data', interest', s)
  BY <1>1
<1> QED
  BY <1>1, <1>2, <1>3, <1>4, <1>5, <1>6, <1>7, CoreStep

(* What memset() leaves is well typed.                                     *)
LEMMA NoConnOK == NoConn \in Conns /\ GoodCopy(NoConn.copy)
<1> DEFINE k == copy_init(buffer_init)
<1>1. buffer_init \in EarlyBuffers
  BY BufSizeAssumption DEF BufSizeAssumption, EarlyBuffers, Buffers, buffer_init
<1>2. GoodCopy(k)
  BY <1>1, InitialCopy
<1>3. k \in Copies
  BY <1>2 DEF GoodCopy
<1> HIDE DEF k
<1>5. NoConn = [state |-> "NULL", client_fd |-> NoFd, origin_fd |-> NoFd, status |-> "fail",
                domain |-> FALSE, res |-> 0, alts |-> 0, wb |-> 0, uname |-> FALSE, copy |-> k]
  BY DEF NoConn, k
<1>6. 0 \in 0 .. MaxAddrs
  BY Socks5Assumption DEF Socks5Assumption
<1> QED
  BY <1>2, <1>3, <1>5, <1>6 DEF Conns, States

(* socksv5_done, called for an event: both references go, and the struct   *)
(* is no longer in use.                                                    *)
LEMMA DoneCore ==
  ASSUME Core, mode = "run", NEW s \in Structs, s \in InUse,
         conn[s].origin_fd # conn[s].client_fd, socksv5_done(s)
  PROVE  Core' /\ OthersKept(s)
<1> DEFINE cl  == conn[s].client_fd
           og  == conn[s].origin_fd
           fds == {cl, og} \ {NoFd}
           h1  == socks5_destroy(heap, s)
           d1  == Unregister(data, cl)
           h2  == socks5_destroy(h1, s)
           d2  == Unregister(d1, og)
<1>1. NoFd \notin Fds /\ s # NoStruct
  BY Socks5Assumption DEF Socks5Assumption, NoFd
<1>2. /\ open' = open \ fds
      /\ data' = [f \in Fds |-> IF f \in fds THEN NoStruct ELSE data[f]]
      /\ interest' = [f \in Fds |-> IF f \in fds THEN {} ELSE interest[f]]
      /\ heap' = IF og = NoFd THEN h1 ELSE h2
      /\ conn' = [conn EXCEPT ![s] = NoConn]
  BY DEF socksv5_done, ClearData, ClearInterest
<1>3. /\ conn \in [Structs -> Conns] /\ data \in [Fds -> Structs \cup {NoStruct}]
      /\ HeapOK(heap, data, conn) /\ ConnOK(conn[s], data, interest, s)
  BY DEF Core, RunOK, HeapOK
<1>4. cl \in Fds /\ data[cl] = s /\ (og # NoFd => og \in Fds /\ data[og] = s)
  BY <1>3 DEF ConnOK, Holds
<1>5. \A f \in Fds : data[f] = s => f = cl \/ f = og
  BY <1>1, <1>3 DEF HeapOK
<1>6. HeapOK(h1, d1, conn)
  BY <1>3, <1>4, UnregisterOK
<1>7. d1 = [f \in Fds |-> IF f = cl THEN NoStruct ELSE data[f]]
  BY DEF Unregister
<1>8. HeapOK(heap', data', conn)
  <2>1. CASE og = NoFd
    <3>1. data' = d1
      BY <1>1, <1>2, <1>4, <1>7, <2>1
    <3> QED
      BY <1>2, <1>6, <2>1, <3>1
  <2>2. CASE og # NoFd
    <3>1. og \in Fds /\ d1[og] = s
      BY <1>4, <1>7, <2>2
    <3>2. HeapOK(h2, d2, conn)
      BY <1>6, <3>1, UnregisterOK
    <3>3. d2 = [f \in Fds |-> IF f = og THEN NoStruct ELSE d1[f]]
      BY DEF Unregister
    <3>4. data' = d2
      BY <1>1, <1>2, <1>4, <1>7, <2>2, <3>1, <3>3
    <3> QED
      BY <1>2, <2>2, <3>2, <3>4
  <2> QED
    BY <2>1, <2>2
<1>9. \A f \in Fds : data'[f] # s
  BY <1>1, <1>2, <1>5
<1>10. s \notin InUse'
  <2>1. RefsOf(conn[s], data', s) = 0
    BY <1>9 DEF RefsOf, Holds
  <2> QED
    BY <1>8, <2>1 DEF HeapOK, InUse
<1>11. HeapOK(heap', data', conn')
  BY <1>2, <1>3, <1>8, <1>10, RewriteFree DEF InUse
<1>12. interest' \in [Fds -> Interests]
  BY <1>2 DEF Core, Interests
<1>13. open' = {f \in Fds : data'[f] # NoStruct}
  BY <1>2, <1>4 DEF Core, RunOK, Registered
<1>14. heap'.mem \ heap'.pool \subseteq heap.mem \ heap.pool
  <2>1. heap \in Heaps /\ heap.references[s] \in {1, 2}
    BY <1>3 DEF HeapOK, InUse, RefsOf
  <2>2. /\ h1 \in Heaps
        /\ h1.references[s] = 1
        /\ h1.mem \ h1.pool \subseteq heap.mem \ heap.pool
    <3>1. CASE heap.references[s] = 1
      <4>1. h1 \in Heaps /\ h1.references = heap.references
            /\ h1.mem \ h1.pool = (heap.mem \ heap.pool) \ {s}
        BY <2>1, <3>1, DestroyFields
      <4> HIDE DEF h1
      <4> QED
        BY <3>1, <4>1
    <3>2. CASE heap.references[s] = 2
      <4>1. h1.references = [heap.references EXCEPT ![s] = @ - 1] /\ h1 \in Heaps
            /\ h1.mem = heap.mem /\ h1.pool = heap.pool
        BY <2>1, <3>2, DestroyFields
      <4> QED
        BY <2>1, <3>2, <4>1 DEF Heaps
    <3> QED
      BY <2>1, <3>1, <3>2
  <2> HIDE DEF h1
  <2>3. h2.mem \ h2.pool = (h1.mem \ h1.pool) \ {s}
    BY <2>2, DestroyFields
  <2> QED
    BY <1>2, <2>2, <2>3
<1>15. \A f \in Fds : data[f] # s /\ data[f] # NoStruct =>
                       data'[f] = data[f] /\ interest'[f] = interest[f]
  BY <1>2, <1>4
<1>16. InUse' \subseteq InUse \cup {s}
  BY <1>14 DEF InUse
<1> QED
  BY <1>2, <1>10, <1>11, <1>12, <1>13, <1>15, <1>16, CoreStep, NoConnOK

-----------------------------------------------------------------------------
(* request_connect.                                                        *)

(* The contents request_connect is given: those of the struct, but for the *)
(* position in the list of addresses.                                      *)
SameButAddress(c, s) ==
  /\ c \in Conns
  /\ c.client_fd = conn[s].client_fd /\ c.origin_fd = conn[s].origin_fd
  /\ c.state = conn[s].state /\ c.copy = conn[s].copy

(* What request_error_write puts in the struct.                            *)
LEMMA ErrorReplyFields ==
  ASSUME NEW c \in Conns
  PROVE  /\ ErrorReply(c) \in Conns
         /\ ErrorReply(c).client_fd = c.client_fd /\ ErrorReply(c).origin_fd = c.origin_fd
         /\ ErrorReply(c).state = c.state /\ ErrorReply(c).copy = c.copy
<1>1. c.wb \in Nat /\ c = [state |-> c.state, client_fd |-> c.client_fd, origin_fd |-> c.origin_fd,
        status |-> c.status, domain |-> c.domain, res |-> c.res, alts |-> c.alts, wb |-> c.wb,
        uname |-> c.uname, copy |-> c.copy]
  BY DEF Conns
<1> DEFINE w == c.wb + 1
<1>2. w \in Nat /\ ErrorReply(c) = [c EXCEPT !.status = "fail", !.wb = w]
  BY <1>1 DEF ErrorReply
<1> HIDE DEF w
<1> QED
  BY <1>1, <1>2 DEF Conns

(* The socket of an earlier attempt is unregistered and closed.            *)
LEMMA OldSocketGone ==
  ASSUME Core, mode = "run", NEW s \in Structs, s \in InUse,
         conn[s].origin_fd # conn[s].client_fd,
         NEW old, old = {conn[s].origin_fd} \ {NoFd},
         NEW h, h = IF old = {} THEN heap ELSE socks5_destroy(heap, s)
  PROVE  /\ HeapOK(h, ClearData(old), conn)
         /\ OnlyClient(ClearData(old), conn[s], s)
         /\ open \ old = {f \in Fds : ClearData(old)[f] # NoStruct}
         /\ h.mem = heap.mem /\ h.pool = heap.pool
         /\ \A f \in Fds : data[f] # s => ClearData(old)[f] = data[f] /\ ClearInterest(old)[f] = interest[f]
         /\ ClearInterest(old) \in [Fds -> Interests]
<1> DEFINE cl == conn[s].client_fd
           og == conn[s].origin_fd
           d  == ClearData(old)
<1>1. NoFd \notin Fds /\ s # NoStruct
  BY Socks5Assumption DEF Socks5Assumption, NoFd
<1>2. /\ data \in [Fds -> Structs \cup {NoStruct}] /\ interest \in [Fds -> Interests]
      /\ HeapOK(heap, data, conn) /\ ConnOK(conn[s], data, interest, s)
      /\ open = {f \in Fds : data[f] # NoStruct}
  BY DEF Core, RunOK, HeapOK, Registered
<1>3. cl \in Fds /\ data[cl] = s /\ (og # NoFd => og \in Fds /\ data[og] = s)
  BY <1>2 DEF ConnOK, Holds
<1>4. \A f \in Fds : data[f] = s => f = cl \/ f = og
  BY <1>1, <1>2 DEF HeapOK
<1>5. /\ d = [f \in Fds |-> IF f \in old THEN NoStruct ELSE data[f]]
      /\ ClearInterest(old) = [f \in Fds |-> IF f \in old THEN {} ELSE interest[f]]
  BY DEF ClearData, ClearInterest
<1>6. HeapOK(h, d, conn) /\ h.mem = heap.mem /\ h.pool = heap.pool
  <2>1. CASE og = NoFd
    <3>1. old = {} /\ h = heap
      BY <2>1
    <3>2. d = data
      BY <1>2, <1>5, <3>1
    <3> QED
      BY <1>2, <3>1, <3>2
  <2>2. CASE og # NoFd
    <3>1. old = {og} /\ h = socks5_destroy(heap, s)
      BY <2>2
    <3>2. d = Unregister(data, og)
      BY <1>5, <3>1 DEF Unregister
    <3>3. HeapOK(h, d, conn)
      BY <1>2, <1>3, <2>2, <3>1, <3>2, UnregisterOK
    <3>4. RefsOf(conn[s], data, s) = 2
      BY <1>3, <2>2 DEF RefsOf, Holds
    <3>5. heap \in Heaps /\ heap.references[s] = 2
      BY <1>2, <3>4 DEF HeapOK, InUse
    <3>6. socks5_destroy(heap, s).mem = heap.mem /\ socks5_destroy(heap, s).pool = heap.pool
      <4>1. heap.references[s] # 1
        BY <3>5
      <4>2. heap = [mem |-> heap.mem, pool |-> heap.pool, pool_size |-> heap.pool_size,
                    references |-> heap.references]
        BY <3>5 DEF Heaps
      <4> QED
        BY <4>1, <4>2 DEF socks5_destroy
    <3> QED
      BY <3>1, <3>3, <3>6
  <2> QED
    BY <2>1, <2>2
<1>7. OnlyClient(d, conn[s], s)
  BY <1>1, <1>3, <1>4, <1>5 DEF OnlyClient
<1>8. open \ old = {f \in Fds : d[f] # NoStruct}
  BY <1>2, <1>5
<1>9. \A f \in Fds : data[f] # s => d[f] = data[f] /\ ClearInterest(old)[f] = interest[f]
  BY <1>3, <1>5
<1>10. ClearInterest(old) \in [Fds -> Interests]
  BY <1>2, <1>5 DEF Interests
<1> QED
  BY <1>6, <1>7, <1>8, <1>9, <1>10

(* request_connect opens a new socket for the origin.                      *)
LEMMA ConnectStartsCore ==
  ASSUME Core, mode = "run", NEW s \in Structs, s \in InUse,
         conn[s].origin_fd # conn[s].client_fd, NEW c, SameButAddress(c, s),
         NEW old, old = {conn[s].origin_fd} \ {NoFd},
         NEW h, h = IF old = {} THEN heap ELSE socks5_destroy(heap, s),
         ConnectStarts(s, c, old, h)
  PROVE  Core' /\ OthersKept(s)
<1> DEFINE d == ClearData(old)
           i == ClearInterest(old)
<1>1. /\ HeapOK(h, d, conn) /\ OnlyClient(d, conn[s], s)
      /\ open \ old = {f \in Fds : d[f] # NoStruct}
      /\ h.mem = heap.mem /\ h.pool = heap.pool
      /\ \A f \in Fds : data[f] # s => d[f] = data[f] /\ i[f] = interest[f]
      /\ i \in [Fds -> Interests]
  BY OldSocketGone
<1>2. PICK fd \in Fds :
        /\ LowestFree(fd, open \ old)
        /\ open' = (open \ old) \cup {fd}
        /\ data' = [d EXCEPT ![fd] = s]
        /\ interest' = [i EXCEPT ![c.client_fd] = {}, ![fd] = {OP_WRITE}]
        /\ heap' = [h EXCEPT !.references = [h.references EXCEPT ![s] = @ + 1]]
        /\ conn' = [conn EXCEPT ![s] = [c EXCEPT !.state = "REQUEST_CONNECTING", !.origin_fd = fd]]
  BY DEF ConnectStarts
<1> DEFINE k == [c EXCEPT !.state = "REQUEST_CONNECTING", !.origin_fd = fd]
<1>3. /\ k \in Conns /\ k.client_fd = conn[s].client_fd /\ k.origin_fd = fd
      /\ k.state = "REQUEST_CONNECTING" /\ k.copy = conn[s].copy
  BY DEF SameButAddress, Conns, States
<1>4. d[fd] = NoStruct /\ d \in [Fds -> Structs \cup {NoStruct}] /\ s # NoStruct
  BY <1>1, <1>2, Socks5Assumption DEF LowestFree, HeapOK, Socks5Assumption
<1>5. c.client_fd = conn[s].client_fd /\ c.client_fd \in Fds /\ d[c.client_fd] = s /\ fd # c.client_fd
  BY <1>1, <1>4 DEF SameButAddress, OnlyClient
<1> HIDE DEF d, i, k
<1>6. conn \in [Structs -> Conns] /\ GoodCopy(k.copy)
  BY <1>3 DEF Core
<1>7. HeapOK(heap', data', conn')
  <2>1. HeapOK([h EXCEPT !.references = [h.references EXCEPT ![s] = @ + 1]],
               [d EXCEPT ![fd] = s], [conn EXCEPT ![s] = k])
    BY <1>1, <1>3, <1>4, <1>6, RegisterOrigin
  <2> QED
    BY <1>2, <2>1 DEF k
<1>8. data'[fd] = s /\ \A f \in Fds : f # fd => data'[f] = d[f]
  BY <1>2, <1>4
<1>9. open' = {f \in Fds : data'[f] # NoStruct}
  BY <1>1, <1>2, <1>4, <1>8
<1>10. interest' \in [Fds -> Interests] /\ interest'[c.client_fd] = {}
       /\ \A f \in Fds : f # fd /\ f # c.client_fd => interest'[f] = i[f]
  BY <1>1, <1>2, <1>5 DEF Interests
<1>11. heap'.mem = heap.mem /\ heap'.pool = heap.pool
  <2>1. h = [mem |-> h.mem, pool |-> h.pool, pool_size |-> h.pool_size, references |-> h.references]
    BY <1>1 DEF HeapOK, Heaps
  <2> QED
    BY <1>1, <1>2, <2>1
<1>12. InUse' \subseteq InUse \cup {s}
  BY <1>11 DEF InUse
<1>13. \A f \in Fds : data[f] # s /\ data[f] # NoStruct =>
                       data'[f] = data[f] /\ interest'[f] = interest[f]
  BY <1>1, <1>4, <1>5, <1>8, <1>10
<1>14. ConnOK(k, data', interest', s)
  BY <1>3, <1>5, <1>8, <1>10 DEF ConnOK, Holds
<1>15. conn' = [conn EXCEPT ![s] = k]
  BY <1>2 DEF k
<1> QED
  BY <1>3, <1>6, <1>7, <1>9, <1>10, <1>12, <1>13, <1>14, <1>15, CoreStep

(* request_connect fails, and queues the error reply.                      *)
LEMMA ConnectFailsCore ==
  ASSUME Core, mode = "run", NEW s \in Structs, s \in InUse,
         conn[s].origin_fd # conn[s].client_fd, NEW c, SameButAddress(c, s),
         NEW old, old = {conn[s].origin_fd} \ {NoFd},
         NEW h, h = IF old = {} THEN heap ELSE socks5_destroy(heap, s),
         ConnectFails(s, c, old, h)
  PROVE  Core' /\ OthersKept(s)
<1> DEFINE d == ClearData(old)
           i == ClearInterest(old)
           st == IF c.state = "REQUEST_CONNECTING" THEN c.state ELSE "REQUEST_WRITE"
           k == [ErrorReply(c) EXCEPT !.state     = IF c.state = "REQUEST_CONNECTING"
                                                    THEN @ ELSE "REQUEST_WRITE",
                                      !.origin_fd = NoFd]
<1>1. /\ HeapOK(h, d, conn) /\ OnlyClient(d, conn[s], s)
      /\ open \ old = {f \in Fds : d[f] # NoStruct}
      /\ h.mem = heap.mem /\ h.pool = heap.pool
      /\ \A f \in Fds : data[f] # s => d[f] = data[f] /\ i[f] = interest[f]
      /\ i \in [Fds -> Interests]
  BY OldSocketGone
<1>2. /\ open' = open \ old
      /\ data' = d
      /\ interest' = [i EXCEPT ![c.client_fd] = {OP_WRITE}]
      /\ heap' = h
      /\ conn' = [conn EXCEPT ![s] = k]
  BY DEF ConnectFails
<1>3. /\ k \in Conns /\ k.client_fd = conn[s].client_fd /\ k.origin_fd = NoFd
      /\ k.state = st /\ k.copy = conn[s].copy
  <2>1. ErrorReply(c) \in Conns /\ ErrorReply(c).client_fd = c.client_fd
        /\ ErrorReply(c).state = c.state /\ ErrorReply(c).copy = c.copy
    BY ErrorReplyFields DEF SameButAddress
  <2> HIDE DEF st
  <2>2. k = [ErrorReply(c) EXCEPT !.state = st, !.origin_fd = NoFd] /\ st \in States
    BY <2>1 DEF SameButAddress, Conns, States, st
  <2> QED
    BY <2>1, <2>2 DEF SameButAddress, Conns
<1>4. s # NoStruct /\ NoFd \notin Fds
  BY Socks5Assumption DEF Socks5Assumption, NoFd
<1>5. c.client_fd = conn[s].client_fd /\ c.client_fd \in Fds /\ d[c.client_fd] = s
      /\ data[c.client_fd] = s
  <2>1. ConnOK(conn[s], data, interest, s)
    BY DEF Core, RunOK
  <2> QED
    BY <1>1, <2>1 DEF SameButAddress, OnlyClient, ConnOK, Holds
<1> HIDE DEF d, i, k
<1>6. conn \in [Structs -> Conns] /\ GoodCopy(k.copy)
  BY <1>3 DEF Core
<1>7. HeapOK(heap', data', conn')
  BY <1>1, <1>2, <1>3, <1>6, RewriteOrigin
<1>8. open' = {f \in Fds : data'[f] # NoStruct}
  BY <1>1, <1>2
<1>9. interest' \in [Fds -> Interests] /\ \A f \in Fds : f # c.client_fd => interest'[f] = i[f]
  BY <1>1, <1>2, <1>5 DEF Interests
<1>10. InUse' \subseteq InUse \cup {s}
  BY <1>1, <1>2 DEF InUse
<1>11. \A f \in Fds : data[f] # s /\ data[f] # NoStruct =>
                       data'[f] = data[f] /\ interest'[f] = interest[f]
  BY <1>1, <1>2, <1>5, <1>9
<1>12. ConnOK(k, data', interest', s)
  BY <1>2, <1>3, <1>4, <1>5 DEF ConnOK, Holds
<1> QED
  BY <1>2, <1>3, <1>6, <1>7, <1>8, <1>9, <1>10, <1>11, <1>12, CoreStep

(* request_connect, first or further attempt.                              *)
LEMMA ConnectCore ==
  ASSUME Core, mode = "run", NEW s \in Structs, s \in InUse,
         conn[s].origin_fd # conn[s].client_fd, NEW c, SameButAddress(c, s),
         conn[s].state # "REQUEST_CONNECTING" => conn[s].origin_fd = NoFd,
         request_connect(s, c)
  PROVE  Core' /\ OthersKept(s)
<1> DEFINE old == {conn[s].origin_fd} \ {NoFd}
           h   == IF old = {} THEN heap ELSE socks5_destroy(heap, s)
<1>1. old = IF c.state = "REQUEST_CONNECTING" THEN {c.origin_fd} \ {NoFd} ELSE {}
  BY DEF SameButAddress
<1>2. ConnectStarts(s, c, old, h) \/ ConnectFails(s, c, old, h)
  BY <1>1 DEF request_connect
<1> HIDE DEF h, old
<1>3. old = {conn[s].origin_fd} \ {NoFd} /\ h = IF old = {} THEN heap ELSE socks5_destroy(heap, s)
  BY DEF h, old
<1> QED
  BY <1>2, <1>3, ConnectStartsCore, ConnectFailsCore

-----------------------------------------------------------------------------
(* The handlers, one lemma each or one for those that work alike.          *)

EarlyStates == {"NULL", "HELLO_READ", "HELLO_WRITE", "AUTH_READ", "AUTH_WRITE",
                "REQUEST_READ", "REQUEST_RESOLV"}

(* A handler of the handshake that stays with its client.                  *)
LEMMA HandshakeJump ==
  ASSUME Core, NEW fd \in Fds, NEW op, NEW s \in Structs, NEW st \in EarlyStates,
         Event(fd, op, s, st), NEW c \in Conns,
         c.client_fd = conn[s].client_fd, c.origin_fd = conn[s].origin_fd, c.copy = conn[s].copy,
         NEW ops \in Interests, Jump(s, c, fd, ops)
  PROVE  Core' /\ OthersKept(s)
<1>1. /\ mode = "run" /\ data[fd] = s /\ s \in InUse /\ ConnOK(conn[s], data, interest, s)
      /\ conn[s].client_fd \in Fds /\ conn[s].state = st
      /\ conn[s].origin_fd # conn[s].client_fd
  BY EventConn
<1>2. conn[s].origin_fd = NoFd
  BY <1>1 DEF ConnOK, EarlyStates
<1>3. GoodCopy(c.copy)
  BY DEF Core
<1>4. ConnOK(c, data, [interest EXCEPT ![fd] = ops], s)
  BY <1>1, <1>2 DEF ConnOK, Holds
<1> QED
  BY <1>1, <1>3, <1>4, JumpCore

(* The new contents of the handshake's handlers are well typed.            *)
LEMMA HandshakeContents ==
  ASSUME NEW c \in Conns, NEW st \in States, NEW ss \in {"ok", "fail"}, NEW u \in BOOLEAN
  PROVE  /\ [c EXCEPT !.state = st] \in Conns
         /\ [c EXCEPT !.state = st, !.domain = TRUE] \in Conns
         /\ [c EXCEPT !.state = st, !.wb = @ + 1] \in Conns
         /\ [c EXCEPT !.state = st, !.status = ss, !.wb = 0] \in Conns
         /\ [c EXCEPT !.state = st, !.status = ss, !.uname = u, !.wb = @ + 1] \in Conns
<1>1. c.wb \in Nat /\ c = [state |-> c.state, client_fd |-> c.client_fd, origin_fd |-> c.origin_fd,
        status |-> c.status, domain |-> c.domain, res |-> c.res, alts |-> c.alts, wb |-> c.wb,
        uname |-> c.uname, copy |-> c.copy]
  BY DEF Conns
<1> DEFINE w == c.wb + 1
<1>2. w \in Nat
  BY <1>1
<1> HIDE DEF w
<1>3. [c EXCEPT !.state = st, !.wb = w] \in Conns
  BY <1>1, <1>2 DEF Conns
<1>4. [c EXCEPT !.state = st, !.status = ss, !.uname = u, !.wb = w] \in Conns
  BY <1>1, <1>2 DEF Conns
<1>5. /\ [c EXCEPT !.state = st] \in Conns
      /\ [c EXCEPT !.state = st, !.domain = TRUE] \in Conns
      /\ [c EXCEPT !.state = st, !.status = ss, !.wb = 0] \in Conns
  BY <1>1 DEF Conns
<1> QED
  BY <1>3, <1>4, <1>5 DEF w

(* HELLO_READ, partial or complete.                                        *)
LEMMA HelloCore ==
  ASSUME Core, NEW fd \in Fds, NEW s \in Structs, HelloPartial(fd, s) \/ hello_read(fd, s)
  PROVE  Core' /\ OthersKept(s)
<1>1. conn[s] \in Conns
  BY DEF Core
<1>2. CASE HelloPartial(fd, s)
  <2> DEFINE c == [conn[s] EXCEPT !.state = "HELLO_READ"]
  <2>1. Event(fd, OP_READ, s, "NULL") /\ Jump(s, c, fd, {OP_READ})
    BY <1>2 DEF HelloPartial
  <2>2. c \in Conns
    BY <1>1, HandshakeContents DEF States
  <2>3. c.client_fd = conn[s].client_fd /\ c.origin_fd = conn[s].origin_fd /\ c.copy = conn[s].copy
    BY <1>1 DEF Conns
  <2> HIDE DEF c
  <2> QED
    BY <2>1, <2>2, <2>3, HandshakeJump DEF EarlyStates, Interests
<1>3. CASE hello_read(fd, s)
  <2> DEFINE c == [conn[s] EXCEPT !.state = "HELLO_WRITE", !.wb = @ + 1]
  <2>1. PICK st \in {"NULL", "HELLO_READ"} : Event(fd, OP_READ, s, st)
    BY <1>3 DEF hello_read
  <2>2. Jump(s, c, fd, {OP_WRITE})
    BY <1>3 DEF hello_read
  <2>3. c \in Conns
    BY <1>1, HandshakeContents DEF States
  <2>4. c.client_fd = conn[s].client_fd /\ c.origin_fd = conn[s].origin_fd /\ c.copy = conn[s].copy
    BY <1>1 DEF Conns
  <2> HIDE DEF c
  <2> QED
    BY <2>1, <2>2, <2>3, <2>4, HandshakeJump DEF EarlyStates, Interests
<1> QED
  BY <1>2, <1>3

(* HELLO_WRITE.                                                            *)
LEMMA HelloWriteCore ==
  ASSUME Core, NEW fd \in Fds, NEW s \in Structs, hello_write(fd, s)
  PROVE  Core' /\ OthersKept(s)
<1> DEFINE st == IF is_auth_on THEN "AUTH_READ" ELSE "REQUEST_READ"
           c  == [conn[s] EXCEPT !.state = st, !.status = "fail", !.wb = 0]
<1>1. conn[s] \in Conns /\ st \in States
  BY DEF Core, States
<1>2. Event(fd, OP_WRITE, s, "HELLO_WRITE") /\ Jump(s, c, fd, {OP_READ})
  BY DEF hello_write
<1> HIDE DEF st
<1>3. c \in Conns
  BY <1>1, HandshakeContents
<1>4. c.client_fd = conn[s].client_fd /\ c.origin_fd = conn[s].origin_fd /\ c.copy = conn[s].copy
  BY <1>1 DEF Conns
<1> HIDE DEF c
<1> QED
  BY <1>2, <1>3, <1>4, HandshakeJump DEF EarlyStates, Interests

(* AUTH_READ.                                                              *)
LEMMA AuthReadCore ==
  ASSUME Core, NEW fd \in Fds, NEW s \in Structs, auth_read(fd, s)
  PROVE  Core' /\ OthersKept(s)
<1>1. conn[s] \in Conns
  BY DEF Core
<1>2. PICK found \in {u \in BOOLEAN : u => registered_users > 0} :
        Jump(s, [conn[s] EXCEPT !.state  = "AUTH_WRITE",
                                !.status = IF found THEN "ok" ELSE "fail",
                                !.uname  = found,
                                !.wb     = @ + 1], fd, {OP_WRITE})
  BY DEF auth_read
<1>3. Event(fd, OP_READ, s, "AUTH_READ") /\ found \in BOOLEAN
  BY DEF auth_read
<1> DEFINE ss == IF found THEN "ok" ELSE "fail"
           c  == [conn[s] EXCEPT !.state = "AUTH_WRITE", !.status = ss, !.uname = found, !.wb = @ + 1]
<1>4. ss \in {"ok", "fail"} /\ Jump(s, c, fd, {OP_WRITE})
  BY <1>2
<1> HIDE DEF ss
<1>5. c \in Conns
  BY <1>1, <1>3, <1>4, HandshakeContents DEF States
<1>6. c.client_fd = conn[s].client_fd /\ c.origin_fd = conn[s].origin_fd /\ c.copy = conn[s].copy
  BY <1>1 DEF Conns
<1> HIDE DEF c
<1> QED
  BY <1>3, <1>4, <1>5, <1>6, HandshakeJump DEF EarlyStates, Interests

(* AUTH_WRITE.                                                             *)
LEMMA AuthWriteCore ==
  ASSUME Core, NEW fd \in Fds, NEW s \in Structs, auth_write(fd, s)
  PROVE  Core' /\ OthersKept(s)
<1> DEFINE c == [conn[s] EXCEPT !.state = "REQUEST_READ", !.status = "fail", !.wb = 0]
<1>1. conn[s] \in Conns /\ Event(fd, OP_WRITE, s, "AUTH_WRITE")
  BY DEF Core, auth_write
<1>2. Jump(s, c, fd, {OP_READ}) \/ socksv5_done(s)
  BY DEF auth_write
<1>3. c \in Conns
  BY <1>1, HandshakeContents DEF States
<1>4. c.client_fd = conn[s].client_fd /\ c.origin_fd = conn[s].origin_fd /\ c.copy = conn[s].copy
  BY <1>1 DEF Conns
<1> HIDE DEF c
<1>5. CASE Jump(s, c, fd, {OP_READ})
  BY <1>1, <1>3, <1>4, <1>5, HandshakeJump DEF EarlyStates, Interests
<1>6. CASE socksv5_done(s)
  BY <1>1, <1>6, EventConn, DoneCore
<1> QED
  BY <1>2, <1>5, <1>6

(* The handlers that end their connection.                                 *)
LEMMA EndCore ==
  ASSUME Core, NEW fd \in Fds, NEW s \in Structs,
         HelloFails(fd, s) \/ HandshakeError(fd, s) \/ RequestFailed(fd, s)
  PROVE  Core' /\ OthersKept(s)
<1>1. socksv5_done(s) /\ \E op \in {OP_READ, OP_WRITE}, st \in States : Event(fd, op, s, st)
  BY DEF HelloFails, HandshakeError, RequestFailed, States
<1> QED
  BY <1>1, EventConn, DoneCore

(* REQUEST_READ, with a request that is refused or names its destination.  *)
LEMMA RequestCore ==
  ASSUME Core, NEW fd \in Fds, NEW s \in Structs, RequestRefused(fd, s) \/ RequestName(fd, s)
  PROVE  Core' /\ OthersKept(s)
<1>1. conn[s] \in Conns
  BY DEF Core
<1>2. Event(fd, OP_READ, s, "REQUEST_READ")
  BY DEF RequestRefused, RequestName
<1>3. CASE RequestRefused(fd, s)
  <2> DEFINE c == [ErrorReply(conn[s]) EXCEPT !.state = "REQUEST_WRITE"]
  <2>1. fd = conn[s].client_fd
    <3>1. /\ conn[s].state = "REQUEST_READ" /\ ConnOK(conn[s], data, interest, s)
          /\ fd = conn[s].client_fd \/ fd = conn[s].origin_fd
      BY <1>2, EventConn
    <3>2. NoFd \notin Fds
      BY Socks5Assumption DEF Socks5Assumption, NoFd
    <3> QED
      BY <3>1, <3>2 DEF ConnOK
  <2>2. Jump(s, c, fd, {OP_WRITE})
    BY <1>3, <2>1 DEF RequestRefused, request_error_write
  <2>3. ErrorReply(conn[s]) \in Conns /\ c \in Conns
    BY <1>1, ErrorReplyFields, HandshakeContents DEF States
  <2>4. c.client_fd = conn[s].client_fd /\ c.origin_fd = conn[s].origin_fd /\ c.copy = conn[s].copy
    BY <1>1, <2>3, ErrorReplyFields DEF Conns
  <2> HIDE DEF c
  <2> QED
    BY <1>2, <2>2, <2>3, <2>4, HandshakeJump DEF EarlyStates, Interests
<1>4. CASE RequestName(fd, s)
  <2> DEFINE c == [conn[s] EXCEPT !.state = "REQUEST_RESOLV", !.domain = TRUE]
  <2>1. Jump(s, c, fd, {})
    BY <1>4 DEF RequestName
  <2>2. c \in Conns
    BY <1>1, HandshakeContents DEF States
  <2>3. c.client_fd = conn[s].client_fd /\ c.origin_fd = conn[s].origin_fd /\ c.copy = conn[s].copy
    BY <1>1 DEF Conns
  <2> HIDE DEF c
  <2> QED
    BY <1>2, <2>1, <2>2, <2>3, HandshakeJump DEF EarlyStates, Interests
<1> QED
  BY <1>3, <1>4

(* The first attempt to connect, to an address or to a name's first one.   *)
LEMMA FirstConnectCore ==
  ASSUME Core, NEW fd \in Fds, NEW s \in Structs,
         RequestAddress(fd, s) \/ request_resolv_done(fd, s)
  PROVE  Core' /\ OthersKept(s)
<1>1. conn[s] \in Conns
  BY DEF Core
<1>2. CASE RequestAddress(fd, s)
  <2>1. Event(fd, OP_READ, s, "REQUEST_READ") /\ request_connect(s, conn[s])
    BY <1>2 DEF RequestAddress
  <2>2. /\ mode = "run" /\ s \in InUse /\ conn[s].origin_fd # conn[s].client_fd
        /\ conn[s].state = "REQUEST_READ" /\ ConnOK(conn[s], data, interest, s)
    BY <2>1, EventConn
  <2>3. SameButAddress(conn[s], s) /\ conn[s].origin_fd = NoFd
    BY <1>1, <2>2 DEF SameButAddress, ConnOK
  <2> QED
    BY <2>1, <2>2, <2>3, ConnectCore
<1>3. CASE request_resolv_done(fd, s)
  <2>1. /\ mode = "run" /\ data[fd] = s /\ conn[s].state = "REQUEST_RESOLV"
        /\ IF conn[s].res = 0 THEN request_error_write(s, conn[s])
                              ELSE request_connect(s, FirstAddress(conn[s]))
    BY <1>3 DEF request_resolv_done
  <2>2. s \in InUse /\ NoFd \notin Fds
    BY <2>1, Socks5Assumption DEF Socks5Assumption, NoFd, Core, HeapOK, InUse
  <2>3. ConnOK(conn[s], data, interest, s)
    BY <2>1, <2>2 DEF Core, RunOK
  <2>4. conn[s].origin_fd = NoFd /\ conn[s].client_fd \in Fds /\ data[conn[s].client_fd] = s
    BY <2>1, <2>3 DEF ConnOK, Holds
  <2>5. CASE conn[s].res = 0
    <3> DEFINE c == [ErrorReply(conn[s]) EXCEPT !.state = "REQUEST_WRITE"]
    <3>1. Jump(s, c, conn[s].client_fd, {OP_WRITE})
      BY <2>1, <2>5 DEF request_error_write
    <3>2. ErrorReply(conn[s]) \in Conns /\ c \in Conns
      BY <1>1, ErrorReplyFields, HandshakeContents DEF States
    <3>3. c.client_fd = conn[s].client_fd /\ c.origin_fd = conn[s].origin_fd /\ c.copy = conn[s].copy
      BY <1>1, <3>2, ErrorReplyFields DEF Conns
    <3> HIDE DEF c
    <3>4. GoodCopy(c.copy)
      BY <3>3 DEF Core
    <3>5. ConnOK(c, data, [interest EXCEPT ![conn[s].client_fd] = {OP_WRITE}], s)
      BY <2>2, <2>4, <3>3 DEF ConnOK, Holds
    <3>6. {OP_WRITE} \in Interests
      BY DEF Interests
    <3> QED
      BY <2>1, <2>2, <2>4, <3>1, <3>2, <3>3, <3>4, <3>5, <3>6, JumpCore
  <2>6. CASE conn[s].res # 0
    <3> DEFINE c == FirstAddress(conn[s])
    <3>1. conn[s].res - 1 \in 0 .. MaxAddrs
      BY <1>1, <2>6, Socks5Assumption DEF Conns, Socks5Assumption
    <3>2. SameButAddress(c, s)
      BY <1>1, <3>1 DEF SameButAddress, FirstAddress, Conns
    <3>3. request_connect(s, c)
      BY <2>1, <2>6
    <3> HIDE DEF c
    <3> QED
      BY <2>1, <2>2, <2>4, <3>2, <3>3, ConnectCore
  <2> QED
    BY <2>5, <2>6
<1> QED
  BY <1>2, <1>3

(* A further attempt, after the earlier one has failed.                    *)
LEMMA ConnectAgainCore ==
  ASSUME Core, NEW fd \in Fds, NEW s \in Structs, ConnectAgain(fd, s)
  PROVE  Core' /\ OthersKept(s)
<1> DEFINE c == [conn[s] EXCEPT !.alts = @ - 1]
           a == conn[s].alts - 1
<1>1. conn[s] \in Conns /\ conn[s].alts > 0 /\ Event(fd, OP_WRITE, s, "REQUEST_CONNECTING")
      /\ request_connect(s, c)
  BY DEF Core, ConnectAgain
<1>2. a \in 0 .. MaxAddrs
  BY <1>1, Socks5Assumption DEF Conns, Socks5Assumption
<1>3. c = [conn[s] EXCEPT !.alts = a]
  BY <1>1 DEF Conns
<1> HIDE DEF a
<1>4. SameButAddress(c, s)
  BY <1>1, <1>2, <1>3 DEF SameButAddress, Conns
<1>5. mode = "run" /\ s \in InUse /\ conn[s].origin_fd # conn[s].client_fd
      /\ conn[s].state = "REQUEST_CONNECTING"
  BY <1>1, EventConn
<1> HIDE DEF c
<1> QED
  BY <1>1, <1>4, <1>5, ConnectCore

(* Handlers that change both interests of their connection and its         *)
(* contents.                                                               *)
LEMMA TwoInterests ==
  ASSUME Core, mode = "run", NEW s \in Structs, s \in InUse,
         NEW c \in Conns, GoodCopy(c.copy), NEW i \in [Fds -> Interests],
         \A f \in Fds : data[f] # s => i[f] = interest[f],
         conn' = [conn EXCEPT ![s] = c], interest' = i, UNCHANGED <<open, data, heap>>,
         HeapOK(heap, data, [conn EXCEPT ![s] = c]),
         ConnOK(c, data, i, s)
  PROVE  Core' /\ OthersKept(s)
<1>1. interest' \in [Fds -> Interests]
  OBVIOUS
<1>2. open' = {f \in Fds : data'[f] # NoStruct}
  BY DEF Core, RunOK, Registered
<1>3. InUse' \subseteq InUse \cup {s}
  BY DEF InUse
<1>4. \A f \in Fds : data[f] # s /\ data[f] # NoStruct =>
                      data'[f] = data[f] /\ interest'[f] = interest[f]
  OBVIOUS
<1>5. ConnOK(c, data', interest', s) /\ HeapOK(heap', data', conn')
  OBVIOUS
<1> QED
  BY <1>1, <1>2, <1>3, <1>4, <1>5, CoreStep

(* REQUEST_CONNECTING, connected or out of addresses. The event comes from *)
(* the client only after a failed further attempt, and the connection then *)
(* takes its client for the origin.                                        *)
LEMMA ConnectingCore ==
  ASSUME Core, NEW fd \in Fds, NEW s \in Structs, NEW connected \in BOOLEAN,
         request_connecting(fd, s, connected)
  PROVE  Core' /\ OthersKept(s)
<1> DEFINE ss == IF connected THEN "ok" ELSE "fail"
           of == IF connected THEN fd ELSE conn[s].origin_fd
           w  == conn[s].wb + 1
           c  == [conn[s] EXCEPT !.state = "REQUEST_WRITE", !.status = ss, !.origin_fd = of,
                                 !.res = 0, !.alts = 0, !.wb = w]
           cl == conn[s].client_fd
<1>1. conn \in [Structs -> Conns] /\ conn[s] \in Conns /\ Event(fd, OP_WRITE, s, "REQUEST_CONNECTING")
  BY DEF Core, request_connecting
<1>2. conn' = [conn EXCEPT ![s] = c]
  <2> DEFINE q == [conn[s] EXCEPT !.state = "REQUEST_WRITE",
                                  !.status = IF connected THEN "ok" ELSE "fail",
                                  !.origin_fd = IF connected THEN fd ELSE @,
                                  !.res = 0, !.alts = 0, !.wb = @ + 1]
  <2>1. conn' = [conn EXCEPT ![s] = q]
    BY <1>1 DEF request_connecting
  <2>2. q = c
    BY <1>1 DEF Conns
  <2> QED
    BY <2>1, <2>2
<1>3. interest' = [interest EXCEPT ![cl] = {OP_WRITE}, ![fd] = {}] /\ UNCHANGED <<open, data, heap>>
  BY DEF request_connecting
<1>4. ss \in {"ok", "fail"} /\ of \in Fds \cup {NoFd} /\ w \in Nat /\ 0 \in 0 .. MaxAddrs
  BY <1>1, Socks5Assumption DEF Conns, Socks5Assumption
<1>5. /\ mode = "run" /\ data[fd] = s /\ s \in InUse /\ ConnOK(conn[s], data, interest, s)
      /\ fd = cl \/ fd = conn[s].origin_fd
      /\ conn[s].origin_fd # cl /\ cl \in Fds /\ conn[s].state = "REQUEST_CONNECTING"
  BY <1>1, EventConn
<1>6. OP_WRITE \in interest[fd] /\ interest \in [Fds -> Interests] /\ NoFd \notin Fds
      /\ HeapOK(heap, data, conn) /\ s # NoStruct
  BY <1>1, Socks5Assumption DEF Event, Core, Socks5Assumption, NoFd
<1>7. data[cl] = s /\ (conn[s].origin_fd # NoFd => Holds(data, conn[s].origin_fd, s))
  BY <1>5 DEF ConnOK, Holds
<1> HIDE DEF ss, w
<1>8. c \in Conns /\ c.client_fd = cl /\ c.origin_fd = of /\ c.state = "REQUEST_WRITE"
      /\ c.copy = conn[s].copy
  <2> HIDE DEF of
  <2> QED
    BY <1>1, <1>4 DEF Conns, States
<1> HIDE DEF c
<1>9. GoodCopy(c.copy)
  BY <1>8 DEF Core
<1> DEFINE i == [interest EXCEPT ![cl] = {OP_WRITE}, ![fd] = {}]
<1>10. i[fd] = {}
  BY <1>6
<1>11. HeapOK(heap, data, [conn EXCEPT ![s] = c]) /\ ConnOK(c, data, i, s)
  <2> HIDE DEF i
  <2>1. CASE fd = conn[s].origin_fd
    <3>1. c.client_fd = conn[s].client_fd /\ c.origin_fd = conn[s].origin_fd
      BY <1>8, <2>1
    <3>2. HeapOK(heap, data, [conn EXCEPT ![s] = c])
      BY <1>1, <1>6, <3>1, RewriteSame
    <3>3. ConnOK(c, data, i, s)
      BY <1>5, <1>7, <1>8, <3>1 DEF ConnOK, Holds
    <3> QED
      BY <3>2, <3>3
  <2>2. CASE fd = cl
    <3>1. conn[s].origin_fd = NoFd
      BY <1>5, <1>6, <2>2 DEF ConnOK
    <3>2. OnlyClient(data, conn[s], s)
      <4>1. \A f \in Fds : data[f] = s => f = cl
        BY <1>6, <3>1 DEF HeapOK
      <4> QED
        BY <1>5, <1>7, <4>1 DEF OnlyClient
    <3>3. c.origin_fd = NoFd \/ c.origin_fd = conn[s].client_fd
      BY <1>8, <2>2, <3>1
    <3>4. HeapOK(heap, data, [conn EXCEPT ![s] = c])
      BY <1>1, <1>6, <1>8, <3>2, <3>3, RewriteOrigin
    <3>5. ConnOK(c, data, i, s)
      BY <1>5, <1>6, <1>7, <1>8, <1>10, <2>2, <3>3 DEF ConnOK, Holds
    <3> QED
      BY <3>4, <3>5
  <2> QED
    BY <1>5, <2>1, <2>2
<1>12. i \in [Fds -> Interests] /\ \A f \in Fds : data[f] # s => i[f] = interest[f]
  BY <1>5, <1>6, <1>7 DEF Interests
<1>13. interest' = i /\ UNCHANGED <<open, data, heap>>
  BY <1>3
<1> HIDE DEF i
<1> QED
  BY <1>2, <1>5, <1>8, <1>9, <1>11, <1>12, <1>13, TwoInterests

(* REQUEST_WRITE: the copy starts.                                         *)
LEMMA RequestWriteCore ==
  ASSUME Core, NEW fd \in Fds, NEW s \in Structs, request_write(fd, s)
  PROVE  Core' /\ OthersKept(s)
<1>0. PICK rb \in EarlyBuffers :
        conn' = [conn EXCEPT ![s] =
          [@ EXCEPT !.state = "COPY", !.wb = 0, !.copy = copy_init(rb)]]
  BY DEF request_write
<1> DEFINE k  == copy_init(rb)
           c  == [conn[s] EXCEPT !.state = "COPY", !.wb = 0, !.copy = k]
           cl == conn[s].client_fd
           og == conn[s].origin_fd
<1>1. conn \in [Structs -> Conns] /\ conn[s] \in Conns /\ Event(fd, OP_WRITE, s, "REQUEST_WRITE")
  BY DEF Core, request_write
<1>2. conn' = [conn EXCEPT ![s] = c]
  BY <1>0, <1>1
<1>3. interest' = [interest EXCEPT ![cl] = {OP_READ}, ![og] = {OP_READ}] /\ UNCHANGED <<open, data, heap>>
  BY DEF request_write
<1>4. k \in Copies /\ GoodCopy(k)
  BY InitialCopy DEF GoodCopy
<1> HIDE DEF k
<1>5. c \in Conns /\ c.client_fd = cl /\ c.origin_fd = og /\ c.state = "COPY" /\ c.copy = k
  BY <1>1, <1>4 DEF Conns, States
<1> HIDE DEF c
<1>6. /\ mode = "run" /\ s \in InUse /\ ConnOK(conn[s], data, interest, s)
      /\ og # cl /\ cl \in Fds
  BY <1>1, EventConn
<1>7. HeapOK(heap, data, [conn EXCEPT ![s] = c])
  BY <1>1, <1>5, RewriteSame DEF Core
<1> DEFINE i == [interest EXCEPT ![cl] = {OP_READ}, ![og] = {OP_READ}]
<1>8. ConnOK(c, data, i, s)
  BY <1>5, <1>6 DEF ConnOK
<1>9. i \in [Fds -> Interests] /\ \A f \in Fds : data[f] # s => i[f] = interest[f]
  <2>1. \A f \in Fds : f = cl \/ f = og => data[f] = s
    <3>1. NoFd \notin Fds
      BY Socks5Assumption DEF Socks5Assumption, NoFd
    <3> QED
      BY <1>6, <3>1 DEF ConnOK, Holds
  <2>2. interest \in [Fds -> Interests]
    BY DEF Core
  <2> QED
    BY <2>1, <2>2 DEF Interests
<1>10. interest' = i
  BY <1>3
<1> HIDE DEF i
<1> QED
  BY <1>2, <1>3, <1>4, <1>5, <1>6, <1>7, <1>8, <1>9, <1>10, TwoInterests

(* The end of copy_r and copy_w: the connection ends, or both its interests *)
(* are computed again.                                                     *)
LEMMA CopyStepCore ==
  ASSUME Core, NEW fd \in Fds, NEW op, NEW s \in Structs, Event(fd, op, s, "COPY"),
         NEW e \in Ends, NEW k, GoodCopy(k), CopyStep(s, e, k)
  PROVE  Core' /\ OthersKept(s)
<1> DEFINE c  == [conn[s] EXCEPT !.copy = k]
           cl == conn[s].client_fd
           og == conn[s].origin_fd
           i  == [interest EXCEPT ![cl] = copy_compute_interests(k, "client"),
                                  ![og] = copy_compute_interests(k, "origin")]
<1>1. conn \in [Structs -> Conns] /\ conn[s] \in Conns /\ interest \in [Fds -> Interests]
  BY DEF Core
<1>2. /\ mode = "run" /\ s \in InUse /\ ConnOK(conn[s], data, interest, s)
      /\ og # cl /\ cl \in Fds /\ conn[s].state = "COPY"
  BY EventConn
<1>3. CASE copy_done(k, e)
  <2>1. socksv5_done(s)
    BY <1>3 DEF CopyStep
  <2> QED
    BY <1>2, <2>1, DoneCore
<1>4. CASE ~copy_done(k, e)
  <2>1. /\ conn' = [conn EXCEPT ![s] = c]
        /\ interest' = i
        /\ UNCHANGED <<open, data, heap>>
    BY <1>1, <1>4 DEF CopyStep
  <2>2. c \in Conns /\ c.client_fd = cl /\ c.origin_fd = og /\ c.state = "COPY" /\ c.copy = k
    BY <1>1, <1>2 DEF Conns, GoodCopy
  <2> HIDE DEF c
  <2>3. HeapOK(heap, data, [conn EXCEPT ![s] = c])
    BY <1>1, <2>2, RewriteSame DEF Core
  <2>4. ConnOK(c, data, i, s)
    BY <1>2, <2>2 DEF ConnOK
  <2>5. i \in [Fds -> Interests] /\ \A f \in Fds : data[f] # s => i[f] = interest[f]
    <3>1. \A f \in Fds : f = cl \/ f = og => data[f] = s
      <4>1. NoFd \notin Fds
        BY Socks5Assumption DEF Socks5Assumption, NoFd
      <4> QED
        BY <1>2, <4>1 DEF ConnOK, Holds
    <3>2. \A x \in Ends : copy_compute_interests(k, x) \in Interests
      BY DEF copy_compute_interests, Interests
    <3> QED
      BY <1>1, <3>1, <3>2 DEF Ends
  <2> HIDE DEF i
  <2> QED
    BY <1>2, <2>1, <2>2, <2>3, <2>4, <2>5, TwoInterests
<1> QED
  BY <1>3, <1>4

(* COPY.                                                                   *)
LEMMA CopyCore ==
  ASSUME Core, NEW fd \in Fds, NEW s \in Structs, CopyRead(fd, s) \/ CopyWrite(fd, s)
  PROVE  Core' /\ OthersKept(s)
<1> DEFINE c == conn[s].copy
           e == copy_ptr(fd, s)
<1>1. GoodCopy(c) /\ e \in Ends /\ other(e) \in Ends
  BY OtherEnd DEF Core, copy_ptr, Ends
<1>2. c.buf[e] \in Buffers /\ c.buf[other(e)] \in Buffers
  BY <1>1 DEF GoodCopy, Copies
<1>3. CASE CopyRead(fd, s)
  <2>1. PICK n \in -1 .. buffer_write_ptr(c.buf[e]) : CopyStep(s, e, copy_r(c, e, n))
    BY <1>3 DEF CopyRead
  <2>2. Event(fd, OP_READ, s, "COPY")
    BY <1>3 DEF CopyRead
  <2> HIDE DEF c, e
  <2>3. GoodCopy(copy_r(c, e, n))
    <3>1. CASE n <= 0
      BY <1>1, <3>1, HalfCloseOne DEF copy_r
    <3>2. CASE ~(n <= 0)
      <4>1. buffer_write_ptr(c.buf[e]) \in Int
        BY <1>2, BufSizeAssumption DEF Buffers, buffer_write_ptr, BufSizeAssumption
      <4>2. n \in 1 .. buffer_write_ptr(c.buf[e])
        BY <3>2, <4>1
      <4> QED
        BY <1>1, <4>2, CopyRBytes
    <3> QED
      BY <3>1, <3>2
  <2> QED
    BY <1>1, <2>1, <2>2, <2>3, CopyStepCore
<1>4. CASE CopyWrite(fd, s)
  <2>1. PICK n \in (-1 .. buffer_read_ptr(c.buf[other(e)])) \ {0} : CopyStep(s, e, copy_w(c, e, n))
    BY <1>4 DEF CopyWrite
  <2>2. Event(fd, OP_WRITE, s, "COPY")
    BY <1>4 DEF CopyWrite
  <2> HIDE DEF c, e
  <2>3. GoodCopy(copy_w(c, e, n))
    <3>1. CASE n = -1
      BY <1>1, <3>1, HalfCloseOne DEF copy_w
    <3>2. CASE n # -1
      <4>1. buffer_read_ptr(c.buf[other(e)]) \in Int
        BY <1>2 DEF Buffers, buffer_read_ptr
      <4>2. n \in 1 .. buffer_read_ptr(c.buf[other(e)])
        BY <3>2, <4>1
      <4> QED
        BY <1>1, <4>2, CopyWBytes
    <3> QED
      BY <3>1, <3>2
  <2> QED
    BY <1>1, <2>1, <2>2, <2>3, CopyStepCore
<1> QED
  BY <1>3, <1>4

(* The passive socket.                                                     *)
LEMMA AcceptCore ==
  ASSUME Core, NEW fd \in Fds, NEW s \in Structs,
         socksv5_passive_accept(fd, s) \/ AcceptFails(fd, s)
  PROVE  Core' /\ OthersKept(s)
<1>1. /\ conn \in [Structs -> Conns] /\ interest \in [Fds -> Interests]
      /\ HeapOK(heap, data, conn) /\ data \in [Fds -> Structs \cup {NoStruct}]
      /\ heap \in Heaps /\ heap.pool \subseteq heap.mem
  BY DEF Core, HeapOK
<1>2. mode = "run" /\ LowestFree(fd, open) /\ s \in Allocatable(heap)
  BY DEF socksv5_passive_accept, AcceptFails
<1>3. open = {f \in Fds : data[f] # NoStruct} /\ data[fd] = NoStruct
  BY <1>2 DEF Core, RunOK, Registered, LowestFree
<1>4. NoFd \notin Fds /\ s # NoStruct
  BY Socks5Assumption DEF Socks5Assumption, NoFd
<1>5. CASE socksv5_passive_accept(fd, s)
  <2> DEFINE c == [NoConn EXCEPT !.client_fd = fd]
  <2>1. /\ open' = open \cup {fd}
        /\ data' = [data EXCEPT ![fd] = s]
        /\ interest' = [interest EXCEPT ![fd] = {OP_READ}]
        /\ heap' = socks5_new(heap, s)
        /\ conn' = [conn EXCEPT ![s] = c]
    BY <1>5 DEF socksv5_passive_accept
  <2>2. /\ c \in Conns /\ GoodCopy(c.copy) /\ c.client_fd = fd /\ c.origin_fd = NoFd
        /\ c.state = "NULL"
    <3>1. NoConn.origin_fd = NoFd /\ NoConn.state = "NULL" /\ NoConn \in Conns
      BY NoConnOK DEF NoConn
    <3> QED
      BY <3>1, NoConnOK DEF Conns
  <2> HIDE DEF c
  <2>3. HeapOK(heap', data', conn')
    BY <1>1, <1>2, <1>3, <2>1, <2>2, AcceptOK
  <2>4. data'[fd] = s /\ \A f \in Fds : f # fd => data'[f] = data[f]
    BY <1>1, <2>1
  <2>5. open' = {f \in Fds : data'[f] # NoStruct}
    BY <1>3, <1>4, <2>1, <2>4
  <2>6. interest' \in [Fds -> Interests] /\ \A f \in Fds : f # fd => interest'[f] = interest[f]
    BY <1>1, <2>1 DEF Interests
  <2>7. InUse' \subseteq InUse \cup {s}
    BY <1>1, <1>2, <2>1, NewFields DEF InUse
  <2>8. \A f \in Fds : data[f] # s /\ data[f] # NoStruct =>
                        data'[f] = data[f] /\ interest'[f] = interest[f]
    BY <1>3, <2>4, <2>6
  <2>9. ConnOK(c, data', interest', s)
    BY <1>4, <2>2, <2>4 DEF ConnOK, Holds
  <2> QED
    BY <1>2, <2>1, <2>2, <2>3, <2>5, <2>6, <2>7, <2>8, <2>9, CoreStep
<1>6. CASE AcceptFails(fd, s)
  <2>1. heap' = socks5_destroy(socks5_new(heap, s), s) /\ UNCHANGED <<mode, open, data, interest, conn>>
    BY <1>6 DEF AcceptFails, selectorVars
  <2>2. HeapOK(heap', data', conn')
    BY <1>1, <1>2, <2>1, AcceptFailsOK
  <2>3. InUse' \subseteq InUse
    <3> DEFINE n == socks5_new(heap, s)
    <3>1. n \in Heaps /\ n.references[s] = 1 /\ n.mem \ n.pool = (heap.mem \ heap.pool) \cup {s}
      BY <1>1, <1>2, NewFields
    <3>2. heap' = socks5_destroy(n, s)
      BY <2>1
    <3> HIDE DEF n
    <3>3. heap'.mem \ heap'.pool = (n.mem \ n.pool) \ {s}
      BY <3>1, <3>2, DestroyFields
    <3> QED
      BY <3>1, <3>3 DEF InUse
  <2>4. Core'
    BY <2>1, <2>2, <2>3 DEF Core, RunOK, Registered
  <2> QED
    BY <2>1, <2>3, <2>4 DEF OthersKept
<1> QED
  BY <1>5, <1>6

(* The resolver's threads only write the list of addresses of a struct.    *)
LEMMA ResolverCore ==
  ASSUME Core, RestOK, NEW t \in threads, ResolverStep(t)
  PROVE  Core'
<1>1. CASE request_resolv_blocking(t)
  <2>1. PICK n \in 0 .. MaxAddrs : conn' = [conn EXCEPT ![t.s] = [@ EXCEPT !.res = n]]
    BY <1>1 DEF request_resolv_blocking
  <2>2. UNCHANGED <<mode, open, data, interest, heap>> /\ t.s \in Structs
    BY <1>1 DEF request_resolv_blocking, selectorVars, RestOK, Threads
  <2> DEFINE c == [conn[t.s] EXCEPT !.res = n]
  <2>3. conn \in [Structs -> Conns] /\ conn[t.s] \in Conns /\ conn' = [conn EXCEPT ![t.s] = c]
    BY <2>1, <2>2 DEF Core
  <2>4. /\ c \in Conns /\ c.client_fd = conn[t.s].client_fd /\ c.origin_fd = conn[t.s].origin_fd
        /\ c.state = conn[t.s].state /\ c.copy = conn[t.s].copy
    BY <2>3 DEF Conns
  <2> HIDE DEF c
  <2>5. HeapOK(heap', data', conn')
    BY <2>2, <2>3, <2>4, RewriteSame DEF Core
  <2>6. conn' \in [Structs -> Conns] /\ conn'[t.s] = c /\ \A s \in Structs : s # t.s => conn'[s] = conn[s]
    BY <2>2, <2>3, <2>4
  <2>7. \A s \in Structs : GoodCopy(conn'[s].copy)
    BY <2>4, <2>6 DEF Core
  <2>8. ASSUME mode = "run", NEW s \in InUse PROVE ConnOK(conn'[s], data, interest, s)
    <3>1. ConnOK(conn[s], data, interest, s) /\ s \in Structs
      BY <2>8 DEF Core, RunOK, HeapOK, Heaps, InUse
    <3>2. CASE s = t.s
      BY <2>4, <2>6, <3>1, <3>2 DEF ConnOK
    <3>3. CASE s # t.s
      BY <2>6, <3>1, <3>3
    <3> QED
      BY <3>2, <3>3
  <2>9. RunOK'
    BY <2>2, <2>8 DEF Core, RunOK, InUse, Registered
  <2> QED
    BY <2>2, <2>5, <2>6, <2>7, <2>9 DEF Core
<1>2. CASE selector_notify_block(t)
  <2>1. UNCHANGED <<mode, open, data, interest, heap, conn>>
    BY <1>2 DEF selector_notify_block, selectorVars
  <2> QED
    BY <2>1 DEF Core, RunOK, InUse, Registered
<1> QED
  BY <1>1, <1>2 DEF ResolverStep

(* selector_destroy, one item.                                             *)
LEMMA SelectorDestroyCore ==
  ASSUME Core, NEW fd \in Fds, selector_destroy(fd)
  PROVE  Core'
<1>1. /\ mode = "destroy" /\ mode' = mode /\ fd \in Registered
      /\ heap' = socks5_destroy(heap, data[fd])
      /\ data' = ClearData({fd}) /\ interest' = ClearInterest({fd})
      /\ UNCHANGED <<open, conn>>
  BY DEF selector_destroy
<1>2. data[fd] \in Structs
  BY <1>1 DEF Registered, Core, HeapOK
<1>3. data' = Unregister(data, fd)
  BY <1>1 DEF ClearData, Unregister
<1>4. HeapOK(heap', data', conn')
  BY <1>1, <1>2, <1>3, UnregisterOK DEF Core
<1>5. interest' \in [Fds -> Interests]
  BY <1>1 DEF ClearInterest, Core, Interests
<1> QED
  BY <1>1, <1>4, <1>5 DEF Core, RunOK

(* socksv5_pool_destroy: without items every struct is in the pool.        *)
LEMMA PoolDestroyCore ==
  ASSUME Core, socksv5_pool_destroy
  PROVE  Core' /\ AllFreed'
<1>1. /\ mode' = "exit" /\ Registered = {}
      /\ heap' = [heap EXCEPT !.mem = @ \ heap.pool, !.pool = {}]
      /\ UNCHANGED <<open, data, interest, conn>>
  BY DEF socksv5_pool_destroy, selectorVars
<1>2. HeapOK(heap, data, conn)
  BY DEF Core
<1>3. \A s \in Structs : RefsOf(conn[s], data, s) = 0
  BY <1>1, Socks5Assumption DEF Registered, RefsOf, Holds, Socks5Assumption
<1>4. heap.mem \ heap.pool = {}
  <2>1. ASSUME NEW s \in heap.mem \ heap.pool PROVE FALSE
    <3>1. s \in Structs /\ RefsOf(conn[s], data, s) > 0
      BY <1>2 DEF HeapOK, Heaps
    <3> QED
      BY <1>3, <3>1
  <2> QED
    BY <2>1
<1>5. /\ heap = [mem |-> heap.mem, pool |-> heap.pool, pool_size |-> heap.pool_size,
                 references |-> heap.references]
      /\ heap.pool_size \in Nat /\ heap.references \in [Structs -> Nat]
  BY <1>2 DEF HeapOK, Heaps
<1>6. heap' = [mem |-> {}, pool |-> {}, pool_size |-> heap.pool_size,
               references |-> heap.references]
  BY <1>1, <1>4, <1>5
<1>7. heap' \in Heaps /\ heap'.mem = {} /\ heap'.pool = {}
  BY <1>5, <1>6 DEF Heaps
<1>8. HeapOK(heap', data', conn')
  BY <1>1, <1>2, <1>7 DEF HeapOK, Registered
<1> QED
  BY <1>1, <1>7, <1>8 DEF Core, RunOK, AllFreed

(* The initial state.                                                      *)
LEMMA InitInv == Init => Socks5Inv
<1> SUFFICES ASSUME Init PROVE Socks5Inv
  OBVIOUS
<1>1. /\ mode = "run" /\ open = {} /\ data = [fd \in Fds |-> NoStruct]
      /\ interest = [fd \in Fds |-> {}]
      /\ heap = [mem |-> {}, pool |-> {}, pool_size |-> 0, references |-> [s \in Structs |-> 0]]
      /\ conn = [s \in Structs |-> NoConn]
  BY DEF Init
<1>2. heap \in Heaps /\ heap.mem = {} /\ heap.pool = {}
  <2> DEFINE r == [s \in Structs |-> 0]
  <2>1. r \in [Structs -> Nat]
    OBVIOUS
  <2> HIDE DEF r
  <2>2. heap = [mem |-> {}, pool |-> {}, pool_size |-> 0, references |-> r]
    BY <1>1 DEF r
  <2> QED
    BY <2>1, <2>2 DEF Heaps
<1>3. HeapOK(heap, data, conn)
  BY <1>1, <1>2 DEF HeapOK
<1>4. interest \in [Fds -> Interests]
  BY <1>1 DEF Interests
<1>5. conn \in [Structs -> Conns] /\ \A s \in Structs : GoodCopy(conn[s].copy)
  BY <1>1, NoConnOK
<1>6. RunOK
  BY <1>1, <1>2 DEF RunOK, Registered, InUse
<1>7. RestOK
  BY Socks5Assumption DEF Init, RestOK, Socks5Assumption
<1> QED
  BY <1>1, <1>3, <1>4, <1>5, <1>6, <1>7 DEF Socks5Inv, Core, AllFreed

(* The rest of the state keeps its types.                                  *)
LEMMA RestStep ==
  ASSUME RestOK, Next
  PROVE  RestOK'
<1>1. ASSUME NEW n \in 0 .. CounterMod - 1
      PROVE  (n + 1) % CounterMod \in 0 .. CounterMod - 1 /\ (n - 1) % CounterMod \in 0 .. CounterMod - 1
  BY Socks5Assumption DEF Socks5Assumption
<1>2. ASSUME NEW fd \in Fds, NEW s \in Structs, ConnectionStep(fd, s) PROVE RestOK'
  <2>1. mode' \in {"run", "destroy", "exit"} /\ registered_users' \in 0 .. MaxUsers
    BY <1>2 DEF RestOK, ConnectionStep, socksv5_passive_accept, AcceptFails, HelloPartial, hello_read,
      HelloFails, hello_write, auth_read, auth_write, HandshakeError, RequestRefused, RequestAddress,
      RequestName, request_resolv_done, request_connecting, ConnectAgain, request_write, RequestFailed,
      CopyRead, CopyWrite, userVars
  <2>2. is_auth_on' \in BOOLEAN
    BY <1>2, Zenon DEF RestOK, ConnectionStep, socksv5_passive_accept, AcceptFails, HelloPartial, hello_read,
      HelloFails, hello_write, auth_read, auth_write, HandshakeError, RequestRefused, RequestAddress,
      RequestName, request_resolv_done, request_connecting, ConnectAgain, request_write, RequestFailed,
      CopyRead, CopyWrite, userVars, hello_read_init
  <2>3. threads' \in SUBSET Threads /\ jobs' \in SUBSET Fds
    <3>1. [s |-> s, fd |-> fd, phase |-> "resolv"] \in Threads
      BY <1>2 DEF Threads
    <3>2. threads \in SUBSET Threads /\ jobs \in SUBSET Fds
      BY DEF RestOK
    <3>3. /\ threads' = threads \/ threads' = threads \cup {[s |-> s, fd |-> fd, phase |-> "resolv"]}
          /\ jobs' = jobs \/ jobs' = jobs \ {fd}
      BY <1>2 DEF ConnectionStep, socksv5_passive_accept, AcceptFails, HelloPartial, hello_read,
      HelloFails, hello_write, auth_read, auth_write, HandshakeError, RequestRefused, RequestAddress,
      RequestName, request_resolv_done, request_connecting, ConnectAgain, request_write, RequestFailed,
      CopyRead, CopyWrite, resolverVars, TakeJob
    <3> QED
      BY <3>1, <3>2, <3>3
  <2>4. historic_connections' \in 0 .. CounterMod - 1
    BY <1>1, <1>2 DEF RestOK, ConnectionStep, socksv5_passive_accept, AcceptFails, HelloPartial, hello_read,
      HelloFails, hello_write, auth_read, auth_write, HandshakeError, RequestRefused, RequestAddress,
      RequestName, request_resolv_done, request_connecting, ConnectAgain, request_write, RequestFailed,
      CopyRead, CopyWrite, statVars
  <2>5. current_connections' \in 0 .. CounterMod - 1
    BY <1>1, <1>2 DEF RestOK, ConnectionStep, socksv5_passive_accept, AcceptFails, HelloPartial, hello_read,
      HelloFails, hello_write, auth_read, auth_write, HandshakeError, RequestRefused, RequestAddress,
      RequestName, request_resolv_done, request_connecting, ConnectAgain, request_write, RequestFailed,
      CopyRead, CopyWrite, statVars, CopyStep, CountDone
  <2> QED
    BY <2>1, <2>2, <2>3, <2>4, <2>5 DEF RestOK
<1>3. ASSUME NEW t \in threads, ResolverStep(t) PROVE RestOK'
  <2>1. t \in Threads /\ [t EXCEPT !.phase = "notify"] \in Threads /\ t.fd \in Fds
    BY <1>3 DEF RestOK, Threads
  <2>2. threads' \in SUBSET Threads /\ jobs' \in SUBSET Fds
    BY <1>3, <2>1 DEF RestOK, ResolverStep, request_resolv_blocking, selector_notify_block
  <2> QED
    BY <1>3, <2>2 DEF RestOK, ResolverStep, request_resolv_blocking, selector_notify_block,
                      userVars, statVars
<1>4. CASE socksv5_register_user \/ socksv5_unregister_user
  <2>1. registered_users' \in 0 .. MaxUsers
    BY <1>4, Socks5Assumption DEF RestOK, socksv5_register_user, socksv5_unregister_user, Socks5Assumption
  <2> QED
    BY <1>4, <2>1 DEF RestOK, socksv5_register_user, socksv5_unregister_user, resolverVars, statVars
<1>5. CASE sigterm_handler \/ (\E fd \in Fds : selector_destroy(fd)) \/ socksv5_pool_destroy \/ Exited
  BY <1>5 DEF RestOK, sigterm_handler, selector_destroy, socksv5_pool_destroy, Exited, vars,
              resolverVars, userVars, statVars
<1> QED
  BY <1>2, <1>3, <1>4, <1>5 DEF Next

(* Only the last step of main() ends the program.                          *)
LEMMA OnlyMainExits ==
  ASSUME Next, mode' = "exit"
  PROVE  socksv5_pool_destroy \/ Exited
<1>1. ASSUME NEW fd \in Fds, NEW s \in Structs, ConnectionStep(fd, s) PROVE mode' = "run"
  BY <1>1 DEF ConnectionStep, socksv5_passive_accept, AcceptFails, HelloPartial, hello_read,
    HelloFails, hello_write, auth_read, auth_write, HandshakeError, RequestRefused, RequestAddress,
    RequestName, request_resolv_done, request_connecting, ConnectAgain, request_write, RequestFailed,
    CopyRead, CopyWrite, Event
<1>2. ASSUME NEW t \in threads, ResolverStep(t) PROVE mode' # "exit"
  BY <1>2 DEF ResolverStep, request_resolv_blocking, selector_notify_block
<1>3. socksv5_register_user \/ socksv5_unregister_user \/ sigterm_handler
        \/ (\E fd \in Fds : selector_destroy(fd)) => mode' # "exit"
  BY DEF socksv5_register_user, socksv5_unregister_user, sigterm_handler, selector_destroy
<1> QED
  BY <1>1, <1>2, <1>3 DEF Next

(* Every step keeps the invariant.                                         *)
LEMMA InvStep == Socks5Inv /\ [Next]_vars => Socks5Inv'
<1> SUFFICES ASSUME Core, RestOK, AllFreed, [Next]_vars PROVE Socks5Inv'
  BY DEF Socks5Inv
<1>1. CASE UNCHANGED vars
  BY <1>1 DEF vars, selectorVars, resolverVars, userVars, statVars, Socks5Inv, Core, RestOK, AllFreed,
              RunOK, InUse, Registered
<1>2. CASE Next
  <2>1. RestOK'
    BY <1>2, RestStep
  <2>2. ASSUME NEW fd \in Fds, NEW s \in Structs, ConnectionStep(fd, s) PROVE Core'
    BY <2>2, AcceptCore, HelloCore, HelloWriteCore, AuthReadCore, AuthWriteCore, EndCore, RequestCore,
       FirstConnectCore, ConnectAgainCore, ConnectingCore, RequestWriteCore, CopyCore
    DEF ConnectionStep
  <2>3. ASSUME socksv5_register_user \/ socksv5_unregister_user \/ sigterm_handler \/ Exited
        PROVE  Core'
    <3>1. UNCHANGED <<open, data, interest, heap, conn>> /\ (mode' = mode \/ mode' = "destroy")
      BY <2>3 DEF socksv5_register_user, socksv5_unregister_user, sigterm_handler, Exited, vars,
                  selectorVars
    <3> QED
      BY <3>1 DEF Core, RunOK, InUse, Registered
  <2>4. Core'
    BY <1>2, <2>2, <2>3, ResolverCore, SelectorDestroyCore, PoolDestroyCore DEF Next
  <2>5. AllFreed'
    <3>1. CASE Exited
      BY <3>1 DEF Exited, vars, AllFreed
    <3> QED
      BY <1>2, <3>1, OnlyMainExits, PoolDestroyCore DEF AllFreed
  <2> QED
    BY <2>1, <2>4, <2>5 DEF Socks5Inv
<1> QED
  BY <1>1, <1>2

-----------------------------------------------------------------------------
(* The results.                                                            *)

(* The invariant holds for any number of descriptors, structs, addresses   *)
(* and users, any pool and any of the faults.                              *)
THEOREM Socks5Invariant == Spec => []Socks5Inv
BY InitInv, InvStep, PTL DEF Spec

(* The state of the proxy stays well typed: in particular no reference     *)
(* count falls below zero in socks5_destroy.                               *)
THEOREM Socks5Types == Spec => []TypeOK
<1>1. Socks5Inv => TypeOK
  BY DEF Socks5Inv, Core, RestOK, HeapOK, Heaps, TypeOK
<1> QED
  BY <1>1, Socks5Invariant, PTL

(* `references' is exact on every path through accept, connect, retry,     *)
(* failure and teardown: no struct is pooled or freed while an item of the *)
(* selector points to it, and none in use is without one.                  *)
THEOREM Socks5RefCounts == Spec => []RefCounts
<1>1. \A s : References(s) = RefsOf(conn[s], data, s)
  BY DEF References, RefsOf, Holds
<1>2. Socks5Inv => RefCounts
  BY <1>1 DEF Socks5Inv, Core, HeapOK, RefCounts, InUse
<1> QED
  BY <1>2, Socks5Invariant, PTL

(* While the server runs exactly the registered descriptors are open.      *)
THEOREM Socks5Descriptors == Spec => []DescriptorsAccounted
<1>1. Socks5Inv => DescriptorsAccounted
  BY DEF Socks5Inv, Core, RunOK, DescriptorsAccounted
<1> QED
  BY <1>1, Socks5Invariant, PTL

(* The teardown of main() frees every struct socks5.                       *)
THEOREM Socks5AllFreed == Spec => []AllFreed
<1>1. Socks5Inv => AllFreed
  BY DEF Socks5Inv
<1> QED
  BY <1>1, Socks5Invariant, PTL

-----------------------------------------------------------------------------
(* What happens inside a connection, on top of that invariant: what its    *)
(* descriptors are watched for, its list of addresses, its replies, its    *)
(* user, its resolver thread and its place in the statistics.              *)

-----------------------------------------------------------------------------
(* The inductive invariant. c are the contents of a struct in use, i the   *)
(* interests of the items.                                                 *)

(* What the descriptors of a connection are watched for, in every state.   *)
(* Only after a failed further attempt to connect, and when COPY starts    *)
(* with early bytes, is it not what the comments of enum socks_v5state say. *)
Computed(c, i) ==
  /\ i[c.client_fd] = copy_compute_interests(c.copy, "client")
  /\ i[c.origin_fd] = copy_compute_interests(c.copy, "origin")

Entered(c, i) ==
  EarlyCopy(c.copy) /\ i[c.client_fd] = {OP_READ} /\ i[c.origin_fd] = {OP_READ}

WatchOK(c, i) ==
  /\ c.state \in {"NULL", "HELLO_READ", "AUTH_READ", "REQUEST_READ"} => i[c.client_fd] = {OP_READ}
  /\ c.state \in {"HELLO_WRITE", "AUTH_WRITE"} => i[c.client_fd] = {OP_WRITE}
  /\ c.state = "REQUEST_RESOLV" => i[c.client_fd] = {}
  /\ c.state = "REQUEST_CONNECTING" =>
       \/ c.origin_fd # NoFd /\ i[c.origin_fd] = {OP_WRITE} /\ i[c.client_fd] = {}
       \/ c.origin_fd = NoFd /\ i[c.client_fd] = {OP_WRITE} /\ "retry" \in Faults
  /\ c.state = "REQUEST_WRITE" =>
       \/ i[c.client_fd] = {OP_WRITE} /\ (c.origin_fd # NoFd => i[c.origin_fd] = {})
       \/ i[c.client_fd] = {} /\ c.origin_fd \in {NoFd, c.client_fd} /\ "retry" \in Faults
  /\ c.state = "COPY" => c.origin_fd # NoFd /\ (Computed(c, i) \/ Entered(c, i))

(* The request names its destination only once it is parsed; the current   *)
(* address is in the list while a name is being connected to, and the list *)
(* is gone when the reply says that the connection is established.         *)
ListOK(c) ==
  /\ c.state \in {"NULL", "HELLO_READ", "HELLO_WRITE", "AUTH_READ", "AUTH_WRITE",
                  "REQUEST_READ"} => ~c.domain
  /\ c.state = "REQUEST_CONNECTING" /\ c.domain => c.alts < c.res
  /\ c.state = "REQUEST_WRITE" /\ c.status = "ok" => c.res = 0 /\ c.origin_fd # NoFd
  /\ c.state = "COPY" => c.res = 0

(* write_buffer holds one reply in the states that send it, none in the    *)
(* others, unless a further attempt to connect may fail at once.           *)
ReplyOK(c) ==
  "retry" \in Faults \/
    c.wb = IF c.state \in {"HELLO_WRITE", "AUTH_WRITE", "REQUEST_WRITE"} THEN 1 ELSE 0

LifeOK(c, i) == WatchOK(c, i) /\ ListOK(c) /\ ReplyOK(c)

(* While authentication is on, client_uname is set as soon as a user was   *)
(* found.                                                                  *)
UserOK(c) ==
  \/ c.uname
  \/ c.state \in {"NULL", "HELLO_READ", "HELLO_WRITE", "AUTH_READ"}
  \/ c.state = "AUTH_WRITE" /\ c.status = "fail"

(* Of the connections, ...                                                 *)
LivesOK == mode = "run" => \A s \in InUse : LifeOK(conn[s], interest)

UsersOK == is_auth_on => \A s \in InUse : UserOK(conn[s])

(* ... and of the names that are being resolved.                           *)
JobsLive == mode = "run" => \A fd \in jobs : fd \in Registered /\ conn[data[fd]].state = "REQUEST_RESOLV"

LifeInv == Socks5Inv /\ LivesOK /\ UsersOK /\ JobsLive /\ ResolverTargetsLive

-----------------------------------------------------------------------------
(* What a step for connection s does to it.                                *)

(* If s is in use after the step, it is as the invariant says; and a step  *)
(* that leaves the contents of s as they were leaves its items alone.      *)
Lived(s) ==
  /\ s \in InUse' => LifeOK(conn'[s], interest') /\ (is_auth_on' => UserOK(conn'[s]))
  /\ conn'[s] = conn[s] =>
       \A f \in Fds : data[f] = s => data'[f] = s /\ interest'[f] = interest[f]

(* A struct without items is not in use.                                   *)
LEMMA NotInUse ==
  ASSUME NEW h, NEW d, NEW cn, HeapOK(h, d, cn), NEW s \in Structs, \A f \in Fds : d[f] # s
  PROVE  s \notin h.mem \ h.pool
<1>1. RefsOf(cn[s], d, s) = 0
  BY DEF RefsOf, Holds
<1> QED
  BY <1>1 DEF HeapOK

(* What a handler finds when it is called for op on fd, in state st.       *)
Finds(fd, op, s, st) ==
  /\ mode = "run" /\ data[fd] = s /\ s \in InUse /\ op \in interest[fd]
  /\ interest \in [Fds -> Interests] /\ conn \in [Structs -> Conns] /\ conn[s] \in Conns
  /\ conn[s].state = st
  /\ ConnOK(conn[s], data, interest, s) /\ LifeOK(conn[s], interest)
  /\ is_auth_on => UserOK(conn[s])
  /\ conn[s].client_fd \in Fds /\ conn[s].origin_fd # conn[s].client_fd
  /\ fd = conn[s].client_fd \/ fd = conn[s].origin_fd
  /\ st \in EarlyStates => fd = conn[s].client_fd /\ conn[s].origin_fd = NoFd
  /\ st # "REQUEST_RESOLV"

(* What an event finds of its connection.                                  *)
LEMMA EventLife ==
  ASSUME LifeInv, NEW fd \in Fds, NEW op, NEW s \in Structs, NEW st, Event(fd, op, s, st)
  PROVE  Finds(fd, op, s, st)
<1>1. Core
  BY DEF LifeInv, Socks5Inv
<1>2. /\ mode = "run" /\ data[fd] = s /\ s \in InUse /\ conn[s] \in Conns
      /\ ConnOK(conn[s], data, interest, s)
      /\ fd = conn[s].client_fd \/ fd = conn[s].origin_fd
      /\ conn[s].origin_fd # conn[s].client_fd
      /\ conn[s].client_fd \in Fds
      /\ conn[s].state = st
  BY <1>1, EventConn
<1>3. LifeOK(conn[s], interest) /\ (is_auth_on => UserOK(conn[s]))
  BY <1>2 DEF LifeInv, LivesOK, UsersOK
<1>4. st \in EarlyStates => fd = conn[s].client_fd /\ conn[s].origin_fd = NoFd
  <2>1. NoFd \notin Fds
    BY Socks5Assumption DEF Socks5Assumption, NoFd
  <2> QED
    BY <1>2, <2>1 DEF ConnOK, EarlyStates
<1>5. op \in interest[fd] /\ interest \in [Fds -> Interests] /\ conn \in [Structs -> Conns]
  BY <1>1 DEF Event, Core
<1>6. st # "REQUEST_RESOLV"
  BY <1>2, <1>3, <1>4, <1>5 DEF LifeOK, WatchOK, EarlyStates
<1> QED
  BY <1>2, <1>3, <1>4, <1>5, <1>6 DEF Finds

(* A handler of the handshake that stays with its client.                  *)
LEMMA JumpLived ==
  ASSUME LifeInv, NEW fd \in Fds, NEW op, NEW s \in Structs, NEW st \in EarlyStates,
         Event(fd, op, s, st), NEW c, NEW ops, Jump(s, c, fd, ops), c # conn[s],
         LifeOK(c, [interest EXCEPT ![fd] = ops]), is_auth_on' => UserOK(c)
  PROVE  Lived(s)
<1>1. conn'[s] = c /\ interest' = [interest EXCEPT ![fd] = ops]
  BY DEF Jump, LifeInv, Socks5Inv, Core
<1> QED
  BY <1>1 DEF Lived

(* What the end of a connection leaves.                                    *)
LEMMA DoneLived ==
  ASSUME LifeInv, NEW fd \in Fds, NEW op, NEW s \in Structs, NEW st, Event(fd, op, s, st),
         socksv5_done(s), Core'
  PROVE  Lived(s) /\ s \notin InUse'
<1>1. s \in InUse /\ ConnOK(conn[s], data, interest, s) /\ conn \in [Structs -> Conns]
      /\ HeapOK(heap, data, conn)
  BY EventLife DEF Finds, LifeInv, Socks5Inv, Core
<1>2. NoFd \notin Fds /\ s # NoStruct
  BY Socks5Assumption DEF Socks5Assumption, NoFd
<1>3. conn'[s] # conn[s]
  <2>1. conn'[s].client_fd = NoFd
    BY <1>1 DEF socksv5_done, NoConn
  <2> QED
    BY <1>1, <1>2, <2>1 DEF ConnOK, Holds
<1>4. \A f \in Fds : data'[f] # s
  <2>1. data' = [f \in Fds |-> IF f \in {conn[s].client_fd, conn[s].origin_fd} \ {NoFd}
                               THEN NoStruct ELSE data[f]]
    BY DEF socksv5_done, ClearData
  <2>2. \A f \in Fds : data[f] = s => f = conn[s].client_fd \/ f = conn[s].origin_fd
    BY <1>1, <1>2 DEF HeapOK
  <2> QED
    BY <1>2, <2>1, <2>2
<1>5. s \notin InUse'
  BY <1>4, NotInUse DEF Core, InUse
<1> QED
  BY <1>3, <1>5 DEF Lived

-----------------------------------------------------------------------------
(* The handlers.                                                           *)

(* HELLO.                                                                  *)
LEMMA HelloLived ==
  ASSUME LifeInv, NEW fd \in Fds, NEW s \in Structs,
         HelloPartial(fd, s) \/ hello_read(fd, s) \/ hello_write(fd, s)
  PROVE  Lived(s)
<1>1. CASE HelloPartial(fd, s)
  <2> DEFINE c == [conn[s] EXCEPT !.state = "HELLO_READ"]
  <2>1. Event(fd, OP_READ, s, "NULL") /\ Jump(s, c, fd, {OP_READ})
    BY <1>1 DEF HelloPartial
  <2>0. Finds(fd, OP_READ, s, "NULL")
    BY <2>1, EventLife
  <2>2. /\ conn[s] \in Conns /\ LifeOK(conn[s], interest) /\ conn[s].state = "NULL"
        /\ fd = conn[s].client_fd /\ interest \in [Fds -> Interests]
    BY <2>0 DEF Finds, EarlyStates
  <2>3. /\ c.state = "HELLO_READ" /\ c.client_fd = fd /\ c.domain = conn[s].domain
        /\ c.wb = conn[s].wb
    BY <2>2 DEF Conns
  <2> HIDE DEF c
  <2>4. LifeOK(c, [interest EXCEPT ![fd] = {OP_READ}]) /\ UserOK(c) /\ c # conn[s]
    BY <2>2, <2>3 DEF LifeOK, WatchOK, ListOK, ReplyOK, UserOK
  <2> QED
    BY <2>1, <2>4, JumpLived DEF EarlyStates
<1>2. CASE hello_read(fd, s)
  <2> DEFINE c == [conn[s] EXCEPT !.state = "HELLO_WRITE", !.wb = @ + 1]
  <2>1. PICK st \in {"NULL", "HELLO_READ"} : Event(fd, OP_READ, s, st)
    BY <1>2 DEF hello_read
  <2>2. Jump(s, c, fd, {OP_WRITE})
    BY <1>2 DEF hello_read
  <2>0. Finds(fd, OP_READ, s, st)
    BY <2>1, EventLife
  <2>3. /\ conn[s] \in Conns /\ LifeOK(conn[s], interest) /\ conn[s].state = st
        /\ fd = conn[s].client_fd /\ interest \in [Fds -> Interests]
    BY <2>0 DEF Finds, EarlyStates
  <2>4. /\ c.state = "HELLO_WRITE" /\ c.client_fd = fd /\ c.domain = conn[s].domain
        /\ c.wb = conn[s].wb + 1
    BY <2>3 DEF Conns
  <2> HIDE DEF c
  <2>5. LifeOK(c, [interest EXCEPT ![fd] = {OP_WRITE}]) /\ UserOK(c) /\ c # conn[s]
    BY <2>3, <2>4 DEF LifeOK, WatchOK, ListOK, ReplyOK, UserOK
  <2> QED
    BY <2>1, <2>2, <2>5, JumpLived DEF EarlyStates
<1>3. CASE hello_write(fd, s)
  <2> DEFINE st == IF is_auth_on THEN "AUTH_READ" ELSE "REQUEST_READ"
             c  == [conn[s] EXCEPT !.state = st, !.status = "fail", !.wb = 0]
  <2>1. Event(fd, OP_WRITE, s, "HELLO_WRITE") /\ Jump(s, c, fd, {OP_READ})
        /\ is_auth_on' = is_auth_on
    BY <1>3 DEF hello_write, userVars
  <2>0. Finds(fd, OP_WRITE, s, "HELLO_WRITE")
    BY <2>1, EventLife
  <2>2. /\ conn[s] \in Conns /\ LifeOK(conn[s], interest) /\ conn[s].state = "HELLO_WRITE"
        /\ fd = conn[s].client_fd /\ interest \in [Fds -> Interests]
    BY <2>0 DEF Finds, EarlyStates
  <2>3. /\ st \in {"AUTH_READ", "REQUEST_READ"} /\ (is_auth_on' => st = "AUTH_READ")
    BY <2>1
  <2> HIDE DEF st
  <2>4. /\ c.state = st /\ c.client_fd = fd /\ c.domain = conn[s].domain /\ c.wb = 0
    BY <2>2 DEF Conns
  <2> HIDE DEF c
  <2>5. LifeOK(c, [interest EXCEPT ![fd] = {OP_READ}]) /\ c # conn[s]
    BY <2>2, <2>3, <2>4 DEF LifeOK, WatchOK, ListOK, ReplyOK
  <2>6. is_auth_on' => UserOK(c)
    BY <2>3, <2>4 DEF UserOK
  <2> QED
    BY <2>1, <2>5, <2>6, JumpLived DEF EarlyStates
<1> QED
  BY <1>1, <1>2, <1>3

(* AUTH.                                                                   *)
LEMMA AuthLived ==
  ASSUME LifeInv, NEW fd \in Fds, NEW s \in Structs, auth_read(fd, s) \/ auth_write(fd, s), Core'
  PROVE  Lived(s)
<1>1. CASE auth_read(fd, s)
  <2>1. PICK found \in {u \in BOOLEAN : u => registered_users > 0} :
          Jump(s, [conn[s] EXCEPT !.state  = "AUTH_WRITE",
                                  !.status = IF found THEN "ok" ELSE "fail",
                                  !.uname  = found,
                                  !.wb     = @ + 1], fd, {OP_WRITE})
    BY <1>1 DEF auth_read
  <2> DEFINE ss == IF found THEN "ok" ELSE "fail"
             c  == [conn[s] EXCEPT !.state = "AUTH_WRITE", !.status = ss, !.uname = found, !.wb = @ + 1]
  <2>2. Event(fd, OP_READ, s, "AUTH_READ") /\ Jump(s, c, fd, {OP_WRITE}) /\ found \in BOOLEAN
    BY <1>1, <2>1 DEF auth_read
  <2>0. Finds(fd, OP_READ, s, "AUTH_READ")
    BY <2>2, EventLife
  <2>3. /\ conn[s] \in Conns /\ LifeOK(conn[s], interest) /\ conn[s].state = "AUTH_READ"
        /\ fd = conn[s].client_fd /\ interest \in [Fds -> Interests]
    BY <2>0 DEF Finds, EarlyStates
  <2>4. found \/ ss = "fail"
    OBVIOUS
  <2> HIDE DEF ss
  <2>5. /\ c.state = "AUTH_WRITE" /\ c.client_fd = fd /\ c.domain = conn[s].domain
        /\ c.wb = conn[s].wb + 1 /\ c.status = ss /\ c.uname = found
    BY <2>3 DEF Conns
  <2> HIDE DEF c
  <2>6. LifeOK(c, [interest EXCEPT ![fd] = {OP_WRITE}]) /\ c # conn[s]
    BY <2>3, <2>5 DEF LifeOK, WatchOK, ListOK, ReplyOK
  <2>7. UserOK(c)
    BY <2>4, <2>5 DEF UserOK
  <2> QED
    BY <2>2, <2>6, <2>7, JumpLived DEF EarlyStates
<1>2. CASE auth_write(fd, s)
  <2> DEFINE c == [conn[s] EXCEPT !.state = "REQUEST_READ", !.status = "fail", !.wb = 0]
  <2>1. Event(fd, OP_WRITE, s, "AUTH_WRITE") /\ is_auth_on' = is_auth_on
    BY <1>2 DEF auth_write, userVars
  <2>2. \/ conn[s].status = "ok" /\ Jump(s, c, fd, {OP_READ})
        \/ socksv5_done(s)
    BY <1>2 DEF auth_write
  <2>0. Finds(fd, OP_WRITE, s, "AUTH_WRITE")
    BY <2>1, EventLife
  <2>3. /\ conn[s] \in Conns /\ LifeOK(conn[s], interest) /\ conn[s].state = "AUTH_WRITE"
        /\ fd = conn[s].client_fd /\ interest \in [Fds -> Interests]
        /\ is_auth_on => UserOK(conn[s])
    BY <2>0 DEF Finds, EarlyStates
  <2>4. CASE conn[s].status = "ok" /\ Jump(s, c, fd, {OP_READ})
    <3>1. /\ c.state = "REQUEST_READ" /\ c.client_fd = fd /\ c.domain = conn[s].domain
          /\ c.wb = 0 /\ c.uname = conn[s].uname
      BY <2>3 DEF Conns
    <3> HIDE DEF c
    <3>2. LifeOK(c, [interest EXCEPT ![fd] = {OP_READ}]) /\ c # conn[s]
      BY <2>3, <3>1 DEF LifeOK, WatchOK, ListOK, ReplyOK
    <3>3. is_auth_on' => UserOK(c)
      BY <2>1, <2>3, <2>4, <3>1 DEF UserOK
    <3> QED
      BY <2>1, <2>4, <3>2, <3>3, JumpLived DEF EarlyStates
  <2>5. CASE socksv5_done(s)
    BY <2>1, <2>5, DoneLived
  <2> QED
    BY <2>2, <2>4, <2>5
<1> QED
  BY <1>1, <1>2

(* The handlers that end their connection.                                 *)
LEMMA EndLived ==
  ASSUME LifeInv, NEW fd \in Fds, NEW s \in Structs,
         HelloFails(fd, s) \/ HandshakeError(fd, s) \/ RequestFailed(fd, s), Core'
  PROVE  Lived(s) /\ s \notin InUse'
<1>1. socksv5_done(s) /\ \E op \in {OP_READ, OP_WRITE}, st \in States : Event(fd, op, s, st)
  BY DEF HelloFails, HandshakeError, RequestFailed, States
<1> QED
  BY <1>1, DoneLived

(* REQUEST_READ, with a request that is refused or names its destination.  *)
LEMMA RequestLived ==
  ASSUME LifeInv, NEW fd \in Fds, NEW s \in Structs, RequestRefused(fd, s) \/ RequestName(fd, s)
  PROVE  Lived(s)
<1>1. Event(fd, OP_READ, s, "REQUEST_READ") /\ is_auth_on' = is_auth_on
  BY DEF RequestRefused, RequestName, userVars
<1>2. Finds(fd, OP_READ, s, "REQUEST_READ")
  BY <1>1, EventLife
<1>3. /\ conn[s] \in Conns /\ LifeOK(conn[s], interest) /\ conn[s].state = "REQUEST_READ"
      /\ fd = conn[s].client_fd /\ conn[s].origin_fd = NoFd /\ interest \in [Fds -> Interests]
      /\ is_auth_on => UserOK(conn[s])
  BY <1>2 DEF Finds, EarlyStates
<1>4. CASE RequestRefused(fd, s)
  <2> DEFINE w == conn[s].wb + 1
             c == [conn[s] EXCEPT !.status = "fail", !.wb = w, !.state = "REQUEST_WRITE"]
  <2>1. Jump(s, c, fd, {OP_WRITE})
    BY <1>3, <1>4 DEF RequestRefused, request_error_write, ErrorReply
  <2>2. /\ c.state = "REQUEST_WRITE" /\ c.client_fd = fd /\ c.origin_fd = NoFd /\ c.status = "fail"
        /\ c.wb = conn[s].wb + 1 /\ c.uname = conn[s].uname
    BY <1>3 DEF Conns
  <2> HIDE DEF c
  <2>3. LifeOK(c, [interest EXCEPT ![fd] = {OP_WRITE}]) /\ c # conn[s]
    BY <1>3, <2>2 DEF LifeOK, WatchOK, ListOK, ReplyOK
  <2>4. is_auth_on' => UserOK(c)
    BY <1>1, <1>3, <2>2 DEF UserOK
  <2> QED
    BY <1>1, <2>1, <2>3, <2>4, JumpLived DEF EarlyStates
<1>5. CASE RequestName(fd, s)
  <2> DEFINE c == [conn[s] EXCEPT !.state = "REQUEST_RESOLV", !.domain = TRUE]
  <2>1. Jump(s, c, fd, {})
    BY <1>5 DEF RequestName
  <2>2. /\ c.state = "REQUEST_RESOLV" /\ c.client_fd = fd
        /\ c.wb = conn[s].wb /\ c.uname = conn[s].uname
    BY <1>3 DEF Conns
  <2> HIDE DEF c
  <2>3. LifeOK(c, [interest EXCEPT ![fd] = {}]) /\ c # conn[s]
    BY <1>3, <2>2 DEF LifeOK, WatchOK, ListOK, ReplyOK
  <2>4. is_auth_on' => UserOK(c)
    BY <1>1, <1>3, <2>2 DEF UserOK
  <2> QED
    BY <1>1, <2>1, <2>3, <2>4, JumpLived DEF EarlyStates
<1> QED
  BY <1>4, <1>5

(* request_connect, first or further attempt.                              *)
LEMMA ConnectLived ==
  ASSUME LifeInv, mode = "run", NEW s \in Structs, s \in InUse,
         conn[s].origin_fd # conn[s].client_fd, NEW c, SameButAddress(c, s),
         conn[s].state \in {"REQUEST_READ", "REQUEST_RESOLV", "REQUEST_CONNECTING"},
         conn[s].state = "REQUEST_CONNECTING" => c.alts # conn[s].alts,
         c.wb = conn[s].wb, c.uname = conn[s].uname, c.domain => c.alts < c.res,
         request_connect(s, c), is_auth_on' = is_auth_on
  PROVE  Lived(s)
<1> DEFINE old == {conn[s].origin_fd} \ {NoFd}
           h   == IF old = {} THEN heap ELSE socks5_destroy(heap, s)
           cl  == conn[s].client_fd
<1>1. NoFd \notin Fds /\ s # NoStruct
  BY Socks5Assumption DEF Socks5Assumption, NoFd
<1>2. /\ Core /\ LifeOK(conn[s], interest) /\ (is_auth_on => UserOK(conn[s]))
      /\ conn \in [Structs -> Conns] /\ interest \in [Fds -> Interests]
      /\ ConnOK(conn[s], data, interest, s) /\ open = Registered
  BY DEF LifeInv, Socks5Inv, LivesOK, UsersOK, Core, RunOK
<1>3. /\ c \in Conns /\ c.client_fd = cl /\ c.origin_fd = conn[s].origin_fd
      /\ c.state = conn[s].state
  BY DEF SameButAddress
<1>4. old = IF c.state = "REQUEST_CONNECTING" THEN {c.origin_fd} \ {NoFd} ELSE {}
  BY <1>2, <1>3 DEF ConnOK
<1>5. \/ ConnectStarts(s, c, old, h)
      \/ (c.state = "REQUEST_CONNECTING" => "retry" \in Faults) /\ ConnectFails(s, c, old, h)
  BY <1>4 DEF request_connect
<1>6. cl \in Fds /\ data[cl] = s
  BY <1>2 DEF ConnOK, Holds
<1> HIDE DEF h
<1>7. CASE ConnectStarts(s, c, old, h)
  <2>1. PICK fd \in Fds :
          /\ LowestFree(fd, open \ old)
          /\ interest' = [ClearInterest(old) EXCEPT ![c.client_fd] = {}, ![fd] = {OP_WRITE}]
          /\ conn' = [conn EXCEPT ![s] = [c EXCEPT !.state = "REQUEST_CONNECTING", !.origin_fd = fd]]
    BY <1>7 DEF ConnectStarts
  <2> DEFINE k == [c EXCEPT !.state = "REQUEST_CONNECTING", !.origin_fd = fd]
  <2>2. /\ k.state = "REQUEST_CONNECTING" /\ k.client_fd = cl /\ k.origin_fd = fd
        /\ k.domain = c.domain /\ k.alts = c.alts /\ k.res = c.res /\ k.wb = conn[s].wb
        /\ k.uname = conn[s].uname
    BY <1>3 DEF Conns
  <2> HIDE DEF k
  <2>3. conn'[s] = k
    BY <1>2, <2>1 DEF k
  <2>4. fd # cl
    BY <1>1, <1>2, <1>6, <2>1 DEF LowestFree, Registered
  <2>5. ClearInterest(old) = [f \in Fds |-> IF f \in old THEN {} ELSE interest[f]]
    BY DEF ClearInterest
  <2>6. interest'[fd] = {OP_WRITE} /\ interest'[cl] = {}
    BY <1>3, <1>6, <2>1, <2>4, <2>5
  <2>7. LifeOK(k, interest')
    BY <1>1, <1>2, <2>2, <2>6 DEF LifeOK, WatchOK, ListOK, ReplyOK
  <2>8. is_auth_on' => UserOK(k)
    BY <1>2, <2>2 DEF UserOK
  <2>9. k # conn[s]
    BY <2>2
  <2> QED
    BY <2>3, <2>7, <2>8, <2>9 DEF Lived
<1>8. CASE (c.state = "REQUEST_CONNECTING" => "retry" \in Faults) /\ ConnectFails(s, c, old, h)
  <2> DEFINE st == IF c.state = "REQUEST_CONNECTING" THEN c.state ELSE "REQUEST_WRITE"
             w  == c.wb + 1
             k  == [c EXCEPT !.status = "fail", !.wb = w, !.state = st, !.origin_fd = NoFd]
  <2>1. /\ interest' = [ClearInterest(old) EXCEPT ![c.client_fd] = {OP_WRITE}]
        /\ conn' = [conn EXCEPT ![s] = [ErrorReply(c) EXCEPT
                      !.state     = IF c.state = "REQUEST_CONNECTING" THEN @ ELSE "REQUEST_WRITE",
                      !.origin_fd = NoFd]]
    BY <1>8 DEF ConnectFails
  <2>2. conn'[s] = k
    <3>1. ErrorReply(c) \in Conns /\ ErrorReply(c).state = c.state
      BY <1>3, ErrorReplyFields
    <3>2. ErrorReply(c) = [c EXCEPT !.status = "fail", !.wb = w]
      BY DEF ErrorReply
    <3>3. conn'[s] = [ErrorReply(c) EXCEPT !.state = st, !.origin_fd = NoFd]
      BY <1>2, <2>1, <3>1 DEF Conns
    <3> HIDE DEF st, w
    <3> QED
      BY <1>3, <3>2, <3>3
  <2>3. w = conn[s].wb + 1 /\ w # conn[s].wb
    BY <1>3 DEF Conns
  <2>4. \/ st = "REQUEST_WRITE" /\ conn[s].state # "REQUEST_CONNECTING"
        \/ st = "REQUEST_CONNECTING" /\ "retry" \in Faults
    BY <1>3, <1>8
  <2> HIDE DEF st, w
  <2>5. /\ k.state = st /\ k.client_fd = cl /\ k.origin_fd = NoFd /\ k.status = "fail"
        /\ k.domain = c.domain /\ k.alts = c.alts /\ k.res = c.res /\ k.wb = w
        /\ k.uname = conn[s].uname
    BY <1>3 DEF Conns
  <2> HIDE DEF k
  <2>6. ClearInterest(old) = [f \in Fds |-> IF f \in old THEN {} ELSE interest[f]]
    BY DEF ClearInterest
  <2>7. interest'[cl] = {OP_WRITE}
    BY <1>3, <1>6, <2>1, <2>6
  <2>8. LifeOK(k, interest')
    BY <1>1, <1>2, <2>3, <2>4, <2>5, <2>7 DEF LifeOK, WatchOK, ListOK, ReplyOK
  <2>9. is_auth_on' => UserOK(k)
    BY <1>2, <2>4, <2>5 DEF UserOK
  <2>10. k # conn[s]
    BY <2>3, <2>5
  <2> QED
    BY <2>2, <2>8, <2>9, <2>10 DEF Lived
<1> QED
  BY <1>5, <1>7, <1>8

(* The attempts to connect: to an address, to the first address of a name, *)
(* and to a further one.                                                   *)
LEMMA AttemptLived ==
  ASSUME LifeInv, NEW fd \in Fds, NEW s \in Structs,
         RequestAddress(fd, s) \/ request_resolv_done(fd, s) \/ ConnectAgain(fd, s)
  PROVE  Lived(s)
<1>1. CASE RequestAddress(fd, s)
  <2>1. Event(fd, OP_READ, s, "REQUEST_READ") /\ request_connect(s, conn[s]) /\ is_auth_on' = is_auth_on
    BY <1>1 DEF RequestAddress, userVars
  <2>2. Finds(fd, OP_READ, s, "REQUEST_READ")
    BY <2>1, EventLife
  <2>3. /\ mode = "run" /\ s \in InUse /\ conn[s].origin_fd # conn[s].client_fd
        /\ conn[s].state = "REQUEST_READ" /\ SameButAddress(conn[s], s)
        /\ ~conn[s].domain
    BY <2>2 DEF Finds, SameButAddress, LifeOK, ListOK
  <2> QED
    BY <2>1, <2>3, ConnectLived
<1>2. CASE request_resolv_done(fd, s)
  <2>1. /\ mode = "run" /\ data[fd] = s /\ conn[s].state = "REQUEST_RESOLV"
        /\ IF conn[s].res = 0 THEN request_error_write(s, conn[s])
                              ELSE request_connect(s, FirstAddress(conn[s]))
        /\ is_auth_on' = is_auth_on
    BY <1>2 DEF request_resolv_done, userVars
  <2>2. s \in InUse /\ NoFd \notin Fds /\ conn \in [Structs -> Conns] /\ conn[s] \in Conns
        /\ interest \in [Fds -> Interests]
    BY <2>1, Socks5Assumption
    DEF Socks5Assumption, NoFd, LifeInv, Socks5Inv, Core, HeapOK, InUse
  <2>3. ConnOK(conn[s], data, interest, s) /\ LifeOK(conn[s], interest)
        /\ (is_auth_on => UserOK(conn[s]))
    BY <2>1, <2>2 DEF LifeInv, Socks5Inv, Core, RunOK, LivesOK, UsersOK
  <2>4. conn[s].origin_fd = NoFd /\ conn[s].client_fd \in Fds
    BY <2>1, <2>3 DEF ConnOK, Holds
  <2>5. CASE conn[s].res = 0
    <3> DEFINE cl == conn[s].client_fd
               w  == conn[s].wb + 1
               c  == [conn[s] EXCEPT !.status = "fail", !.wb = w, !.state = "REQUEST_WRITE"]
    <3>1. Jump(s, c, cl, {OP_WRITE})
      BY <2>1, <2>5 DEF request_error_write, ErrorReply
    <3>2. /\ c.state = "REQUEST_WRITE" /\ c.client_fd = cl /\ c.origin_fd = NoFd /\ c.status = "fail"
          /\ c.wb = conn[s].wb + 1 /\ c.uname = conn[s].uname
      BY <2>2, <2>4 DEF Conns
    <3> HIDE DEF c
    <3>3. conn'[s] = c /\ interest'[cl] = {OP_WRITE}
      BY <2>2, <2>4, <3>1 DEF Jump
    <3>4. LifeOK(c, interest') /\ c # conn[s]
      BY <2>1, <2>3, <3>2, <3>3 DEF LifeOK, WatchOK, ListOK, ReplyOK
    <3>5. is_auth_on' => UserOK(c)
      BY <2>1, <2>3, <3>2 DEF UserOK
    <3> QED
      BY <3>3, <3>4, <3>5 DEF Lived
  <2>6. CASE conn[s].res # 0
    <3> DEFINE a == conn[s].res - 1
               c == [conn[s] EXCEPT !.alts = a]
    <3>1. a \in 0 .. MaxAddrs /\ a < conn[s].res
      BY <2>2, <2>6, Socks5Assumption DEF Conns, Socks5Assumption
    <3>2. request_connect(s, c)
      BY <2>1, <2>6 DEF FirstAddress
    <3> HIDE DEF a
    <3>3. SameButAddress(c, s) /\ c.wb = conn[s].wb /\ c.uname = conn[s].uname /\ c.alts < c.res
      BY <2>2, <3>1 DEF SameButAddress, Conns
    <3> HIDE DEF c
    <3>4. conn[s].origin_fd # conn[s].client_fd
      BY <2>2, <2>4
    <3> QED
      BY <2>1, <2>2, <3>2, <3>3, <3>4, ConnectLived
  <2> QED
    BY <2>5, <2>6
<1>3. CASE ConnectAgain(fd, s)
  <2> DEFINE a == conn[s].alts - 1
             c == [conn[s] EXCEPT !.alts = a]
  <2>1. Event(fd, OP_WRITE, s, "REQUEST_CONNECTING") /\ is_auth_on' = is_auth_on
        /\ conn[s].domain /\ conn[s].alts > 0
    BY <1>3 DEF ConnectAgain, userVars
  <2>2. Finds(fd, OP_WRITE, s, "REQUEST_CONNECTING")
    BY <2>1, EventLife
  <2>3. /\ mode = "run" /\ s \in InUse /\ conn[s].origin_fd # conn[s].client_fd
        /\ conn[s].state = "REQUEST_CONNECTING" /\ conn[s] \in Conns
        /\ conn[s].alts < conn[s].res
    BY <2>1, <2>2 DEF Finds, LifeOK, ListOK
  <2>4. request_connect(s, c)
    BY <1>3 DEF ConnectAgain
  <2>5. a \in 0 .. MaxAddrs /\ a < conn[s].res /\ a # conn[s].alts
    BY <2>1, <2>3, Socks5Assumption DEF Conns, Socks5Assumption
  <2> HIDE DEF a
  <2>6. SameButAddress(c, s) /\ c.wb = conn[s].wb /\ c.uname = conn[s].uname
        /\ c.alts < c.res /\ c.alts # conn[s].alts
    BY <2>3, <2>5 DEF SameButAddress, Conns
  <2> HIDE DEF c
  <2> QED
    BY <2>1, <2>3, <2>4, <2>6, ConnectLived
<1> QED
  BY <1>1, <1>2, <1>3

(* REQUEST_CONNECTING, connected or out of addresses.                      *)
LEMMA ConnectingLived ==
  ASSUME LifeInv, NEW fd \in Fds, NEW s \in Structs, NEW connected \in BOOLEAN,
         request_connecting(fd, s, connected)
  PROVE  Lived(s)
<1> DEFINE ss == IF connected THEN "ok" ELSE "fail"
           of == IF connected THEN fd ELSE conn[s].origin_fd
           w  == conn[s].wb + 1
           c  == [conn[s] EXCEPT !.state = "REQUEST_WRITE", !.status = ss, !.origin_fd = of,
                                 !.res = 0, !.alts = 0, !.wb = w]
           cl == conn[s].client_fd
<1>1. Event(fd, OP_WRITE, s, "REQUEST_CONNECTING") /\ is_auth_on' = is_auth_on
      /\ interest' = [interest EXCEPT ![cl] = {OP_WRITE}, ![fd] = {}]
  BY DEF request_connecting, userVars
<1>2. Finds(fd, OP_WRITE, s, "REQUEST_CONNECTING")
  BY <1>1, EventLife
<1>3. conn'[s] = c
  <2> DEFINE q == [conn[s] EXCEPT !.state = "REQUEST_WRITE",
                                  !.status = IF connected THEN "ok" ELSE "fail",
                                  !.origin_fd = IF connected THEN fd ELSE @,
                                  !.res = 0, !.alts = 0, !.wb = @ + 1]
  <2>1. conn' = [conn EXCEPT ![s] = q] /\ conn \in [Structs -> Conns] /\ conn[s] \in Conns
    BY <1>2 DEF request_connecting, Finds
  <2>2. q = c
    BY <2>1 DEF Conns
  <2> QED
    BY <2>1, <2>2
<1>4. NoFd \notin Fds
  BY Socks5Assumption DEF Socks5Assumption, NoFd
<1>5. (ss = "ok" => of = fd) /\ (of = fd \/ of = conn[s].origin_fd)
  OBVIOUS
<1> HIDE DEF ss, of, w
<1>6. /\ c.state = "REQUEST_WRITE" /\ c.client_fd = cl /\ c.origin_fd = of /\ c.status = ss
      /\ c.res = 0 /\ c.wb = w /\ c.uname = conn[s].uname
  BY <1>2 DEF Conns, Finds
<1> HIDE DEF c
<1>7. /\ conn[s].state = "REQUEST_CONNECTING" /\ LifeOK(conn[s], interest)
      /\ is_auth_on => UserOK(conn[s])
      /\ fd = cl \/ fd = conn[s].origin_fd
      /\ cl \in Fds /\ conn[s].origin_fd # cl /\ OP_WRITE \in interest[fd]
      /\ interest \in [Fds -> Interests]
  BY <1>2 DEF Finds
<1>8. WatchOK(c, interest')
  <2>1. CASE fd = cl
    <3>1. conn[s].origin_fd = NoFd /\ "retry" \in Faults
      BY <1>7, <2>1 DEF LifeOK, WatchOK
    <3>2. interest'[cl] = {}
      BY <1>1, <1>7, <2>1
    <3> QED
      BY <1>5, <1>6, <2>1, <3>1, <3>2 DEF WatchOK
  <2>2. CASE fd # cl
    <3>1. fd = conn[s].origin_fd /\ of = fd
      BY <1>5, <1>7, <2>2
    <3>2. interest'[cl] = {OP_WRITE} /\ interest'[fd] = {}
      BY <1>1, <1>7, <2>2
    <3> QED
      BY <1>6, <3>1, <3>2 DEF WatchOK
  <2> QED
    BY <2>1, <2>2
<1>9. ListOK(c)
  BY <1>4, <1>5, <1>6 DEF ListOK
<1>10. ReplyOK(c)
  BY <1>6, <1>7 DEF LifeOK, ReplyOK, w
<1>11. is_auth_on' => UserOK(c)
  BY <1>1, <1>6, <1>7 DEF UserOK
<1>12. c # conn[s]
  BY <1>6, <1>7
<1> QED
  BY <1>3, <1>8, <1>9, <1>10, <1>11, <1>12 DEF Lived, LifeOK

(* The interests that fit empty buffers: both ends are read.               *)
LEMMA FirstInterests ==
  ASSUME NEW e \in Ends
  PROVE  copy_compute_interests(copy_init(buffer_init), e) = {OP_READ}
<1> DEFINE k == copy_init(buffer_init)
<1>1. k.buf = [x \in Ends |-> buffer_init] /\ k.duplex = [x \in Ends |-> {OP_READ, OP_WRITE}]
  BY DEF copy_init
<1>2. other(e) \in Ends
  BY OtherEnd
<1> HIDE DEF k
<1>3. buffer_can_write(buffer_init) /\ ~buffer_can_read(buffer_init)
  BY BufSizeAssumption
  DEF BufSizeAssumption, buffer_init, buffer_can_write, buffer_can_read, buffer_write_ptr, buffer_read_ptr
<1>4. copy_compute_interests(k, e) = {OP_READ}
  BY <1>1, <1>2, <1>3 DEF copy_compute_interests, OP_READ, OP_WRITE
<1> QED
  BY <1>4 DEF k

(* REQUEST_WRITE: the copy starts.                                         *)
LEMMA RequestWriteLived ==
  ASSUME LifeInv, NEW fd \in Fds, NEW s \in Structs, request_write(fd, s)
  PROVE  Lived(s) /\ conn[s].state = "REQUEST_WRITE" /\ conn'[s].state = "COPY"
<1>0. PICK rb \in EarlyBuffers :
        conn' = [conn EXCEPT ![s] =
          [@ EXCEPT !.state = "COPY", !.wb = 0, !.copy = copy_init(rb)]]
  BY DEF request_write
<1> DEFINE k  == copy_init(rb)
           c  == [conn[s] EXCEPT !.state = "COPY", !.wb = 0, !.copy = k]
           cl == conn[s].client_fd
           og == conn[s].origin_fd
<1>1. Event(fd, OP_WRITE, s, "REQUEST_WRITE") /\ is_auth_on' = is_auth_on /\ conn[s].status = "ok"
      /\ interest' = [interest EXCEPT ![cl] = {OP_READ}, ![og] = {OP_READ}]
  BY DEF request_write, userVars
<1>2. Finds(fd, OP_WRITE, s, "REQUEST_WRITE")
  BY <1>1, EventLife
<1>3. conn'[s] = c
  BY <1>0, <1>2 DEF Finds
<1>4. /\ conn[s].state = "REQUEST_WRITE" /\ LifeOK(conn[s], interest) /\ conn[s] \in Conns
      /\ is_auth_on => UserOK(conn[s])
      /\ cl \in Fds /\ interest \in [Fds -> Interests]
  BY <1>2 DEF Finds
<1>5. \/ EarlyCopy(k)
      \/ /\ copy_compute_interests(k, "client") = {OP_READ}
         /\ copy_compute_interests(k, "origin") = {OP_READ}
  BY FirstInterests DEF Ends, EarlyCopy
<1> HIDE DEF k
<1>6. /\ c.state = "COPY" /\ c.client_fd = cl /\ c.origin_fd = og /\ c.res = conn[s].res
      /\ c.wb = 0 /\ c.uname = conn[s].uname /\ c.copy = k
  BY <1>4 DEF Conns
<1> HIDE DEF c
<1>7. og # NoFd /\ og \in Fds /\ conn[s].res = 0
  BY <1>1, <1>4 DEF LifeOK, ListOK, Conns
<1>8. interest'[cl] = {OP_READ} /\ interest'[og] = {OP_READ}
  BY <1>1, <1>4, <1>7
<1>9. LifeOK(c, interest')
  BY <1>5, <1>6, <1>7, <1>8 DEF LifeOK, WatchOK, Computed, Entered, ListOK, ReplyOK
<1>10. is_auth_on' => UserOK(c)
  BY <1>1, <1>4, <1>6 DEF UserOK
<1>11. c # conn[s]
  BY <1>4, <1>6
<1> QED
  BY <1>3, <1>4, <1>6, <1>9, <1>10, <1>11 DEF Lived

(* The end of copy_r and copy_w.                                           *)
LEMMA CopyStepLived ==
  ASSUME LifeInv, NEW fd \in Fds, NEW op, NEW s \in Structs, Event(fd, op, s, "COPY"),
         NEW e, NEW k, CopyStep(s, e, k), is_auth_on' = is_auth_on, Core',
         k # conn[s].copy \/ Computed(conn[s], interest)
  PROVE  /\ Lived(s)
         /\ \/ conn'[s].state = "COPY" /\ InUse' = InUse /\ current_connections' = current_connections
            \/ s \notin InUse' /\ CountDone
<1> DEFINE c  == [conn[s] EXCEPT !.copy = k]
           cl == conn[s].client_fd
           og == conn[s].origin_fd
<1>1. Finds(fd, op, s, "COPY")
  BY EventLife
<1>2. /\ conn[s].state = "COPY" /\ LifeOK(conn[s], interest) /\ conn[s] \in Conns
      /\ is_auth_on => UserOK(conn[s])
      /\ cl \in Fds /\ og # cl /\ interest \in [Fds -> Interests] /\ conn \in [Structs -> Conns]
  BY <1>1 DEF Finds
<1>3. CASE copy_done(k, e)
  <2>1. socksv5_done(s) /\ CountDone
    BY <1>3 DEF CopyStep
  <2> QED
    BY <2>1, DoneLived
<1>4. CASE ~copy_done(k, e)
  <2>1. /\ conn' = [conn EXCEPT ![s] = c]
        /\ interest' = [interest EXCEPT ![cl] = copy_compute_interests(k, "client"),
                                        ![og] = copy_compute_interests(k, "origin")]
        /\ UNCHANGED <<data, heap, current_connections>>
    BY <1>2, <1>4 DEF CopyStep
  <2>2. /\ c.state = "COPY" /\ c.client_fd = cl /\ c.origin_fd = og /\ c.res = conn[s].res
        /\ c.wb = conn[s].wb /\ c.uname = conn[s].uname /\ c.copy = k
    BY <1>2 DEF Conns
  <2> HIDE DEF c
  <2>3. conn'[s] = c
    BY <1>2, <2>1
  <2>4. og # NoFd /\ og \in Fds
    BY <1>2 DEF LifeOK, WatchOK, Conns
  <2>5. /\ interest'[cl] = copy_compute_interests(k, "client")
        /\ interest'[og] = copy_compute_interests(k, "origin")
    BY <1>2, <2>1, <2>4
  <2>6. LifeOK(c, interest')
    BY <1>2, <2>2, <2>4, <2>5 DEF LifeOK, WatchOK, Computed, ListOK, ReplyOK
  <2>7. is_auth_on' => UserOK(c)
    BY <1>2, <2>2 DEF UserOK
  <2>8. ASSUME c = conn[s], NEW f \in Fds, data[f] = s
        PROVE  data'[f] = s /\ interest'[f] = interest[f]
    <3>1. f = cl \/ f = og
      BY <2>8, Socks5Assumption DEF Socks5Assumption, LifeInv, Socks5Inv, Core, HeapOK
    <3>2. interest'[cl] = interest[cl] /\ interest'[og] = interest[og]
      BY <1>2, <2>2, <2>5, <2>8 DEF Computed
    <3> QED
      BY <2>1, <2>8, <3>1, <3>2
  <2> QED
    BY <2>1, <2>2, <2>3, <2>6, <2>7, <2>8 DEF Lived, InUse
<1> QED
  BY <1>3, <1>4

(* The first event of a copy that starts with early bytes is a read, and   *)
(* changes the pair of copies, so that its interests do not stay as        *)
(* request_write left them.                                                *)
LEMMA CopyMoves ==
  ASSUME LifeInv, NEW fd \in Fds, NEW s \in Structs, CopyRead(fd, s) \/ CopyWrite(fd, s)
  PROVE  \E op \in {OP_READ, OP_WRITE} :
           /\ Event(fd, op, s, "COPY")
           /\ \E e, k : CopyStep(s, e, k) /\ (k # conn[s].copy \/ Computed(conn[s], interest))
<1> DEFINE c == conn[s].copy
           e == copy_ptr(fd, s)
<1>1. e \in Ends
  BY DEF copy_ptr, Ends
<1>2. CASE CopyRead(fd, s)
  <2>1. Event(fd, OP_READ, s, "COPY")
    BY <1>2 DEF CopyRead
  <2>2. PICK n \in -1 .. buffer_write_ptr(c.buf[e]) : CopyStep(s, e, copy_r(c, e, n))
    BY <1>2 DEF CopyRead
  <2>3. Finds(fd, OP_READ, s, "COPY")
    BY <2>1, EventLife
  <2>4. Computed(conn[s], interest) \/ EarlyCopy(c)
    BY <2>3 DEF Finds, LifeOK, WatchOK, Entered
  <2>5. ASSUME EarlyCopy(c) PROVE copy_r(c, e, n) # c
    <3>1. PICK rb \in EarlyBuffers : c = copy_init(rb)
      BY <2>5 DEF EarlyCopy
    <3>2. GoodCopy(c) /\ c.duplex = [x \in Ends |-> {OP_READ, OP_WRITE}]
      BY <3>1, InitialCopy
    <3> HIDE DEF c, e
    <3>3. buffer_write_ptr(c.buf[e]) \in Nat
      BY <1>1, <3>2, BufSizeAssumption
      DEF BufSizeAssumption, GoodCopy, Copies, Buffers, buffer_write_ptr
    <3>4. CASE n > 0
      <4>1. n \in 1 .. buffer_write_ptr(c.buf[e])
        BY <3>3, <3>4
      <4>2. buffer_read_ptr(copy_r(c, e, n).buf[e]) = buffer_read_ptr(c.buf[e]) + n
        BY <1>1, <3>2, <4>1, CopyRBytes
      <4>3. buffer_read_ptr(c.buf[e]) \in Int
        BY <1>1, <3>2, BufSizeAssumption
        DEF BufSizeAssumption, GoodCopy, Copies, Buffers, buffer_read_ptr
      <4> QED
        BY <3>3, <4>1, <4>2, <4>3
    <3>5. CASE ~(n > 0)
      <4>1. copy_r(c, e, n) = HalfClose(c, e)
        BY <3>3, <3>5 DEF copy_r
      <4>2. OP_READ \notin HalfClose(c, e).duplex[e] /\ OP_READ \in c.duplex[e]
        BY <1>1, <3>2, HalfCloseOne
      <4> QED
        BY <4>1, <4>2
    <3> QED
      BY <3>4, <3>5
  <2> QED
    BY <2>1, <2>2, <2>4, <2>5
<1>3. CASE CopyWrite(fd, s)
  <2>1. Event(fd, OP_WRITE, s, "COPY")
    BY <1>3 DEF CopyWrite
  <2>2. \E k : CopyStep(s, e, k)
    BY <1>3 DEF CopyWrite
  <2>3. Finds(fd, OP_WRITE, s, "COPY") /\ OP_WRITE \in interest[fd]
    BY <2>1, EventLife DEF Event
  <2>4. fd = conn[s].client_fd \/ fd = conn[s].origin_fd
    BY <2>1, Socks5Assumption DEF Event, Socks5Assumption, LifeInv, Socks5Inv, Core, HeapOK
  <2>5. Computed(conn[s], interest)
    BY <2>3, <2>4 DEF Finds, LifeOK, WatchOK, Entered, OP_READ, OP_WRITE
  <2> QED
    BY <2>1, <2>2, <2>5
<1> QED
  BY <1>2, <1>3

(* COPY.                                                                   *)
LEMMA CopyLived ==
  ASSUME LifeInv, NEW fd \in Fds, NEW s \in Structs, CopyRead(fd, s) \/ CopyWrite(fd, s), Core'
  PROVE  /\ Lived(s)
         /\ conn[s].state = "COPY" /\ s \in InUse
         /\ \/ conn'[s].state = "COPY" /\ InUse' = InUse /\ current_connections' = current_connections
            \/ s \notin InUse' /\ CountDone
<1>1. PICK op \in {OP_READ, OP_WRITE} :
        /\ Event(fd, op, s, "COPY")
        /\ \E e, k : CopyStep(s, e, k) /\ (k # conn[s].copy \/ Computed(conn[s], interest))
  BY CopyMoves
<1>2. is_auth_on' = is_auth_on
  BY DEF CopyRead, CopyWrite, userVars
<1>3. Finds(fd, op, s, "COPY")
  BY <1>1, EventLife
<1>4. conn[s].state = "COPY" /\ s \in InUse
  BY <1>3 DEF Finds
<1> QED
  BY <1>1, <1>2, <1>4, CopyStepLived

(* The passive socket: a struct that had no items.                         *)
LEMMA AcceptLived ==
  ASSUME LifeInv, NEW fd \in Fds, NEW s \in Structs,
         socksv5_passive_accept(fd, s) \/ AcceptFails(fd, s), Core'
  PROVE  /\ Lived(s) /\ s \notin InUse
         /\ s \in InUse' => conn'[s].state = "NULL"
<1>1. /\ conn \in [Structs -> Conns] /\ interest \in [Fds -> Interests]
      /\ HeapOK(heap, data, conn) /\ heap \in Heaps /\ heap.pool \subseteq heap.mem
      /\ s \in Allocatable(heap)
  BY DEF LifeInv, Socks5Inv, Core, HeapOK, socksv5_passive_accept, AcceptFails
<1>2. s \notin InUse
  BY <1>1, NewFields DEF InUse
<1>3. \A f \in Fds : data[f] # s
  BY <1>1, <1>2, Socks5Assumption DEF Socks5Assumption, HeapOK, InUse
<1>4. CASE socksv5_passive_accept(fd, s)
  <2> DEFINE c == [NoConn EXCEPT !.client_fd = fd]
  <2>1. conn'[s] = c /\ interest'[fd] = {OP_READ}
    BY <1>1, <1>4 DEF socksv5_passive_accept
  <2>2. c.state = "NULL" /\ c.client_fd = fd /\ c.domain = FALSE /\ c.wb = 0
    BY DEF NoConn
  <2> HIDE DEF c
  <2>3. LifeOK(c, interest') /\ UserOK(c)
    BY <2>1, <2>2 DEF LifeOK, WatchOK, ListOK, ReplyOK, UserOK
  <2> QED
    BY <1>2, <1>3, <2>1, <2>2, <2>3 DEF Lived
<1>5. CASE AcceptFails(fd, s)
  <2>1. data' = data
    BY <1>5 DEF AcceptFails, selectorVars
  <2>2. s \notin InUse'
    BY <1>3, <2>1, NotInUse DEF Core, InUse
  <2> QED
    BY <1>2, <1>3, <2>2 DEF Lived
<1> QED
  BY <1>4, <1>5

(* Every step of a connection.                                             *)
LEMMA StepLived ==
  ASSUME LifeInv, NEW fd \in Fds, NEW s \in Structs, ConnectionStep(fd, s)
  PROVE  Core' /\ OthersKept(s) /\ Lived(s)
<1>1. Core
  BY DEF LifeInv, Socks5Inv
<1>2. Core' /\ OthersKept(s)
  BY <1>1, AcceptCore, HelloCore, HelloWriteCore, AuthReadCore, AuthWriteCore, EndCore, RequestCore,
     FirstConnectCore, ConnectAgainCore, ConnectingCore, RequestWriteCore, CopyCore
  DEF ConnectionStep
<1>3. Lived(s)
  BY <1>2, AcceptLived, HelloLived, AuthLived, EndLived, RequestLived, AttemptLived, ConnectingLived,
     RequestWriteLived, CopyLived
  DEF ConnectionStep
<1> QED
  BY <1>2, <1>3

-----------------------------------------------------------------------------
(* The invariant is kept: the connections.                                 *)

(* A connection whose items are left alone stays as it was.                *)
LEMMA LifeFrame ==
  ASSUME NEW c, NEW d, NEW i, NEW j, NEW t, ConnOK(c, d, i, t), LifeOK(c, i),
         \A f \in Fds : d[f] = t => j[f] = i[f]
  PROVE  LifeOK(c, j)
<1>1. j[c.client_fd] = i[c.client_fd] /\ (c.origin_fd # NoFd => j[c.origin_fd] = i[c.origin_fd])
  BY DEF ConnOK, Holds
<1> QED
  BY <1>1 DEF LifeOK, WatchOK, Computed, Entered

(* Nothing turns authentication on again.                                  *)
LEMMA AuthOnlyOff ==
  ASSUME Next, is_auth_on'
  PROVE  is_auth_on
<1>1. ASSUME NEW fd \in Fds, NEW s \in Structs, ConnectionStep(fd, s) PROVE is_auth_on
  <2>1. CASE HelloPartial(fd, s) \/ hello_read(fd, s) \/ HelloFails(fd, s)
    <3>1. hello_read_init(s)
      BY <2>1 DEF HelloPartial, hello_read, HelloFails
    <3> QED
      BY <3>1 DEF hello_read_init
  <2>2. CASE ~(HelloPartial(fd, s) \/ hello_read(fd, s) \/ HelloFails(fd, s))
    <3>1. is_auth_on' = is_auth_on
      BY <1>1, <2>2 DEF ConnectionStep, socksv5_passive_accept, AcceptFails, hello_write, auth_read,
        auth_write, HandshakeError, RequestRefused, RequestAddress, RequestName, request_resolv_done,
        request_connecting, ConnectAgain, request_write, RequestFailed, CopyRead, CopyWrite, userVars
    <3> QED
      BY <3>1
  <2> QED
    BY <2>1, <2>2
<1>2. CASE ~\E fd \in Fds, s \in Structs : ConnectionStep(fd, s)
  <2>1. is_auth_on' = is_auth_on
    BY <1>2 DEF Next, ResolverStep, request_resolv_blocking, selector_notify_block,
      socksv5_register_user, socksv5_unregister_user, sigterm_handler, selector_destroy,
      socksv5_pool_destroy, Exited, vars, userVars
  <2> QED
    BY <2>1
<1> QED
  BY <1>1, <1>2

(* A connection's steps are only taken while the server runs.              *)
LEMMA StepRuns ==
  ASSUME NEW fd \in Fds, NEW s \in Structs, ConnectionStep(fd, s)
  PROVE  mode = "run" /\ mode' = "run"
BY DEF ConnectionStep, socksv5_passive_accept, AcceptFails, HelloPartial, hello_read,
  HelloFails, hello_write, auth_read, auth_write, HandshakeError, RequestRefused, RequestAddress,
  RequestName, request_resolv_done, request_connecting, ConnectAgain, request_write, RequestFailed,
  CopyRead, CopyWrite, Event

(* The connections after any step.                                         *)
LEMMA ConnectionsStep ==
  ASSUME LifeInv, Next, NEW fd \in Fds, NEW s \in Structs, ConnectionStep(fd, s)
  PROVE  LivesOK' /\ UsersOK'
<1>1. mode = "run" /\ OthersKept(s) /\ Lived(s) /\ Core'
  BY StepRuns, StepLived
<1>2. InUse \subseteq Structs /\ InUse' \subseteq Structs /\ Core
  BY <1>1 DEF LifeInv, Socks5Inv, Core, HeapOK, Heaps, InUse
<1>3. ASSUME NEW t \in InUse'
      PROVE  LifeOK(conn'[t], interest') /\ (is_auth_on' => UserOK(conn'[t]))
  <2>1. CASE t = s
    BY <1>1, <1>3, <2>1 DEF Lived
  <2>2. CASE t # s
    <3>1. t \in InUse /\ t \in Structs /\ conn'[t] = conn[t]
      BY <1>1, <1>2, <2>2 DEF OthersKept
    <3>2. ConnOK(conn[t], data, interest, t) /\ LifeOK(conn[t], interest)
          /\ (is_auth_on => UserOK(conn[t]))
      BY <1>1, <1>2, <3>1 DEF LifeInv, LivesOK, UsersOK, Core, RunOK
    <3>3. \A f \in Fds : data[f] = t => interest'[f] = interest[f]
      BY <1>1, <2>2, <3>1, Socks5Assumption DEF OthersKept, Socks5Assumption
    <3>4. LifeOK(conn[t], interest')
      BY <3>2, <3>3, LifeFrame
    <3> QED
      BY <3>1, <3>2, <3>4, AuthOnlyOff
  <2> QED
    BY <2>1, <2>2
<1> QED
  BY <1>3 DEF LivesOK, UsersOK

-----------------------------------------------------------------------------
(* The invariant is kept: the resolver's threads and jobs.                 *)

ResolversOK == JobsLive /\ ResolverTargetsLive

(* The connections a handler other than the two below is called for are    *)
(* not waiting for a name.                                                 *)
LEMMA QuietHandler ==
  ASSUME LifeInv, NEW fd \in Fds, NEW s \in Structs, ConnectionStep(fd, s),
         ~RequestName(fd, s), ~request_resolv_done(fd, s)
  PROVE  UNCHANGED <<threads, jobs>> /\ (s \in InUse => conn[s].state # "REQUEST_RESOLV")
<1>1. UNCHANGED <<threads, jobs>>
  BY DEF ConnectionStep, socksv5_passive_accept, AcceptFails, HelloPartial, hello_read,
    HelloFails, hello_write, auth_read, auth_write, HandshakeError, RequestRefused, RequestAddress,
    request_connecting, ConnectAgain, request_write, RequestFailed, CopyRead, CopyWrite, resolverVars
<1>2. CASE socksv5_passive_accept(fd, s) \/ AcceptFails(fd, s)
  <2>1. Core'
    BY StepLived
  <2> QED
    BY <1>1, <1>2, <2>1, AcceptLived
<1>3. CASE \E op \in {OP_READ, OP_WRITE}, st \in States : Event(fd, op, s, st)
  <2>1. PICK op \in {OP_READ, OP_WRITE}, st \in States : Event(fd, op, s, st)
    BY <1>3
  <2>2. Finds(fd, op, s, st)
    BY <2>1, EventLife
  <2> QED
    BY <1>1, <2>2 DEF Finds
<1>4. \/ socksv5_passive_accept(fd, s) \/ AcceptFails(fd, s)
      \/ \E op \in {OP_READ, OP_WRITE}, st \in States : Event(fd, op, s, st)
  BY DEF ConnectionStep, HelloPartial, hello_read,
    HelloFails, hello_write, auth_read, auth_write, HandshakeError, RequestRefused, RequestAddress,
    request_connecting, ConnectAgain, request_write, RequestFailed, CopyRead, CopyWrite, States
<1> QED
  BY <1>2, <1>3, <1>4

(* The items of a connection that waits for a name: only its client's.     *)
LEMMA WaitingItems ==
  ASSUME LifeInv, mode = "run", NEW fd \in Fds, NEW s \in Structs, data[fd] = s,
         conn[s].state \in {"REQUEST_READ", "REQUEST_RESOLV"}
  PROVE  s \in InUse /\ \A f \in Fds : data[f] = s => f = fd
<1>1. s # NoStruct /\ NoFd \notin Fds /\ HeapOK(heap, data, conn)
  BY Socks5Assumption DEF Socks5Assumption, NoFd, LifeInv, Socks5Inv, Core
<1>2. s \in InUse /\ \A f \in Fds : data[f] = s => f = conn[s].client_fd \/ f = conn[s].origin_fd
  BY <1>1 DEF HeapOK, InUse
<1>3. ConnOK(conn[s], data, interest, s)
  BY <1>2 DEF LifeInv, Socks5Inv, Core, RunOK
<1> QED
  BY <1>1, <1>2, <1>3 DEF ConnOK

(* The target of a thread or job of another connection is left alone.      *)
LEMMA TargetKept ==
  ASSUME LifeInv, mode = "run", NEW s \in Structs, OthersKept(s), Core',
         NEW fd \in Fds, data[fd] \in Structs, data[fd] # s
  PROVE  data'[fd] = data[fd] /\ conn'[data[fd]] = conn[data[fd]] /\ data[fd] \in InUse'
         /\ fd \in Registered'
<1>1. data[fd] # NoStruct
  BY Socks5Assumption DEF Socks5Assumption
<1>2. data'[fd] = data[fd] /\ conn'[data[fd]] = conn[data[fd]]
  BY <1>1 DEF OthersKept
<1>3. data'[fd] \in InUse'
  BY <1>1, <1>2 DEF Core, HeapOK, InUse
<1> QED
  BY <1>1, <1>2, <1>3 DEF Registered

(* What a job and a thread find.                                           *)
JobFinds(fd) == fd \in Registered /\ conn[data[fd]].state = "REQUEST_RESOLV"

ThreadFinds(t) == t.s \in InUse /\ data[t.fd] = t.s /\ conn[t.s].state = "REQUEST_RESOLV"

(* The jobs and threads of the other connections find what they found.     *)
LEMMA OtherTargets ==
  ASSUME LifeInv, mode = "run", NEW s \in Structs, OthersKept(s), Core'
  PROVE  /\ \A fd \in jobs : data[fd] # s => JobFinds(fd)'
         /\ \A t \in threads : t.s # s => ThreadFinds(t)'
<1>1. /\ data \in [Fds -> Structs \cup {NoStruct}] /\ HeapOK(heap, data, conn)
      /\ threads \subseteq Threads /\ jobs \subseteq Fds
  BY DEF LifeInv, Socks5Inv, Core, HeapOK, RestOK
<1>2. ASSUME NEW fd \in jobs, data[fd] # s PROVE JobFinds(fd)'
  <2>1. fd \in Registered /\ conn[data[fd]].state = "REQUEST_RESOLV"
    BY DEF LifeInv, JobsLive
  <2>2. data[fd] \in Structs /\ fd \in Fds
    BY <1>1, <2>1 DEF Registered
  <2> QED
    BY <1>2, <2>1, <2>2, TargetKept DEF JobFinds
<1>3. ASSUME NEW t \in threads, t.s # s PROVE ThreadFinds(t)'
  <2>1. t.s \in InUse /\ data[t.fd] = t.s /\ conn[t.s].state = "REQUEST_RESOLV"
    BY DEF LifeInv, ResolverTargetsLive
  <2>2. t.s \in Structs /\ t.fd \in Fds
    BY <1>1 DEF Threads
  <2> QED
    BY <1>3, <2>1, <2>2, TargetKept DEF ThreadFinds
<1> QED
  BY <1>2, <1>3

(* What the invariant says of threads and jobs, in those words.            *)
LEMMA ResolversFind ==
  ASSUME mode = "run"
  PROVE  ResolversOK <=>
           /\ \A fd \in jobs : JobFinds(fd)
           /\ \A t \in threads : ThreadFinds(t) /\ t.fd \notin jobs
                                 /\ \A u \in threads : u.s = t.s => u = t
BY DEF ResolversOK, JobsLive, ResolverTargetsLive, JobFinds, ThreadFinds

(* A handler for a connection that is not waiting for a name.              *)
LEMMA QuietResolvers ==
  ASSUME LifeInv, mode = "run", NEW s \in Structs, OthersKept(s), Core', UNCHANGED <<threads, jobs>>,
         s \in InUse => conn[s].state # "REQUEST_RESOLV"
  PROVE  ResolversOK'
<1>1. /\ \A fd \in jobs : JobFinds(fd)
      /\ \A t \in threads : ThreadFinds(t) /\ t.fd \notin jobs
                            /\ \A u \in threads : u.s = t.s => u = t
  BY ResolversFind DEF LifeInv, ResolversOK
<1>2. \A fd \in jobs : data[fd] # s
  BY <1>1 DEF JobFinds, Registered, LifeInv, Socks5Inv, Core, HeapOK, InUse
<1>3. \A t \in threads : t.s # s
  BY <1>1 DEF ThreadFinds
<1>4. (\A fd \in jobs : JobFinds(fd))' /\ (\A t \in threads : ThreadFinds(t))'
  BY <1>2, <1>3, OtherTargets
<1> QED
  BY <1>1, <1>4 DEF ResolversOK, JobsLive, ResolverTargetsLive, JobFinds, ThreadFinds

(* RequestName: the one thread of a connection that had none.              *)
LEMMA NameResolvers ==
  ASSUME LifeInv, NEW fd \in Fds, NEW s \in Structs, RequestName(fd, s), OthersKept(s), Core'
  PROVE  ResolversOK'
<1> DEFINE n == [s |-> s, fd |-> fd, phase |-> "resolv"]
<1>1. /\ Event(fd, OP_READ, s, "REQUEST_READ") /\ jobs' = jobs
      /\ threads' = threads \/ threads' = threads \cup {n}
      /\ Jump(s, [conn[s] EXCEPT !.state = "REQUEST_RESOLV", !.domain = TRUE], fd, {})
  BY DEF RequestName
<1>2. Finds(fd, OP_READ, s, "REQUEST_READ")
  BY <1>1, EventLife
<1>3. mode = "run" /\ data[fd] = s /\ s \in InUse /\ conn \in [Structs -> Conns] /\ conn[s] \in Conns
      /\ conn[s].state = "REQUEST_READ"
  BY <1>2 DEF Finds
<1>4. data' = data /\ InUse' = InUse /\ conn'[s].state = "REQUEST_RESOLV"
  BY <1>1, <1>3 DEF Jump, InUse, Conns
<1>5. /\ \A f \in jobs : JobFinds(f)
      /\ \A t \in threads : ThreadFinds(t) /\ t.fd \notin jobs
                            /\ \A u \in threads : u.s = t.s => u = t
  BY <1>3, ResolversFind DEF LifeInv, ResolversOK
<1>6. \A f \in jobs : data[f] # s
  BY <1>3, <1>5 DEF JobFinds
<1>7. \A t \in threads : t.s # s
  BY <1>3, <1>5 DEF ThreadFinds
<1>8. (\A f \in jobs : JobFinds(f)') /\ (\A t \in threads : ThreadFinds(t)')
  BY <1>3, <1>6, <1>7, OtherTargets
<1>9. n.s = s /\ n.fd = fd
  OBVIOUS
<1> HIDE DEF n
<1>10. ThreadFinds(n)'
  BY <1>3, <1>4, <1>9 DEF ThreadFinds
<1>11. fd \notin jobs
  BY <1>3, <1>6
<1>12. ASSUME NEW t \in threads'
       PROVE  ThreadFinds(t)' /\ t.fd \notin jobs' /\ \A u \in threads' : u.s = t.s => u = t
  BY <1>1, <1>5, <1>7, <1>8, <1>9, <1>10, <1>11
<1> QED
  BY <1>1, <1>8, <1>12 DEF ResolversOK, JobsLive, ResolverTargetsLive, JobFinds, ThreadFinds

(* request_resolv_done: the connection's only job, and no thread is left.  *)
LEMMA DoneResolvers ==
  ASSUME LifeInv, NEW fd \in Fds, NEW s \in Structs, request_resolv_done(fd, s), OthersKept(s), Core'
  PROVE  ResolversOK'
<1>1. /\ mode = "run" /\ fd \in jobs /\ jobs' = jobs \ {fd} /\ threads' = threads
      /\ data[fd] = s /\ conn[s].state = "REQUEST_RESOLV"
  BY DEF request_resolv_done, TakeJob
<1>2. /\ \A f \in jobs : JobFinds(f)
      /\ \A t \in threads : ThreadFinds(t) /\ t.fd \notin jobs
                            /\ \A u \in threads : u.s = t.s => u = t
  BY <1>1, ResolversFind DEF LifeInv, ResolversOK
<1>3. \A f \in Fds : data[f] = s => f = fd
  BY <1>1, WaitingItems
<1>4. threads \subseteq Threads /\ jobs \subseteq Fds
  BY DEF LifeInv, Socks5Inv, RestOK
<1>5. \A f \in jobs' : data[f] # s
  BY <1>1, <1>3, <1>4
<1>6. \A t \in threads : t.s # s
  BY <1>1, <1>2, <1>3, <1>4 DEF ThreadFinds, Threads
<1>7. (\A f \in jobs' : JobFinds(f)') /\ (\A t \in threads : ThreadFinds(t)')
  BY <1>1, <1>5, <1>6, OtherTargets
<1> QED
  BY <1>1, <1>2, <1>7 DEF ResolversOK, JobsLive, ResolverTargetsLive, JobFinds, ThreadFinds

(* A thread's own steps: it stores the list in the struct of a connection  *)
(* that waits for it, and later queues the one job for it.                 *)
LEMMA ThreadLives ==
  ASSUME LifeInv, NEW t \in threads, ResolverStep(t)
  PROVE  LivesOK' /\ UsersOK'
<1>1. /\ UNCHANGED <<mode, data, interest, heap, is_auth_on>>
      /\ conn' = conn \/ \E n \in 0 .. MaxAddrs : conn' = [conn EXCEPT ![t.s] = [@ EXCEPT !.res = n]]
  BY DEF ResolverStep, request_resolv_blocking, selector_notify_block, selectorVars, userVars
<1>2. conn \in [Structs -> Conns] /\ t.s \in Structs /\ InUse \subseteq Structs
  BY DEF LifeInv, Socks5Inv, Core, RestOK, Threads, HeapOK, Heaps, InUse
<1>3. InUse' = InUse
  BY <1>1 DEF InUse
<1>4. CASE conn' = conn
  BY <1>1, <1>3, <1>4 DEF LifeInv, LivesOK, UsersOK
<1>5. ASSUME NEW n \in 0 .. MaxAddrs, conn' = [conn EXCEPT ![t.s] = [@ EXCEPT !.res = n]]
      PROVE  LivesOK' /\ UsersOK'
  <2> DEFINE c == [conn[t.s] EXCEPT !.res = n]
  <2>1. /\ c.state = conn[t.s].state /\ c.client_fd = conn[t.s].client_fd
        /\ c.origin_fd = conn[t.s].origin_fd /\ c.domain = conn[t.s].domain
        /\ c.wb = conn[t.s].wb /\ c.uname = conn[t.s].uname /\ c.status = conn[t.s].status
        /\ c.copy = conn[t.s].copy
    BY <1>2 DEF Conns
  <2> HIDE DEF c
  <2>2. \A s \in Structs : conn'[s] = IF s = t.s THEN c ELSE conn[s]
    BY <1>2, <1>5 DEF c
  <2>3. ASSUME is_auth_on, NEW s \in InUse PROVE UserOK(conn'[s])
    <3>1. UserOK(conn[s]) /\ s \in Structs
      BY <1>2, <2>3 DEF LifeInv, UsersOK
    <3> QED
      BY <2>1, <2>2, <3>1 DEF UserOK
  <2>4. ASSUME mode = "run", NEW s \in InUse PROVE LifeOK(conn'[s], interest)
    <3>1. LifeOK(conn[s], interest) /\ s \in Structs /\ conn[t.s].state = "REQUEST_RESOLV"
      BY <1>2, <2>4 DEF LifeInv, LivesOK, ResolverTargetsLive
    <3> QED
      BY <2>1, <2>2, <3>1 DEF LifeOK, WatchOK, ListOK, ReplyOK
  <2> QED
    BY <1>1, <1>3, <2>3, <2>4 DEF LivesOK, UsersOK
<1> QED
  BY <1>1, <1>4, <1>5

(* The steps of resolver threads.                                          *)
LEMMA ThreadResolvers ==
  ASSUME LifeInv, NEW t \in threads, ResolverStep(t)
  PROVE  ResolversOK'
<1>1. CASE mode # "run"
  BY <1>1 DEF ResolverStep, request_resolv_blocking, selector_notify_block,
              ResolversOK, JobsLive, ResolverTargetsLive
<1>2. CASE mode = "run"
  <2>1. /\ \A fd \in jobs : JobFinds(fd)
        /\ \A u \in threads : ThreadFinds(u) /\ u.fd \notin jobs
                              /\ \A v \in threads : v.s = u.s => v = u
    BY <1>2, ResolversFind DEF LifeInv, ResolversOK
  <2>2. /\ conn \in [Structs -> Conns] /\ t \in Threads /\ t.s \in Structs
        /\ data \in [Fds -> Structs \cup {NoStruct}] /\ threads \subseteq Threads
    BY DEF LifeInv, Socks5Inv, Core, RestOK, Threads, HeapOK
  <2>3. /\ UNCHANGED <<mode, data, heap>>
        /\ conn' = conn \/ \E n \in 0 .. MaxAddrs : conn' = [conn EXCEPT ![t.s] = [@ EXCEPT !.res = n]]
    BY DEF ResolverStep, request_resolv_blocking, selector_notify_block, selectorVars
  <2>4. \A s \in Structs : conn'[s].state = conn[s].state
    <3>1. ASSUME NEW n, conn' = [conn EXCEPT ![t.s] = [@ EXCEPT !.res = n]], NEW s \in Structs
          PROVE  conn'[s].state = conn[s].state
      <4> DEFINE c == [conn[t.s] EXCEPT !.res = n]
      <4>1. c.state = conn[t.s].state
        BY <2>2 DEF Conns
      <4> HIDE DEF c
      <4>2. conn'[s] = IF s = t.s THEN c ELSE conn[s]
        BY <2>2, <3>1 DEF c
      <4> QED
        BY <4>1, <4>2
    <3> QED
      BY <2>3, <3>1
  <2>5. ASSUME NEW fd \in Fds PROVE JobFinds(fd) => JobFinds(fd)'
    BY <2>2, <2>3, <2>4 DEF JobFinds, Registered
  <2>6. ASSUME NEW u, u.s \in Structs PROVE ThreadFinds(u) => ThreadFinds(u)'
    BY <2>3, <2>4, <2>6 DEF ThreadFinds, InUse
  <2>7. jobs \subseteq Fds
    BY DEF LifeInv, Socks5Inv, RestOK
  <2>8. CASE request_resolv_blocking(t)
    <3> DEFINE n == [t EXCEPT !.phase = "notify"]
    <3>1. jobs' = jobs /\ threads' = (threads \ {t}) \cup {n}
      BY <2>8 DEF request_resolv_blocking
    <3>2. n.s = t.s /\ n.fd = t.fd
      BY <2>2 DEF Threads
    <3> HIDE DEF n
    <3>3. ThreadFinds(n)
      BY <2>1, <3>2 DEF ThreadFinds
    <3>4. ASSUME NEW u \in threads'
          PROVE  ThreadFinds(u)' /\ u.fd \notin jobs' /\ \A v \in threads' : v.s = u.s => v = u
      <4>1. u.s \in Structs /\ ThreadFinds(u) /\ u.fd \notin jobs'
        BY <2>1, <2>2, <3>1, <3>2, <3>3, <3>4 DEF Threads
      <4>2. \A v \in threads' : v.s = u.s => v = u
        BY <2>1, <3>1, <3>2, <3>4
      <4> QED
        BY <2>6, <4>1, <4>2
    <3>5. \A fd \in jobs' : JobFinds(fd)'
      BY <2>1, <2>5, <2>7, <3>1
    <3> QED
      BY <3>4, <3>5 DEF ResolversOK, JobsLive, ResolverTargetsLive, JobFinds, ThreadFinds
  <2>9. CASE selector_notify_block(t)
    <3>1. (jobs' = jobs \cup {t.fd} \/ jobs' = jobs) /\ threads' = threads \ {t}
      BY <2>9 DEF selector_notify_block
    <3>2. t.fd \in Fds /\ JobFinds(t.fd)
      BY <2>1, <2>2, Socks5Assumption DEF ThreadFinds, JobFinds, Registered, Threads, Socks5Assumption
    <3>3. \A fd \in jobs' : JobFinds(fd)'
      BY <2>1, <2>5, <2>7, <3>1, <3>2
    <3>4. ASSUME NEW u \in threads'
          PROVE  ThreadFinds(u)' /\ u.fd \notin jobs' /\ \A v \in threads' : v.s = u.s => v = u
      <4>1. u \in threads /\ u # t /\ u.s \in Structs
        BY <2>2, <3>1, <3>4 DEF Threads
      <4>2. u.fd # t.fd
        BY <2>1, <4>1 DEF ThreadFinds
      <4> QED
        BY <2>1, <2>6, <3>1, <4>1, <4>2
    <3> QED
      BY <3>3, <3>4 DEF ResolversOK, JobsLive, ResolverTargetsLive, JobFinds, ThreadFinds
  <2> QED
    BY <2>8, <2>9 DEF ResolverStep
<1> QED
  BY <1>1, <1>2

(* The end of main(): no struct comes into use, and the loop is over.      *)
LEMMA MainLives ==
  ASSUME LifeInv, Socks5Inv', Next, ~(\E fd \in Fds, s \in Structs : ConnectionStep(fd, s)),
         ~(\E t \in threads : ResolverStep(t))
  PROVE  LivesOK' /\ UsersOK' /\ ResolversOK'
<1>1. CASE socksv5_register_user \/ socksv5_unregister_user \/ Exited
  <2>1. UNCHANGED <<mode, data, interest, heap, conn, is_auth_on, threads, jobs>>
    BY <1>1 DEF socksv5_register_user, socksv5_unregister_user, Exited, vars, selectorVars, resolverVars,
                userVars
  <2> QED
    BY <2>1 DEF LifeInv, LivesOK, UsersOK, ResolversOK, JobsLive, ResolverTargetsLive, InUse, Registered
<1>2. CASE sigterm_handler \/ (\E fd \in Fds : selector_destroy(fd)) \/ socksv5_pool_destroy
  <2>1. mode' # "run" /\ UNCHANGED <<conn, is_auth_on>>
    BY <1>2 DEF sigterm_handler, selector_destroy, socksv5_pool_destroy, userVars
  <2>2. InUse' \subseteq InUse
    <3>1. CASE sigterm_handler
      BY <3>1 DEF sigterm_handler, InUse
    <3>2. ASSUME NEW fd \in Fds, selector_destroy(fd) PROVE InUse' \subseteq InUse
      <4>1. heap \in Heaps /\ data[fd] \in Structs /\ heap' = socks5_destroy(heap, data[fd])
        BY <3>2 DEF selector_destroy, Registered, LifeInv, Socks5Inv, Core, HeapOK
      <4>2. \/ heap'.mem = heap.mem /\ heap.pool \subseteq heap'.pool
            \/ heap'.mem \subseteq heap.mem /\ heap'.pool = heap.pool
        BY <4>1 DEF socks5_destroy, Heaps
      <4> QED
        BY <4>2 DEF InUse
    <3>3. CASE socksv5_pool_destroy
      BY <3>3 DEF socksv5_pool_destroy, InUse, LifeInv, Socks5Inv, Core, HeapOK, Heaps
    <3> QED
      BY <1>2, <3>1, <3>2, <3>3
  <2> QED
    BY <2>1, <2>2 DEF LifeInv, LivesOK, UsersOK, ResolversOK, JobsLive, ResolverTargetsLive
<1> QED
  BY <1>1, <1>2 DEF Next

(* The invariant holds at the start and every step keeps it.               *)
LEMMA LifeInit == Init => LifeInv
<1>1. Init => Socks5Inv
  BY InitInv
<1>2. Init => InUse = {} /\ threads = {} /\ jobs = {}
  BY DEF Init, InUse
<1> QED
  BY <1>1, <1>2 DEF LifeInv, LivesOK, UsersOK, JobsLive, ResolverTargetsLive

(* Every step keeps the invariant.                                         *)
LEMMA LifeStep == LifeInv /\ [Next]_vars => LifeInv'
<1> SUFFICES ASSUME LifeInv, [Next]_vars PROVE LifeInv'
  OBVIOUS
<1>1. Socks5Inv'
  BY InvStep DEF LifeInv
<1>2. CASE UNCHANGED vars
  BY <1>1, <1>2 DEF vars, selectorVars, resolverVars, userVars, statVars, LifeInv, LivesOK, UsersOK,
                    JobsLive, ResolverTargetsLive, InUse, Registered
<1>3. ASSUME Next, NEW fd \in Fds, NEW s \in Structs, ConnectionStep(fd, s)
      PROVE  LivesOK' /\ UsersOK' /\ ResolversOK'
  <2>1. mode = "run" /\ Core' /\ OthersKept(s)
    BY <1>3, StepRuns, StepLived
  <2>2. ResolversOK'
    BY <1>3, <2>1, QuietHandler, QuietResolvers, NameResolvers, DoneResolvers
  <2> QED
    BY <1>3, <2>2, ConnectionsStep
<1>4. CASE Next
  <2>1. LivesOK' /\ UsersOK' /\ ResolversOK'
    BY <1>1, <1>3, <1>4, ThreadLives, ThreadResolvers, MainLives
  <2> QED
    BY <1>1, <2>1 DEF LifeInv, ResolversOK
<1> QED
  BY <1>2, <1>4

-----------------------------------------------------------------------------
(* The statistics: how many connections are copying.                       *)

Copying == {s \in InUse : conn[s].state = "COPY"}

(* Counting modulo m.                                                      *)
LEMMA ModuloPeriod ==
  ASSUME NEW m \in Nat \ {0}, NEW q \in Int, NEW r \in 0 .. m - 1
  PROVE  (m * q + r) % m = r
OBVIOUS

(* A counter modulo its width, one up and one down.                        *)
LEMMA ModuloCount ==
  ASSUME NEW m \in Nat \ {0}, NEW n \in Nat
  PROVE  /\ ((n % m) + 1) % m = (n + 1) % m
         /\ ((n % m) - 1) % m = (n - 1) % m
<1> DEFINE q == n \div m
           r == n % m
<1>1. n = m * q + r /\ q \in Int /\ r \in 0 .. m - 1
  OBVIOUS
<1> HIDE DEF q, r
<1>2. (r + 1) % m = (n + 1) % m
  <2>1. CASE r < m - 1
    <3>1. n + 1 = m * q + (r + 1) /\ r + 1 \in 0 .. m - 1 /\ r + 1 = m * 0 + (r + 1)
      BY <1>1, <2>1
    <3> QED
      BY <3>1, <1>1, ModuloPeriod
  <2>2. CASE r = m - 1
    <3>1. n + 1 = m * (q + 1) + 0 /\ r + 1 = m * 1 + 0 /\ 0 \in 0 .. m - 1 /\ q + 1 \in Int
      BY <1>1, <2>2
    <3> QED
      BY <3>1, ModuloPeriod
  <2> QED
    BY <1>1, <2>1, <2>2
<1>3. (r - 1) % m = (n - 1) % m
  <2>1. CASE r > 0
    <3>1. n - 1 = m * q + (r - 1) /\ r - 1 \in 0 .. m - 1 /\ r - 1 = m * 0 + (r - 1)
      BY <1>1, <2>1
    <3> QED
      BY <3>1, <1>1, ModuloPeriod
  <2>2. CASE r = 0
    <3>1. n - 1 = m * (q - 1) + (m - 1) /\ r - 1 = m * (-1) + (m - 1) /\ m - 1 \in 0 .. m - 1
          /\ q - 1 \in Int /\ -1 \in Int
      BY <1>1, <2>2
    <3> QED
      BY <3>1, ModuloPeriod
  <2> QED
    BY <1>1, <2>1, <2>2
<1> QED
  BY <1>2, <1>3 DEF r

(* Only request_write enters COPY, and only the handlers of COPY leave it. *)
LEMMA OutsideCopy ==
  ASSUME LifeInv, NEW fd \in Fds, NEW s \in Structs, ConnectionStep(fd, s),
         ~request_write(fd, s), ~CopyRead(fd, s), ~CopyWrite(fd, s)
  PROVE  s \notin Copying /\ s \notin Copying' /\ current_connections' = current_connections
<1>1. Core' /\ conn \in [Structs -> Conns] /\ conn[s] \in Conns
  BY StepLived DEF LifeInv, Socks5Inv, Core
<1>2. current_connections' = current_connections
  BY DEF ConnectionStep, socksv5_passive_accept, AcceptFails, HelloPartial, hello_read,
    HelloFails, hello_write, auth_read, auth_write, HandshakeError, RequestRefused, RequestAddress,
    RequestName, request_resolv_done, request_connecting, ConnectAgain, RequestFailed, statVars
<1>3. CASE socksv5_passive_accept(fd, s) \/ AcceptFails(fd, s)
  BY <1>1, <1>2, <1>3, AcceptLived DEF Copying
<1>4. CASE ~(socksv5_passive_accept(fd, s) \/ AcceptFails(fd, s))
  <2>1. conn[s].state # "COPY"
    BY <1>4 DEF ConnectionStep, HelloPartial, hello_read, HelloFails, hello_write, auth_read, auth_write,
      HandshakeError, RequestRefused, RequestAddress, RequestName, request_resolv_done,
      request_connecting, ConnectAgain, RequestFailed, Event
  <2>2. CASE HelloFails(fd, s) \/ HandshakeError(fd, s) \/ RequestFailed(fd, s)
    BY <1>1, <1>2, <2>1, <2>2, EndLived DEF Copying
  <2>3. ASSUME NEW c, NEW f, NEW ops, Jump(s, c, f, ops) PROVE conn'[s] = c
    BY <1>1, <2>3 DEF Jump
  <2>4. CASE HelloPartial(fd, s) \/ hello_read(fd, s) \/ RequestName(fd, s)
    <3>1. /\ [conn[s] EXCEPT !.state = "HELLO_READ"].state = "HELLO_READ"
          /\ [conn[s] EXCEPT !.state = "HELLO_WRITE", !.wb = @ + 1].state = "HELLO_WRITE"
          /\ [conn[s] EXCEPT !.state = "REQUEST_RESOLV", !.domain = TRUE].state = "REQUEST_RESOLV"
      BY <1>1 DEF Conns
    <3>2. \/ conn'[s] = [conn[s] EXCEPT !.state = "HELLO_READ"]
          \/ conn'[s] = [conn[s] EXCEPT !.state = "HELLO_WRITE", !.wb = @ + 1]
          \/ conn'[s] = [conn[s] EXCEPT !.state = "REQUEST_RESOLV", !.domain = TRUE]
      BY <2>3, <2>4 DEF HelloPartial, hello_read, RequestName
    <3> QED
      BY <1>2, <2>1, <3>1, <3>2 DEF Copying
  <2>5. CASE hello_write(fd, s)
    <3> DEFINE st == IF is_auth_on THEN "AUTH_READ" ELSE "REQUEST_READ"
    <3>1. conn'[s] = [conn[s] EXCEPT !.state = st, !.status = "fail", !.wb = 0]
      BY <2>3, <2>5 DEF hello_write
    <3>2. st # "COPY"
      OBVIOUS
    <3> HIDE DEF st
    <3>3. conn'[s].state = st
      BY <1>1, <3>1 DEF Conns
    <3> QED
      BY <1>2, <2>1, <3>2, <3>3 DEF Copying
  <2>6. CASE auth_read(fd, s)
    <3>1. PICK ss, found : conn'[s] = [conn[s] EXCEPT !.state = "AUTH_WRITE", !.status = ss,
                                                      !.uname = found, !.wb = @ + 1]
      BY <2>3, <2>6 DEF auth_read
    <3>2. conn'[s].state = "AUTH_WRITE"
      BY <1>1, <3>1 DEF Conns
    <3> QED
      BY <1>2, <2>1, <3>2 DEF Copying
  <2>7. CASE auth_write(fd, s)
    <3>1. \/ Jump(s, [conn[s] EXCEPT !.state = "REQUEST_READ", !.status = "fail", !.wb = 0], fd, {OP_READ})
          \/ socksv5_done(s)
      BY <2>7 DEF auth_write
    <3>2. \/ conn'[s] = [conn[s] EXCEPT !.state = "REQUEST_READ", !.status = "fail", !.wb = 0]
          \/ conn'[s] = NoConn
      BY <1>1, <2>3, <3>1 DEF socksv5_done
    <3>3. [conn[s] EXCEPT !.state = "REQUEST_READ", !.status = "fail", !.wb = 0].state = "REQUEST_READ"
          /\ NoConn.state = "NULL"
      BY <1>1 DEF Conns, NoConn
    <3> QED
      BY <1>2, <2>1, <3>2, <3>3 DEF Copying
  <2>8. ASSUME NEW c \in Conns, c.state # "COPY", request_error_write(s, c) \/ request_connect(s, c)
        PROVE  conn'[s].state # "COPY"
    <3> DEFINE w  == c.wb + 1
               e  == [c EXCEPT !.status = "fail", !.wb = w]
               st == IF c.state = "REQUEST_CONNECTING" THEN c.state ELSE "REQUEST_WRITE"
    <3>1. [e EXCEPT !.state = "REQUEST_WRITE"].state = "REQUEST_WRITE"
          /\ e.state = c.state
      BY DEF Conns
    <3>2. ASSUME NEW f PROVE [c EXCEPT !.state = "REQUEST_CONNECTING", !.origin_fd = f].state = "REQUEST_CONNECTING"
      BY DEF Conns
    <3>3. ASSUME NEW z PROVE [e EXCEPT !.state = z, !.origin_fd = NoFd].state = z
      BY DEF Conns
    <3>4. \/ conn'[s] = [e EXCEPT !.state = "REQUEST_WRITE"]
          \/ \E f \in Fds : conn'[s] = [c EXCEPT !.state = "REQUEST_CONNECTING", !.origin_fd = f]
          \/ conn'[s] = [e EXCEPT !.state = st, !.origin_fd = NoFd]
      <4>1. CASE request_error_write(s, c)
        BY <1>1, <4>1 DEF request_error_write, Jump, ErrorReply
      <4>2. CASE request_connect(s, c)
        <5>1. \/ \E o, h : ConnectStarts(s, c, o, h)
              \/ \E o, h : ConnectFails(s, c, o, h)
          BY <4>2 DEF request_connect
        <5>2. ASSUME NEW o, NEW h, ConnectStarts(s, c, o, h)
              PROVE  \E f \in Fds : conn'[s] = [c EXCEPT !.state = "REQUEST_CONNECTING", !.origin_fd = f]
          BY <1>1, <5>2 DEF ConnectStarts
        <5>3. ASSUME NEW o, NEW h, ConnectFails(s, c, o, h)
              PROVE  conn'[s] = [e EXCEPT !.state = st, !.origin_fd = NoFd]
          <6>1. conn'[s] = [e EXCEPT !.state = IF c.state = "REQUEST_CONNECTING" THEN @ ELSE "REQUEST_WRITE",
                                     !.origin_fd = NoFd]
            BY <1>1, <5>3 DEF ConnectFails, ErrorReply
          <6> QED
            BY <3>1, <6>1
        <5> QED
          BY <5>1, <5>2, <5>3
      <4> QED
        BY <2>8, <4>1, <4>2
    <3>5. st # "COPY"
      BY <2>8
    <3> HIDE DEF e, st
    <3> QED
      BY <3>1, <3>2, <3>3, <3>4, <3>5
  <2>9. CASE RequestRefused(fd, s) \/ RequestAddress(fd, s) \/ request_resolv_done(fd, s)
             \/ ConnectAgain(fd, s)
    <3>1. ASSUME RequestRefused(fd, s) \/ RequestAddress(fd, s) PROVE conn'[s].state # "COPY"
      BY <1>1, <2>1, <2>8, <3>1 DEF RequestRefused, RequestAddress
    <3>2. ASSUME NEW a \in 0 .. MaxAddrs
          PROVE  [conn[s] EXCEPT !.alts = a] \in Conns /\ [conn[s] EXCEPT !.alts = a].state = conn[s].state
      BY <1>1 DEF Conns
    <3>3. conn[s].alts \in 0 .. MaxAddrs /\ conn[s].res \in 0 .. MaxAddrs /\ MaxAddrs \in Nat
      BY <1>1, Socks5Assumption DEF Conns, Socks5Assumption
    <3>4. ASSUME request_resolv_done(fd, s) PROVE conn'[s].state # "COPY"
      <4>1. CASE conn[s].res = 0
        BY <1>1, <2>1, <2>8, <3>4, <4>1 DEF request_resolv_done
      <4>2. CASE conn[s].res # 0
        <5>1. request_connect(s, [conn[s] EXCEPT !.alts = conn[s].res - 1])
          BY <3>4, <4>2 DEF request_resolv_done, FirstAddress
        <5>2. conn[s].res - 1 \in 0 .. MaxAddrs
          BY <3>3, <4>2
        <5> QED
          BY <2>1, <2>8, <3>2, <5>1, <5>2
      <4> QED
        BY <4>1, <4>2
    <3>5. ASSUME ConnectAgain(fd, s) PROVE conn'[s].state # "COPY"
      <4>1. conn[s].alts > 0 /\ request_connect(s, [conn[s] EXCEPT !.alts = conn[s].alts - 1])
        BY <3>5 DEF ConnectAgain
      <4>2. conn[s].alts - 1 \in 0 .. MaxAddrs
        BY <3>3, <4>1
      <4> QED
        BY <2>1, <2>8, <3>2, <4>1, <4>2
    <3> QED
      BY <1>2, <2>1, <2>9, <3>1, <3>4, <3>5 DEF Copying
  <2>10. ASSUME NEW connected \in BOOLEAN, request_connecting(fd, s, connected)
         PROVE  s \notin Copying /\ s \notin Copying'
    <3>1. PICK ss, f, w : conn'[s] = [conn[s] EXCEPT !.state = "REQUEST_WRITE", !.status = ss,
                                         !.origin_fd = f, !.res = 0, !.alts = 0, !.wb = w]
      BY <1>1, <2>10 DEF request_connecting
    <3>2. conn'[s].state = "REQUEST_WRITE"
      BY <1>1, <3>1 DEF Conns
    <3> QED
      BY <2>1, <3>2 DEF Copying
  <2> QED
    BY <1>2, <1>4, <2>2, <2>4, <2>5, <2>6, <2>7, <2>9, <2>10 DEF ConnectionStep
<1> QED
  BY <1>3, <1>4

(* What is left of the others is counted as before.                        *)
LEMMA OthersCopying ==
  ASSUME LifeInv, mode = "run", NEW s \in Structs, OthersKept(s), Core'
  PROVE  Copying' \ {s} = Copying \ {s}
<1>1. InUse \subseteq Structs /\ InUse' \subseteq Structs
  BY DEF LifeInv, Socks5Inv, Core, HeapOK, Heaps, InUse
<1>2. ASSUME NEW t \in Copying', t # s PROVE t \in Copying
  BY <1>1, <1>2 DEF OthersKept, Copying
<1>3. ASSUME NEW t \in Copying, t # s PROVE t \in Copying'
  <2>1. ConnOK(conn[t], data, interest, t) /\ t \in Structs
    BY <1>1 DEF LifeInv, Socks5Inv, Core, RunOK, Copying
  <2>2. conn[t].client_fd \in Fds /\ data[conn[t].client_fd] = t
    BY <2>1 DEF ConnOK, Holds
  <2> QED
    BY <1>3, <2>1, <2>2, TargetKept DEF Copying
<1> QED
  BY <1>2, <1>3

(* current_connections is kept equal to the number of connections that     *)
(* copy.                                                                   *)
LEMMA CountStep ==
  ASSUME IsFiniteSet(Structs), LifeInv, CurrentExact, [Next]_vars
  PROVE  CurrentExact'
<1> DEFINE k == Cardinality(Copying)
<1>1. IsFiniteSet(Copying) /\ k \in Nat
  <2>1. Copying \in SUBSET Structs
    BY DEF Copying, LifeInv, Socks5Inv, Core, HeapOK, Heaps, InUse
  <2> QED
    BY <2>1, FS_Subset, FS_CardinalityType
<1>2. CASE UNCHANGED vars
  BY <1>2 DEF vars, statVars, CurrentExact, InUse
<1>3. ASSUME NEW fd \in Fds, NEW s \in Structs, ConnectionStep(fd, s) PROVE CurrentExact'
  <2>1. mode = "run" /\ Core' /\ OthersKept(s)
    BY <1>3, StepRuns, StepLived
  <2>2. Copying' \ {s} = Copying \ {s}
    BY <2>1, OthersCopying
  <2>3. current_connections = k % CounterMod /\ CounterMod \in Nat \ {0}
    BY <2>1, Socks5Assumption DEF CurrentExact, Copying, Socks5Assumption
  <2>4. CASE request_write(fd, s)
    <3>1. Event(fd, OP_WRITE, s, "REQUEST_WRITE") /\ heap' = heap
          /\ current_connections' = (current_connections + 1) % CounterMod
      BY <2>4 DEF request_write
    <3>2. Finds(fd, OP_WRITE, s, "REQUEST_WRITE")
      BY <3>1, EventLife
    <3>3. s \in InUse /\ InUse' = InUse /\ conn[s].state = "REQUEST_WRITE" /\ conn'[s].state = "COPY"
      BY <2>4, <3>1, <3>2, RequestWriteLived DEF Finds, InUse
    <3>4. s \notin Copying /\ Copying' = Copying \cup {s}
      BY <2>2, <3>3 DEF Copying
    <3>5. Cardinality(Copying') = k + 1
      BY <1>1, <3>4, FS_AddElement
    <3> HIDE DEF k
    <3>6. current_connections' = (k + 1) % CounterMod
      BY <1>1, <2>3, <3>1, ModuloCount
    <3> QED
      BY <3>5, <3>6 DEF CurrentExact, Copying
  <2>5. CASE CopyRead(fd, s) \/ CopyWrite(fd, s)
    <3>1. /\ s \in Copying
          /\ \/ conn'[s].state = "COPY" /\ InUse' = InUse /\ current_connections' = current_connections
             \/ s \notin InUse' /\ CountDone
      BY <2>1, <2>5, CopyLived DEF Copying
    <3>2. CASE conn'[s].state = "COPY" /\ InUse' = InUse /\ current_connections' = current_connections
      <4>1. Copying' = Copying
        BY <2>2, <3>1, <3>2 DEF Copying
      <4> QED
        BY <2>3, <3>2, <4>1 DEF CurrentExact, Copying
    <3>3. CASE s \notin InUse' /\ CountDone
      <4>1. Copying' = Copying \ {s}
        BY <2>2, <3>3 DEF Copying
      <4>2. Cardinality(Copying') = k - 1
        BY <1>1, <3>1, <4>1, FS_RemoveElement
      <4> HIDE DEF k
      <4>3. current_connections' = (k - 1) % CounterMod
        BY <1>1, <2>3, <3>3, ModuloCount DEF CountDone
      <4> QED
        BY <4>2, <4>3 DEF CurrentExact, Copying
    <3> QED
      BY <3>1, <3>2, <3>3
  <2>6. CASE ~request_write(fd, s) /\ ~CopyRead(fd, s) /\ ~CopyWrite(fd, s)
    <3>1. s \notin Copying /\ s \notin Copying' /\ current_connections' = current_connections
      BY <1>3, <2>6, OutsideCopy
    <3>2. Copying' = Copying
      BY <2>2, <3>1
    <3> QED
      BY <2>3, <3>1, <3>2 DEF CurrentExact, Copying
  <2> QED
    BY <2>4, <2>5, <2>6
<1>4. ASSUME NEW t \in threads, ResolverStep(t) PROVE CurrentExact'
  <2>1. UNCHANGED <<mode, heap, current_connections>>
        /\ (conn' = conn \/ \E n \in 0 .. MaxAddrs : conn' = [conn EXCEPT ![t.s] = [@ EXCEPT !.res = n]])
    BY <1>4 DEF ResolverStep, request_resolv_blocking, selector_notify_block, statVars
  <2>2. conn \in [Structs -> Conns] /\ InUse \subseteq Structs
    BY DEF LifeInv, Socks5Inv, Core, HeapOK, Heaps, InUse
  <2>3. ASSUME NEW s \in Structs PROVE conn'[s].state = conn[s].state
    <3>1. ASSUME NEW n PROVE [conn[s] EXCEPT !.res = n].state = conn[s].state
      BY <2>2 DEF Conns
    <3>2. conn'[s] = conn[s] \/ \E n \in 0 .. MaxAddrs : conn'[s] = [conn[s] EXCEPT !.res = n]
      BY <2>1, <2>2
    <3> QED
      BY <3>1, <3>2
  <2>4. Copying' = Copying
    BY <2>1, <2>2, <2>3 DEF Copying, InUse
  <2> QED
    BY <2>1, <2>4 DEF CurrentExact, Copying
<1>5. CASE socksv5_register_user \/ socksv5_unregister_user \/ Exited
  BY <1>5 DEF socksv5_register_user, socksv5_unregister_user, Exited, vars, statVars, CurrentExact, InUse
<1>6. CASE sigterm_handler \/ (\E fd \in Fds : selector_destroy(fd)) \/ socksv5_pool_destroy
  BY <1>6 DEF sigterm_handler, selector_destroy, socksv5_pool_destroy, CurrentExact
<1> QED
  BY <1>2, <1>3, <1>4, <1>5, <1>6 DEF Next

-----------------------------------------------------------------------------
(* The results, for any number of descriptors, structs, addresses and      *)
(* users, any pool, and any of the faults unless one is excluded.          *)

(* The contents of every struct in use fit its state on every path through *)
(* the handshake, the connection attempts, the copy and the resolver.      *)
THEOREM Socks5LifeInvariant == Spec => []LifeInv
BY LifeInit, LifeStep, PTL DEF Spec

(* No event and no job ever finds its connection in a state without a      *)
(* handler for it, so that stm_handler_* never abort() the server.         *)
THEOREM Socks5HandlersReady == Spec => []HandlersReady
<1>1. ASSUME NEW k, NEW e PROVE copy_compute_interests(k, e) \subseteq {OP_READ, OP_WRITE}
  BY DEF copy_compute_interests
<1>2. LifeInv => HandlersReady
  <2> SUFFICES ASSUME LifeInv, mode = "run" PROVE HandlersReady
    BY DEF HandlersReady
  <2>1. ASSUME NEW fd \in Registered PROVE interest[fd] \subseteq client_statbl(conn[data[fd]].state)
    <3> DEFINE s == data[fd]
               c == conn[s]
    <3>1. fd \in Fds /\ s \in InUse /\ c \in Conns /\ (fd = c.client_fd \/ fd = c.origin_fd)
      BY DEF LifeInv, Socks5Inv, Core, HeapOK, Heaps, InUse, Registered
    <3>2. ConnOK(c, data, interest, s) /\ LifeOK(c, interest) /\ NoFd \notin Fds
      BY <3>1, Socks5Assumption DEF LifeInv, Socks5Inv, Core, RunOK, LivesOK, NoFd, Socks5Assumption
    <3>3. c.state \in States
      BY <3>1 DEF Conns
    <3> HIDE DEF c, s
    <3>4. interest[fd] \subseteq client_statbl(c.state)
      BY <1>1, <3>1, <3>2, <3>3 DEF ConnOK, LifeOK, WatchOK, Computed, Entered, States, client_statbl
    <3> QED
      BY <3>4 DEF c, s
  <2> QED
    BY <2>1 DEF HandlersReady, LifeInv, JobsLive
<1> QED
  BY <1>2, Socks5LifeInvariant, PTL

(* A resolver thread finds the struct and the descriptor it was given      *)
(* still belonging to the connection that waits for it, although it holds  *)
(* no lock and descriptors and structs are used again.                     *)
THEOREM Socks5ResolverTargets == Spec => []ResolverTargetsLive
<1>1. LifeInv => ResolverTargetsLive
  BY DEF LifeInv
<1> QED
  BY <1>1, Socks5LifeInvariant, PTL

(* While a name is being connected to the current address is in the list,  *)
(* which is gone when the copy starts.                                     *)
THEOREM Socks5AddressList == Spec => []AddressListLive
<1>1. LifeInv => AddressListLive
  BY DEF LifeInv, LivesOK, LifeOK, ListOK, AddressListLive
<1> QED
  BY <1>1, Socks5LifeInvariant, PTL

(* client_uname is set whenever it may be logged.                          *)
THEOREM Socks5LoggedUser == Spec => []LoggedUserKnown
<1>1. LifeInv => LoggedUserKnown
  BY DEF LifeInv, UsersOK, UserOK, LoggedUserKnown
<1> QED
  BY <1>1, Socks5LifeInvariant, PTL

(* current_connections counts the connections that copy, modulo its width, *)
(* on every way in and out of COPY. The process has finitely many structs. *)
THEOREM Socks5CurrentExact ==
  ASSUME IsFiniteSet(Structs)
  PROVE  Spec => []CurrentExact
<1>1. Init => CurrentExact
  <2>1. Init => {s \in InUse : conn[s].state = "COPY"} = {}
    BY DEF Init, InUse
  <2>2. Init => Cardinality({s \in InUse : conn[s].state = "COPY"}) = 0
    BY <2>1, FS_EmptySet
  <2>3. 0 % CounterMod = 0
    BY Socks5Assumption DEF Socks5Assumption
  <2>4. Init => current_connections = 0
    BY DEF Init
  <2> QED
    BY <2>2, <2>3, <2>4 DEF CurrentExact
<1>2. LifeInv /\ CurrentExact /\ [Next]_vars => CurrentExact'
  BY CountStep
<1> QED
  BY <1>1, <1>2, Socks5LifeInvariant, PTL DEF Spec

(* One reply per message, unless a further attempt to connect fails at     *)
(* once (the finding about that is a run of its own).                      *)
THEOREM Socks5OneReply ==
  ASSUME "retry" \notin Faults
  PROVE  Spec => []OneReply
<1>1. LifeInv => OneReply
  BY DEF LifeInv, LivesOK, LifeOK, ReplyOK, OneReply
<1> QED
  BY <1>1, Socks5LifeInvariant, PTL

(* Under the same condition every descriptor is watched for what the       *)
(* comments of enum socks_v5state say, whatever the client sent behind its *)
(* request, except that with early bytes a copy starts with OP_READ alone, *)
(* which its first event puts right.                                       *)
THEOREM Socks5Interests ==
  ASSUME "retry" \notin Faults
  PROVE  Spec => []DocumentedInterests
<1>1. LifeInv => DocumentedInterests
  BY DEF LifeInv, Socks5Inv, Core, RunOK, ConnOK, Holds, LivesOK, LifeOK, WatchOK, Computed, Entered,
         DocumentedInterests
<1> QED
  BY <1>1, Socks5LifeInvariant, PTL

(* A step that leaves the contents of a connection alone leaves its        *)
(* descriptors alone: none is closed, given to another connection or       *)
(* watched for something else.                                             *)
THEOREM Socks5Isolation == Spec => Isolation
<1> DEFINE A == mode' = "run" => \A fd \in Registered :
                  conn'[data[fd]] = conn[data[fd]] =>
                    fd \in open' /\ data'[fd] = data[fd] /\ interest'[fd] = interest[fd]
<1>1. LifeInv /\ LifeInv' /\ [Next]_vars => [A]_vars
  <2> SUFFICES ASSUME LifeInv, LifeInv', Next, mode' = "run", NEW fd \in Registered,
                      conn'[data[fd]] = conn[data[fd]]
               PROVE  fd \in open' /\ data'[fd] = data[fd] /\ interest'[fd] = interest[fd]
    OBVIOUS
  <2>1. open' = Registered' /\ data[fd] # NoStruct /\ fd \in Fds
    BY DEF LifeInv, Socks5Inv, Core, RunOK, Registered
  <2>2. ASSUME NEW f \in Fds, NEW s \in Structs, ConnectionStep(f, s)
        PROVE  data'[fd] = data[fd] /\ interest'[fd] = interest[fd]
    BY <2>1, <2>2, StepLived DEF OthersKept, Lived
  <2>3. ASSUME ~\E f \in Fds, s \in Structs : ConnectionStep(f, s)
        PROVE  data'[fd] = data[fd] /\ interest'[fd] = interest[fd]
    <3>1. ASSUME NEW f \in Fds, selector_destroy(f) PROVE FALSE
      BY <3>1 DEF selector_destroy
    <3>2. ~sigterm_handler /\ ~socksv5_pool_destroy /\ ~Exited
      BY DEF sigterm_handler, socksv5_pool_destroy, Exited, vars
    <3>3. ASSUME NEW t \in threads, ResolverStep(t) PROVE UNCHANGED <<data, interest>>
      BY <3>3 DEF ResolverStep, request_resolv_blocking, selector_notify_block, selectorVars
    <3>4. socksv5_register_user \/ socksv5_unregister_user => UNCHANGED <<data, interest>>
      BY DEF socksv5_register_user, socksv5_unregister_user, selectorVars
    <3>5. (\E t \in threads : ResolverStep(t)) \/ socksv5_register_user \/ socksv5_unregister_user
      BY <2>3, <3>1, <3>2 DEF Next
    <3>6. UNCHANGED <<data, interest>>
      BY <3>3, <3>4, <3>5
    <3> QED
      BY <3>6
  <2> QED
    BY <2>1, <2>2, <2>3 DEF Registered
<1> QED
  BY <1>1, Socks5LifeInvariant, PTL DEF Spec, Isolation
=============================================================================
