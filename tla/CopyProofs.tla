----------------------------- MODULE CopyProofs -----------------------------
(***************************************************************************)
(* What the functions of buffer.c and of the COPY state do to one buffer   *)
(* and to one pair of copies, for every buffer size. The proofs about      *)
(* connections rest on these lemmas.                                       *)
(***************************************************************************)
EXTENDS Copy, TLAPS

-----------------------------------------------------------------------------
(* The buffer.                                                             *)

(* buffer_write_adv: a buffer takes what it has room for, and holds that   *)
(* much more.                                                              *)
LEMMA WriteAdv ==
  ASSUME NEW b \in Buffers, NEW n \in 1 .. buffer_write_ptr(b)
  PROVE  /\ buffer_write_adv(b, n) \in Buffers
         /\ buffer_read_ptr(buffer_write_adv(b, n)) = buffer_read_ptr(b) + n
         /\ buffer_can_read(buffer_write_adv(b, n))
BY BufSizeAssumption
DEF BufSizeAssumption, Buffers, buffer_write_ptr, buffer_write_adv, buffer_read_ptr, buffer_can_read

(* buffer_read_adv: a buffer gives what it holds, holds that much less,    *)
(* and has room when it holds nothing.                                     *)
LEMMA ReadAdv ==
  ASSUME NEW b \in Buffers, NEW n \in 1 .. buffer_read_ptr(b)
  PROVE  /\ buffer_read_adv(b, n) \in Buffers
         /\ buffer_read_ptr(buffer_read_adv(b, n)) = buffer_read_ptr(b) - n
         /\ buffer_can_read(buffer_read_adv(b, n)) \/ buffer_can_write(buffer_read_adv(b, n))
<1> DEFINE advanced == [b EXCEPT !.read = @ + n]
<1>1. /\ b = [read |-> b.read, write |-> b.write]
      /\ b.read \in 0 .. BufSize /\ b.write \in 0 .. BufSize /\ b.read + n <= b.write
      /\ n \in Nat \ {0}
  BY BufSizeAssumption DEF BufSizeAssumption, Buffers, buffer_read_ptr
<1>2. advanced = [read |-> b.read + n, write |-> b.write]
  BY <1>1
<1>3. CASE b.read + n = b.write
  <2>1. buffer_read_adv(b, n) = [read |-> 0, write |-> 0]
    BY <1>1, <1>2, <1>3 DEF buffer_read_adv, buffer_compact
  <2> QED
    BY <1>1, <1>3, <2>1, BufSizeAssumption
    DEF BufSizeAssumption, Buffers, buffer_read_ptr, buffer_can_write, buffer_write_ptr
<1>4. CASE b.read + n # b.write
  <2>1. buffer_read_adv(b, n) = [read |-> b.read + n, write |-> b.write]
    BY <1>1, <1>2, <1>4 DEF buffer_read_adv
  <2> QED
    BY <1>1, <1>4, <2>1, BufSizeAssumption
    DEF BufSizeAssumption, Buffers, buffer_read_ptr, buffer_can_read
<1> QED
  BY <1>3, <1>4

-----------------------------------------------------------------------------
(* The pair of struct copy.                                                *)

(* A buffer that neither can be read nor can be written would disarm both  *)
(* ends of its direction.                                                  *)
Usable(b) == buffer_can_read(b) \/ buffer_can_write(b)

Mirrored(d) == \A e \in Ends : OP_WRITE \in d[other(e)] <=> OP_READ \in d[e]

(* What the handlers rely on and keep of the pair of copies.               *)
GoodCopy(c) ==
  /\ c \in Copies
  /\ Mirrored(c.duplex)
  /\ \A e \in Ends : Usable(c.buf[e])

(* The other end of the other end is the end itself.                       *)
LEMMA OtherEnd ==
  /\ \A e \in Ends : other(e) \in Ends /\ other(e) # e /\ other(other(e)) = e
  /\ \A e, x \in Ends : x = e \/ x = other(e)
BY DEF Ends, other

(* A buffer of a good pair is replaced by another usable buffer.           *)
LEMMA ReplaceBuffer ==
  ASSUME NEW c, GoodCopy(c), NEW e \in Ends, NEW b \in Buffers, Usable(b)
  PROVE  LET d == [c EXCEPT !.buf = [c.buf EXCEPT ![e] = b]]
         IN  /\ GoodCopy(d)
             /\ d.duplex = c.duplex
             /\ d.buf = [c.buf EXCEPT ![e] = b]
<1> DEFINE d == [c EXCEPT !.buf = [c.buf EXCEPT ![e] = b]]
<1>1. c = [buf |-> c.buf, duplex |-> c.duplex] /\ c.buf \in [Ends -> Buffers]
      /\ c.duplex \in [Ends -> Interests]
  BY DEF GoodCopy, Copies
<1>2. d = [buf |-> [c.buf EXCEPT ![e] = b], duplex |-> c.duplex]
  BY <1>1
<1>3. [c.buf EXCEPT ![e] = b] \in [Ends -> Buffers]
  BY <1>1
<1>4. d \in Copies
  BY <1>1, <1>2, <1>3 DEF Copies
<1>5. \A x \in Ends : Usable(d.buf[x])
  BY <1>1, <1>2 DEF GoodCopy
<1> QED
  BY <1>2, <1>4, <1>5 DEF GoodCopy

(* copy_r with bytes: they are queued for the other end, nothing closes.   *)
LEMMA CopyRBytes ==
  ASSUME NEW c, GoodCopy(c), NEW e \in Ends, NEW n \in 1 .. buffer_write_ptr(c.buf[e])
  PROVE  /\ GoodCopy(copy_r(c, e, n))
         /\ copy_r(c, e, n).duplex = c.duplex
         /\ \A x \in Ends : buffer_read_ptr(copy_r(c, e, n).buf[x]) =
                             buffer_read_ptr(c.buf[x]) + (IF x = e THEN n ELSE 0)
<1> DEFINE b == buffer_write_adv(c.buf[e], n)
<1>1. c.buf \in [Ends -> Buffers]
  BY DEF GoodCopy, Copies
<1>2. c.buf[e] \in Buffers
  BY <1>1
<1>3. b \in Buffers /\ buffer_read_ptr(b) = buffer_read_ptr(c.buf[e]) + n /\ Usable(b)
  BY <1>2, WriteAdv DEF Usable
<1>4. copy_r(c, e, n) = [c EXCEPT !.buf = [c.buf EXCEPT ![e] = b]]
  BY <1>2 DEF copy_r, Buffers, buffer_write_ptr
<1>5. \A x \in Ends : buffer_read_ptr(c.buf[x]) \in Int
  BY <1>1 DEF Buffers, buffer_read_ptr
<1> HIDE DEF b
<1> QED
  BY <1>1, <1>3, <1>4, <1>5, ReplaceBuffer

(* copy_w with bytes: they leave the buffer, nothing closes.               *)
LEMMA CopyWBytes ==
  ASSUME NEW c, GoodCopy(c), NEW e \in Ends, NEW n \in 1 .. buffer_read_ptr(c.buf[other(e)])
  PROVE  /\ GoodCopy(copy_w(c, e, n))
         /\ copy_w(c, e, n).duplex = c.duplex
         /\ \A x \in Ends : buffer_read_ptr(copy_w(c, e, n).buf[x]) =
                             buffer_read_ptr(c.buf[x]) - (IF x = other(e) THEN n ELSE 0)
<1> DEFINE b == buffer_read_adv(c.buf[other(e)], n)
<1>1. c.buf \in [Ends -> Buffers] /\ other(e) \in Ends
  BY OtherEnd DEF GoodCopy, Copies
<1>2. c.buf[other(e)] \in Buffers
  BY <1>1
<1>3. b \in Buffers /\ buffer_read_ptr(b) = buffer_read_ptr(c.buf[other(e)]) - n /\ Usable(b)
  BY <1>2, ReadAdv DEF Usable
<1>4. copy_w(c, e, n) = [c EXCEPT !.buf = [c.buf EXCEPT ![other(e)] = b]]
  BY <1>2 DEF copy_w, Buffers, buffer_read_ptr
<1>5. \A x \in Ends : buffer_read_ptr(c.buf[x]) \in Int
  BY <1>1 DEF Buffers, buffer_read_ptr
<1> HIDE DEF b
<1> QED
  BY <1>1, <1>3, <1>4, <1>5, ReplaceBuffer

(* HalfClose closes one direction, at both its ends, and nothing else.     *)
LEMMA HalfCloseOne ==
  ASSUME NEW c, GoodCopy(c), NEW e \in Ends
  PROVE  /\ GoodCopy(HalfClose(c, e))
         /\ HalfClose(c, e).buf = c.buf
         /\ \A x \in Ends : OP_READ \in HalfClose(c, e).duplex[x] <=>
                             x # e /\ OP_READ \in c.duplex[x]
<1> DEFINE dx == [x \in Ends |-> IF x = e THEN c.duplex[x] \ {OP_READ}
                                          ELSE c.duplex[x] \ {OP_WRITE}]
<1>1. c = [buf |-> c.buf, duplex |-> c.duplex] /\ c.buf \in [Ends -> Buffers]
      /\ c.duplex \in [Ends -> Interests]
  BY DEF GoodCopy, Copies
<1>2. dx \in [Ends -> Interests]
  BY <1>1 DEF Interests
<1>3. Mirrored(dx)
  BY <1>1, OtherEnd DEF GoodCopy, Mirrored, OP_READ, OP_WRITE
<1>4. \A x \in Ends : OP_READ \in dx[x] <=> x # e /\ OP_READ \in c.duplex[x]
  BY <1>1 DEF OP_READ, OP_WRITE
<1>5. HalfClose(c, e) = [c EXCEPT !.duplex = dx]
  BY DEF HalfClose
<1> HIDE DEF dx
<1>6. HalfClose(c, e) = [buf |-> c.buf, duplex |-> dx]
  BY <1>1, <1>5
<1> QED
  BY <1>1, <1>2, <1>3, <1>4, <1>6 DEF GoodCopy, Copies

(* What copy_init leaves, with whatever the client sent behind its request. *)
LEMMA InitialCopy ==
  ASSUME NEW rb \in EarlyBuffers
  PROVE  /\ GoodCopy(copy_init(rb))
         /\ copy_init(rb).buf = [e \in Ends |-> IF e = "client" THEN rb ELSE buffer_init]
         /\ copy_init(rb).duplex = [e \in Ends |-> {OP_READ, OP_WRITE}]
<1> DEFINE k == copy_init(rb)
<1>1. rb \in Buffers /\ Usable(rb) /\ buffer_init \in Buffers /\ Usable(buffer_init)
  BY BufSizeAssumption
  DEF BufSizeAssumption, EarlyBuffers, Buffers, buffer_init, Usable, buffer_can_read, buffer_read_ptr,
      buffer_can_write, buffer_write_ptr
<1>2. /\ k = [buf |-> k.buf, duplex |-> k.duplex]
      /\ k.buf = [e \in Ends |-> IF e = "client" THEN rb ELSE buffer_init]
      /\ k.duplex = [e \in Ends |-> {OP_READ, OP_WRITE}]
  BY DEF copy_init
<1>3. k \in Copies
  BY <1>1, <1>2 DEF Copies, Interests
<1>4. GoodCopy(k)
  BY <1>1, <1>2, <1>3, OtherEnd DEF GoodCopy, Mirrored
<1> QED
  BY <1>2, <1>4
=============================================================================
