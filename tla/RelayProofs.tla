----------------------------- MODULE RelayProofs -----------------------------
(***************************************************************************)
(* Proofs about the COPY state, for every buffer size and every number of  *)
(* bytes.                                                                  *)
(***************************************************************************)
EXTENDS Relay, CopyProofs

-----------------------------------------------------------------------------
(* The inductive invariant.                                                *)

(* The interests the handlers leave are for what is open, and for writing  *)
(* only while something is queued.                                         *)
Armed ==
  state = "COPY" => \A e \in Ends :
    /\ interest[e] \subseteq copy.duplex[e]
    /\ OP_WRITE \in interest[e] => buffer_can_read(copy.buf[other(e)])

RelayInv ==
  /\ TypeOK
  /\ GoodCopy(copy)
  /\ Conservation
  /\ EndsAgree
  /\ Armed
  /\ NoStall

(* What the common end of both handlers establishes, whatever happened     *)
(* before.                                                                 *)
LEMMA FinishArms ==
  ASSUME NEW c, GoodCopy(c), NEW e \in Ends, Finish(c, e)
  PROVE  /\ copy' = c
         /\ interest' \in [Ends -> Interests]
         /\ state' \in {"COPY", "DONE"}
         /\ EndsAgree'
         /\ Armed'
         /\ NoStall'
<1>1. copy' = c /\ interest' = [x \in Ends |-> copy_compute_interests(c, x)]
      /\ state' = IF c.duplex[e] = {} THEN "DONE" ELSE "COPY"
  BY DEF Finish, copy_done
<1>2. c.duplex \in [Ends -> Interests] /\ Mirrored(c.duplex)
  BY DEF GoodCopy, Copies
<1>3. \A x \in Ends : /\ copy_compute_interests(c, x) \in Interests
                      /\ copy_compute_interests(c, x) \subseteq c.duplex[x]
                      /\ OP_READ \in copy_compute_interests(c, x) <=>
                           OP_READ \in c.duplex[x] /\ buffer_can_write(c.buf[x])
                      /\ OP_WRITE \in copy_compute_interests(c, x) <=>
                           OP_WRITE \in c.duplex[x] /\ buffer_can_read(c.buf[other(x)])
  BY <1>2 DEF copy_compute_interests, Interests, OP_READ, OP_WRITE
<1>4. interest' \in [Ends -> Interests] /\ state' \in {"COPY", "DONE"}
  BY <1>1, <1>3
<1>5. EndsAgree'
  <2>1. c.duplex[e] = {} <=> OP_READ \notin c.duplex[e] /\ OP_WRITE \notin c.duplex[e]
    BY <1>2 DEF Interests
  <2>2. OP_WRITE \in c.duplex[e] <=> OP_READ \in c.duplex[other(e)]
    BY <1>2, OtherEnd DEF Mirrored
  <2>3. state' = "DONE" <=> \A x \in Ends : OP_READ \notin c.duplex[x]
    BY <1>1, <2>1, <2>2, OtherEnd
  <2> QED
    BY <1>1, <1>2, <2>3 DEF EndsAgree, Mirrored, Open
<1>6. Armed'
  BY <1>1, <1>3 DEF Armed
<1>7. NoStall'
  <2>1. \A x \in Ends : OP_READ \in c.duplex[x] => OP_WRITE \in c.duplex[other(x)]
    BY <1>2 DEF Mirrored
  <2> QED
    BY <1>1, <1>3, <2>1, OtherEnd DEF NoStall, Open, GoodCopy, Usable
<1> QED
  BY <1>1, <1>4, <1>5, <1>6, <1>7

(* The invariant holds when request_write enters COPY.                     *)
LEMMA RelayInit == Init => RelayInv
<1> SUFFICES ASSUME Init PROVE RelayInv
  OBVIOUS
<1> USE BufSizeAssumption, RelayAssumption DEF BufSizeAssumption, RelayAssumption
<1>1. PICK rb \in EarlyBuffers :
        /\ copy = copy_init(rb)
        /\ rcvd = [e \in Ends |-> IF e = "client" THEN buffer_read_ptr(rb) ELSE 0]
        /\ stuffed = ~buffer_can_write(rb)
  BY DEF Init
<1>2. buffer_read_ptr(rb) \in Nat
  BY DEF EarlyBuffers, Buffers, buffer_init, buffer_read_ptr
<1>3. buffer_read_ptr(buffer_init) = 0
  BY DEF buffer_init, buffer_read_ptr
<1>4. /\ copy.buf = [e \in Ends |-> IF e = "client" THEN rb ELSE buffer_init]
      /\ copy.duplex = [e \in Ends |-> {OP_READ, OP_WRITE}]
  BY <1>1, InitialCopy
<1>5. GoodCopy(copy)
  BY <1>1, InitialCopy
<1>6. copy \in Copies
  BY <1>5 DEF GoodCopy
<1>7. TypeOK
  <2>1. stuffed \in BOOLEAN
    BY <1>1
  <2>2. /\ copy \in Copies /\ rcvd \in [Ends -> Nat] /\ interest \in [Ends -> Interests]
        /\ avail \in [Ends -> Nat] /\ sent \in [Ends -> Nat] /\ fin = {} /\ rst = {}
        /\ state = "COPY" /\ bytes_transferred \in 0 .. CounterMod - 1
    BY <1>1, <1>2, <1>6 DEF Init, Interests
  <2> QED
    BY <2>1, <2>2 DEF TypeOK
<1>8. Conservation
  BY <1>1, <1>2, <1>3, <1>4, OtherEnd DEF Conservation, Queued, Init
<1>9. EndsAgree /\ Armed /\ NoStall
  BY <1>4, OtherEnd DEF EndsAgree, Armed, NoStall, Open, Init, OP_READ, OP_WRITE, Ends
<1> QED
  BY <1>5, <1>7, <1>8, <1>9 DEF RelayInv

(* What a step of copy_r does to the pair of copies and to the counts.     *)
LEMMA CopyRStep ==
  ASSUME RelayInv, NEW e \in Ends, CopyR(e)
  PROVE  \E c : /\ GoodCopy(c) /\ Finish(c, e)
               /\ \/ /\ c.duplex = copy.duplex
                     /\ \E n \in 1 .. buffer_write_ptr(copy.buf[e]) :
                          /\ n <= avail[e]
                          /\ \A x \in Ends : buffer_read_ptr(c.buf[x]) =
                                              Queued(x) + (IF x = e THEN n ELSE 0)
                          /\ avail' = [avail EXCEPT ![e] = @ - n]
                          /\ rcvd' = [rcvd EXCEPT ![e] = @ + n]
                  \/ /\ c = HalfClose(copy, e)
                     /\ buffer_write_ptr(copy.buf[e]) = 0 \/ e \in fin \cup rst
                     /\ c.buf = copy.buf
                     /\ UNCHANGED <<avail, rcvd>>
<1> DEFINE size == buffer_write_ptr(copy.buf[e])
<1>1. PICK n \in recv(e, size) :
        /\ Finish(copy_r(copy, e, n), e)
        /\ avail' = [avail EXCEPT ![e] = IF n > 0 THEN @ - n ELSE @]
        /\ rcvd' = [rcvd EXCEPT ![e] = IF n > 0 THEN @ + n ELSE @]
  BY DEF CopyR
<1>2. GoodCopy(copy) /\ avail \in [Ends -> Nat] /\ rcvd \in [Ends -> Nat]
  BY DEF RelayInv, TypeOK
<1>3. size \in Nat
  BY <1>2, BufSizeAssumption
  DEF BufSizeAssumption, GoodCopy, Copies, Buffers, buffer_write_ptr
<1>4. n \in Int /\ n >= -1 /\ n <= size /\ (n > 0 => n <= avail[e])
      /\ (n <= 0 => size = 0 \/ e \in fin \cup rst)
  BY <1>3 DEF recv
<1>5. CASE n > 0
  <2>1. n \in 1 .. size
    BY <1>3, <1>4, <1>5
  <2>2. /\ GoodCopy(copy_r(copy, e, n))
        /\ copy_r(copy, e, n).duplex = copy.duplex
        /\ \A x \in Ends : buffer_read_ptr(copy_r(copy, e, n).buf[x]) =
                            Queued(x) + (IF x = e THEN n ELSE 0)
    BY <1>2, <2>1, CopyRBytes DEF Queued
  <2>3. avail' = [avail EXCEPT ![e] = @ - n] /\ rcvd' = [rcvd EXCEPT ![e] = @ + n]
    BY <1>1, <1>5
  <2> QED
    BY <1>1, <1>4, <1>5, <2>1, <2>2, <2>3
<1>6. CASE n <= 0
  <2>1. copy_r(copy, e, n) = HalfClose(copy, e)
    BY <1>6 DEF copy_r
  <2>2. GoodCopy(HalfClose(copy, e)) /\ HalfClose(copy, e).buf = copy.buf
    BY <1>2, HalfCloseOne
  <2>3. UNCHANGED <<avail, rcvd>>
    BY <1>1, <1>2, <1>4, <1>6
  <2> QED
    BY <1>1, <1>4, <1>6, <2>1, <2>2, <2>3
<1> QED
  BY <1>4, <1>5, <1>6

(* What a step of copy_w does to the pair of copies and to the counts.     *)
LEMMA CopyWStep ==
  ASSUME RelayInv, NEW e \in Ends, CopyW(e)
  PROVE  /\ bytes_transferred' \in 0 .. CounterMod - 1
         /\ \E c : /\ GoodCopy(c) /\ Finish(c, e)
                  /\ \/ /\ c.duplex = copy.duplex
                        /\ \E n \in 1 .. Queued(other(e)) :
                             /\ \A x \in Ends : buffer_read_ptr(c.buf[x]) =
                                                 Queued(x) - (IF x = other(e) THEN n ELSE 0)
                             /\ sent' = [sent EXCEPT ![e] = @ + n]
                     \/ /\ c = HalfClose(copy, other(e))
                        /\ e \in rst
                        /\ c.buf = copy.buf
                        /\ UNCHANGED sent
<1> DEFINE size == buffer_read_ptr(copy.buf[other(e)])
<1>1. PICK n \in send(e, size) :
        /\ Finish(copy_w(copy, e, n), e)
        /\ sent' = [sent EXCEPT ![e] = IF n > 0 THEN @ + n ELSE @]
        /\ CountBytes(n)
  BY DEF CopyW
<1>2. GoodCopy(copy) /\ sent \in [Ends -> Nat] /\ other(e) \in Ends
      /\ bytes_transferred \in 0 .. CounterMod - 1
  BY OtherEnd DEF RelayInv, TypeOK
<1>3. size \in Nat
  BY <1>2, BufSizeAssumption
  DEF BufSizeAssumption, GoodCopy, Copies, Buffers, buffer_read_ptr
<1>4. n \in Int /\ n <= size /\ (n > 0 \/ (n = -1 /\ e \in rst))
  BY <1>3 DEF send
<1>5. bytes_transferred' \in 0 .. CounterMod - 1
  BY <1>1, <1>2, <1>4, RelayAssumption DEF RelayAssumption, CountBytes
<1>6. CASE n > 0
  <2>1. n \in 1 .. size
    BY <1>3, <1>4, <1>6
  <2>2. /\ GoodCopy(copy_w(copy, e, n))
        /\ copy_w(copy, e, n).duplex = copy.duplex
        /\ \A x \in Ends : buffer_read_ptr(copy_w(copy, e, n).buf[x]) =
                            Queued(x) - (IF x = other(e) THEN n ELSE 0)
    BY <1>2, <2>1, CopyWBytes DEF Queued
  <2>3. sent' = [sent EXCEPT ![e] = @ + n]
    BY <1>1, <1>6
  <2>4. n \in 1 .. Queued(other(e))
    BY <2>1 DEF Queued
  <2> QED
    BY <1>1, <1>5, <2>2, <2>3, <2>4
<1>7. CASE n = -1
  <2>1. copy_w(copy, e, n) = HalfClose(copy, other(e))
    BY <1>7 DEF copy_w
  <2>2. GoodCopy(HalfClose(copy, other(e))) /\ HalfClose(copy, other(e)).buf = copy.buf
    BY <1>2, HalfCloseOne
  <2>3. UNCHANGED sent
    BY <1>1, <1>2, <1>7
  <2> QED
    BY <1>1, <1>4, <1>5, <1>7, <2>1, <2>2, <2>3
<1> QED
  BY <1>4, <1>6, <1>7

(* Every step of the specification keeps the invariant.                    *)
LEMMA RelayStep == RelayInv /\ [Next]_vars => RelayInv'
<1> SUFFICES ASSUME RelayInv, [Next]_vars PROVE RelayInv'
  OBVIOUS
<1> USE DEF RelayInv
<1>1. ASSUME NEW e \in Ends, PeerSend(e) PROVE RelayInv'
  BY <1>1 DEF PeerSend, proxyVars, TypeOK, Conservation, Queued, EndsAgree, Open, Armed, NoStall
<1>2. ASSUME NEW e \in Ends, PeerClose(e) PROVE RelayInv'
  BY <1>2 DEF PeerClose, proxyVars, TypeOK, Conservation, Queued, EndsAgree, Open, Armed, NoStall
<1>3. ASSUME NEW e \in Ends, PeerReset(e) PROVE RelayInv'
  BY <1>3 DEF PeerReset, proxyVars, TypeOK, Conservation, Queued, EndsAgree, Open, Armed, NoStall
<1>4. ASSUME NEW e \in Ends, CopyR(e) PROVE RelayInv'
  <2>1. PICK c : /\ GoodCopy(c) /\ Finish(c, e)
                 /\ \/ \E n \in 1 .. buffer_write_ptr(copy.buf[e]) :
                            /\ n <= avail[e]
                            /\ \A x \in Ends : buffer_read_ptr(c.buf[x]) =
                                                Queued(x) + (IF x = e THEN n ELSE 0)
                            /\ avail' = [avail EXCEPT ![e] = @ - n]
                            /\ rcvd' = [rcvd EXCEPT ![e] = @ + n]
                    \/ c.buf = copy.buf /\ UNCHANGED <<avail, rcvd>>
    BY <1>4, CopyRStep
  <2>2. /\ copy' = c /\ interest' \in [Ends -> Interests] /\ state' \in {"COPY", "DONE"}
        /\ EndsAgree' /\ Armed' /\ NoStall'
    BY <2>1, FinishArms
  <2>3. UNCHANGED <<bytes_transferred, fin, rst, stuffed, sent>>
    BY <1>4 DEF CopyR
  <2>4. buffer_write_ptr(copy.buf[e]) \in Int /\ \A x \in Ends : Queued(x) \in Int
    BY BufSizeAssumption
    DEF BufSizeAssumption, GoodCopy, Copies, Buffers, buffer_write_ptr, buffer_read_ptr, Queued
  <2>5. avail' \in [Ends -> Nat] /\ rcvd' \in [Ends -> Nat]
    BY <2>1, <2>4 DEF TypeOK
  <2>6. TypeOK'
    BY <2>1, <2>2, <2>3, <2>5 DEF TypeOK, GoodCopy
  <2>7. Conservation'
    BY <2>1, <2>2, <2>3, <2>4, OtherEnd DEF Conservation, Queued, TypeOK
  <2> QED
    BY <2>1, <2>2, <2>6, <2>7
<1>5. ASSUME NEW e \in Ends, CopyW(e) PROVE RelayInv'
  <2>1. /\ bytes_transferred' \in 0 .. CounterMod - 1
        /\ \E c : /\ GoodCopy(c) /\ Finish(c, e)
                 /\ \/ \E n \in 1 .. Queued(other(e)) :
                            /\ \A x \in Ends : buffer_read_ptr(c.buf[x]) =
                                                Queued(x) - (IF x = other(e) THEN n ELSE 0)
                            /\ sent' = [sent EXCEPT ![e] = @ + n]
                    \/ c.buf = copy.buf /\ UNCHANGED sent
    BY <1>5, CopyWStep
  <2>2. PICK c : /\ GoodCopy(c) /\ Finish(c, e)
                 /\ \/ \E n \in 1 .. Queued(other(e)) :
                            /\ \A x \in Ends : buffer_read_ptr(c.buf[x]) =
                                                Queued(x) - (IF x = other(e) THEN n ELSE 0)
                            /\ sent' = [sent EXCEPT ![e] = @ + n]
                    \/ c.buf = copy.buf /\ UNCHANGED sent
    BY <2>1
  <2>3. /\ copy' = c /\ interest' \in [Ends -> Interests] /\ state' \in {"COPY", "DONE"}
        /\ EndsAgree' /\ Armed' /\ NoStall'
    BY <2>2, FinishArms
  <2>4. UNCHANGED <<avail, fin, rst, stuffed, rcvd>>
    BY <1>5 DEF CopyW
  <2>5. \A x \in Ends : Queued(x) \in Int
    BY BufSizeAssumption
    DEF BufSizeAssumption, GoodCopy, Copies, Buffers, buffer_read_ptr, Queued
  <2>6. TypeOK'
    BY <2>1, <2>2, <2>3, <2>4, <2>5, OtherEnd DEF TypeOK, GoodCopy
  <2>7. Conservation'
    BY <2>2, <2>3, <2>4, <2>5, OtherEnd DEF Conservation, Queued, TypeOK
  <2> QED
    BY <2>2, <2>3, <2>6, <2>7
<1>6. CASE UNCHANGED vars
  BY <1>6 DEF vars, TypeOK, Conservation, Queued, EndsAgree, Open, Armed, NoStall
<1> QED
  BY <1>1, <1>2, <1>3, <1>4, <1>5, <1>6 DEF Next, Closed

(* The copy handlers of every connection keep the invariant.               *)
THEOREM RelayInvariant == Spec => []RelayInv
BY RelayInit, RelayStep, PTL DEF Spec

(* The types, for every buffer size: in particular R <= W <= limit holds   *)
(* in both buffers, as buffer.h draws them.                                *)
THEOREM RelayTypes == Spec => []TypeOK
<1>1. RelayInv => TypeOK
  BY DEF RelayInv
<1> QED
  BY <1>1, RelayInvariant, PTL

(* copy_r and copy_w lose, repeat and invent nothing.                      *)
THEOREM RelayConserves == Spec => []Conservation
<1>1. RelayInv => Conservation
  BY DEF RelayInv
<1> QED
  BY <1>1, RelayInvariant, PTL

(* An open direction always has an armed end, however the buffers wrap.    *)
THEOREM RelayNeverStalls == Spec => []NoStall
<1>1. RelayInv => NoStall
  BY DEF RelayInv
<1> QED
  BY <1>1, RelayInvariant, PTL

(* The two ends agree on what is closed, and DONE means both directions.   *)
THEOREM RelayEndsAgree == Spec => []EndsAgree
<1>1. RelayInv => EndsAgree
  BY DEF RelayInv
<1> QED
  BY <1>1, RelayInvariant, PTL

-----------------------------------------------------------------------------
(* Why a direction closes.                                                 *)

(* Nothing of early bytes that had filled read_buffer has been sent.       *)
StillStuffed == stuffed /\ sent["origin"] = 0

(* recv() is only called with room for a byte, but for the interest that   *)
(* request_write leaves when the early bytes take all of read_buffer.      *)
Roomy ==
  state = "COPY" => \A e \in Ends :
    OP_READ \in interest[e] => buffer_can_write(copy.buf[e]) \/ (e = "client" /\ StillStuffed)

CauseInv == RelayInv /\ Roomy /\ CloseHasCause

(* The common end of the handlers only asks for reads into buffers with    *)
(* room.                                                                   *)
LEMMA FinishRoomy ==
  ASSUME NEW c, NEW e \in Ends, Finish(c, e)
  PROVE  Roomy'
BY DEF Finish, copy_compute_interests, Roomy, OP_READ, OP_WRITE

(* A full buffer is never taken for the end of a stream, but for one that  *)
(* the client had filled ahead of the reply: everything else that closes a *)
(* direction is the end of a stream or a broken connection.                *)
THEOREM RelayCloseHasCause == Spec => []CloseHasCause
<1>1. Init => CauseInv
  <2> SUFFICES ASSUME Init PROVE CauseInv
    OBVIOUS
  <2>1. PICK rb \in EarlyBuffers : copy = copy_init(rb) /\ stuffed = ~buffer_can_write(rb)
    BY DEF Init
  <2>2. buffer_can_write(buffer_init)
    BY BufSizeAssumption DEF BufSizeAssumption, buffer_init, buffer_can_write, buffer_write_ptr
  <2>3. /\ copy.buf = [e \in Ends |-> IF e = "client" THEN rb ELSE buffer_init]
        /\ \A e \in Ends : Open(e)
    BY <2>1 DEF copy_init, Open
  <2>4. Roomy
    <3>1. sent["origin"] = 0
      BY DEF Init, Ends
    <3> QED
      BY <2>1, <2>2, <2>3, <3>1 DEF Roomy, StillStuffed
  <2>5. CloseHasCause
    BY <2>3 DEF CloseHasCause
  <2> QED
    BY <2>4, <2>5, RelayInit DEF CauseInv
<1>2. CauseInv /\ [Next]_vars => CauseInv'
  <2> SUFFICES ASSUME CauseInv, [Next]_vars PROVE Roomy' /\ CloseHasCause'
    BY RelayStep DEF CauseInv
  <2> USE DEF CauseInv
  <2>1. ASSUME NEW e \in Ends, PeerSend(e) \/ PeerClose(e) \/ PeerReset(e)
        PROVE  Roomy' /\ CloseHasCause'
    BY <2>1
    DEF PeerSend, PeerClose, PeerReset, proxyVars, Roomy, StillStuffed, CloseHasCause, PeersCause, Open
  <2>2. ASSUME NEW e \in Ends, CopyR(e) PROVE Roomy' /\ CloseHasCause'
    <3>1. PICK c : /\ Finish(c, e)
                   /\ \/ c.duplex = copy.duplex
                      \/ /\ c = HalfClose(copy, e)
                         /\ buffer_write_ptr(copy.buf[e]) = 0 \/ e \in fin \cup rst
      BY <2>2, CopyRStep
    <3>2. buffer_can_write(copy.buf[e]) \/ (e = "client" /\ StillStuffed)
      BY <2>2 DEF CopyR, Roomy
    <3>3. \A x \in Ends : \/ OP_READ \in c.duplex[x] \/ ~Open(x)
                          \/ x = e /\ (e \in fin \cup rst \/ (e = "client" /\ StillStuffed))
      BY <3>1, <3>2, HalfCloseOne DEF RelayInv, Open, buffer_can_write
    <3>4. copy' = c /\ UNCHANGED <<fin, rst, stuffed, sent>>
      BY <2>2, <3>1 DEF CopyR, Finish
    <3> QED
      BY <3>1, <3>3, <3>4, FinishRoomy DEF CloseHasCause, PeersCause, StillStuffed, Open
  <2>3. ASSUME NEW e \in Ends, CopyW(e) PROVE Roomy' /\ CloseHasCause'
    <3>1. PICK c : /\ Finish(c, e)
                   /\ \/ c.duplex = copy.duplex
                      \/ c = HalfClose(copy, other(e)) /\ e \in rst
      BY <2>3, CopyWStep
    <3>2. \A x \in Ends : OP_READ \in c.duplex[x] \/ ~Open(x) \/ (other(x) = e /\ e \in rst)
      BY <3>1, HalfCloseOne, OtherEnd DEF RelayInv, Open
    <3>3. copy' = c /\ UNCHANGED <<fin, rst, stuffed>>
      BY <2>3, <3>1 DEF CopyW, Finish
    <3>4. ~Open("client") => sent'["origin"] = sent["origin"]
      <4>1. Open(other(e))
        BY <2>3 DEF CopyW, RelayInv, Armed, EndsAgree, Open, other, Ends
      <4>2. e = "origin" => Open("client")
        BY <4>1 DEF other
      <4>3. e = "client" => sent'["origin"] = sent["origin"]
        BY <2>3 DEF CopyW, RelayInv, TypeOK, Ends
      <4> QED
        BY <4>2, <4>3 DEF Ends
    <3> QED
      BY <3>1, <3>2, <3>3, <3>4, FinishRoomy DEF CloseHasCause, PeersCause, Open
  <2>4. CASE UNCHANGED vars
    BY <2>4 DEF vars, Roomy, StillStuffed, CloseHasCause, PeersCause, Open
  <2> QED
    BY <2>1, <2>2, <2>3, <2>4 DEF Next, Closed
<1>3. CauseInv => CloseHasCause
  BY DEF CauseInv
<1> QED
  BY <1>1, <1>2, <1>3, PTL DEF Spec

-----------------------------------------------------------------------------
(* The statistic.                                                          *)

(* Division with remainder, which is unique.                               *)
LEMMA DivMod ==
  ASSUME NEW m \in Nat \ {0}, NEW a \in Nat
  PROVE  /\ a \div m \in Nat /\ a % m \in 0 .. m - 1 /\ a = m * (a \div m) + (a % m)
OBVIOUS

(* Remainders are unique.                                                  *)
LEMMA ModUnique ==
  ASSUME NEW m \in Nat \ {0}, NEW q \in Nat, NEW r \in 0 .. m - 1, NEW k \in Nat, NEW s \in 0 .. m - 1,
         m * q + r = m * k + s
  PROVE  r = s
<1>1. m * (q - k) = s - r
  OBVIOUS
<1> DEFINE d == q - k
<1>2. d \in Int /\ m * d = s - r
  BY <1>1
<1> HIDE DEF d
<1>3. d <= 0
  <2>1. SUFFICES ASSUME d >= 1 PROVE FALSE
    BY <1>2
  <2>2. m * d >= m
    BY <2>1, <1>2
  <2> QED
    BY <2>2, <1>2
<1>4. d >= 0
  <2>1. SUFFICES ASSUME d <= -1 PROVE FALSE
    BY <1>2
  <2>2. m * d <= -m
    BY <2>1, <1>2
  <2> QED
    BY <2>2, <1>2
<1>5. d = 0
  BY <1>2, <1>3, <1>4
<1>6. s - r = 0
  BY <1>2, <1>5
<1> QED
  BY <1>6

(* Reducing a counter at every addition is reducing the sum.               *)
LEMMA ModAdd ==
  ASSUME NEW m \in Nat \ {0}, NEW a \in Nat, NEW b \in Nat
  PROVE  ((a % m) + b) % m = (a + b) % m
<1> DEFINE r == a % m
           q == a \div m
           x == r + b
           s == x % m
           k == x \div m
           u == (a + b) % m
           v == (a + b) \div m
<1>1. q \in Nat /\ r \in 0 .. m - 1 /\ a = m * q + r
  BY DivMod
<1>2. x \in Nat
  BY <1>1
<1>3. k \in Nat /\ s \in 0 .. m - 1 /\ x = m * k + s
  BY <1>2, DivMod
<1>4. v \in Nat /\ u \in 0 .. m - 1 /\ a + b = m * v + u
  <2>1. a + b \in Nat
    OBVIOUS
  <2> QED
    BY <2>1, DivMod
<1>5. x = r + b
  OBVIOUS
<1>7. s = ((a % m) + b) % m
  OBVIOUS
<1> HIDE DEF r, q, s, k, u, v, x
<1>6. q + k \in Nat /\ m * (q + k) + s = m * v + u
  BY <1>1, <1>2, <1>3, <1>4, <1>5
<1>8. s = u
  BY <1>3, <1>4, <1>6, ModUnique
<1> QED
  BY <1>7, <1>8 DEF u

(* bytes_transferred is the number of bytes sent to both peers modulo its  *)
(* width, however often copy_w added to it and whatever send() failed.     *)
THEOREM RelayBytesCounted == Spec => []BytesCounted
<1>1. Init => BytesCounted
  BY RelayAssumption DEF RelayAssumption, Init, BytesCounted, Ends
<1>2. RelayInv /\ BytesCounted /\ [Next]_vars => BytesCounted'
  <2> SUFFICES ASSUME RelayInv, BytesCounted, [Next]_vars PROVE BytesCounted'
    OBVIOUS
  <2>1. CASE UNCHANGED <<bytes_transferred, sent>>
    BY <2>1 DEF BytesCounted
  <2>2. ASSUME NEW e \in Ends, CopyW(e) PROVE BytesCounted'
    <3> DEFINE size == buffer_read_ptr(copy.buf[other(e)])
               total == sent["client"] + sent["origin"]
    <3>1. PICK k \in send(e, size) :
            /\ sent' = [sent EXCEPT ![e] = IF k > 0 THEN @ + k ELSE @]
            /\ CountBytes(k)
      BY <2>2 DEF CopyW
    <3>2. sent \in [Ends -> Nat] /\ total \in Nat /\ CounterMod \in Nat \ {0}
      BY RelayAssumption DEF RelayInv, TypeOK, Ends, RelayAssumption
    <3>3. size \in Nat
      BY BufSizeAssumption, OtherEnd
      DEF BufSizeAssumption, RelayInv, GoodCopy, Copies, Buffers, buffer_read_ptr
    <3>4. k \in Int
      BY <3>3 DEF send
    <3>5. CASE k > 0
      <4>1. sent'["client"] + sent'["origin"] = total + k
        BY <3>1, <3>2, <3>4, <3>5 DEF Ends
      <4>2. bytes_transferred' = ((total % CounterMod) + k) % CounterMod
        BY <3>1, <3>5 DEF CountBytes, BytesCounted
      <4>3. k \in Nat
        BY <3>4, <3>5
      <4> HIDE DEF total
      <4>4. ((total % CounterMod) + k) % CounterMod = (total + k) % CounterMod
        BY <3>2, <4>3, ModAdd
      <4> QED
        BY <4>1, <4>2, <4>4 DEF BytesCounted
    <3>6. CASE ~(k > 0)
      BY <3>1, <3>2, <3>6 DEF CountBytes, BytesCounted
    <3> QED
      BY <3>5, <3>6
  <2> QED
    BY <2>1, <2>2 DEF Next, Closed, vars, PeerSend, PeerClose, PeerReset, proxyVars, CopyR
<1> QED
  BY <1>1, <1>2, RelayInvariant, PTL DEF Spec

-----------------------------------------------------------------------------
(* The refinement.                                                         *)

(* HalfClose closes one channel of the tunnel.                             *)
LEMMA ClosedOne ==
  ASSUME NEW e \in Ends, \A x \in Ends : Open(x)' <=> x # e /\ Open(x)
  PROVE  [x \in Ends |-> Open(x)]' = [[x \in Ends |-> Open(x)] EXCEPT ![e] = FALSE]
<1>1. ~Open(e)' /\ \A x \in Ends : x # e => (Open(x)' <=> Open(x))
  OBVIOUS
<1>2. \A x \in Ends : Open(x)' \in BOOLEAN /\ Open(x) \in BOOLEAN
  BY DEF Open
<1> QED
  BY <1>1, <1>2, Zenon

(* What the tunnel sees of a step of copy_r.                               *)
LEMMA CopyRTunnel ==
  ASSUME RelayInv, RelayInv', NEW e \in Ends, CopyR(e)
  PROVE  Channel!Accept(e) \/ Channel!Close(e)
<1>1. PICK c : /\ GoodCopy(c) /\ Finish(c, e)
               /\ \/ /\ c.duplex = copy.duplex
                     /\ \E n \in 1 .. buffer_write_ptr(copy.buf[e]) :
                          rcvd' = [rcvd EXCEPT ![e] = @ + n]
                  \/ c = HalfClose(copy, e) /\ UNCHANGED rcvd
  BY CopyRStep
<1>2. copy' = c /\ UNCHANGED sent /\ Open(e) /\ state = "COPY"
  BY <1>1 DEF CopyR, Finish, RelayInv, Armed, Open
<1>3. rcvd \in [Ends -> Nat] /\ rcvd' \in [Ends -> Nat] /\ sent \in [Ends -> Nat]
  BY DEF RelayInv, TypeOK
<1>4. CASE c.duplex = copy.duplex /\ \E n \in 1 .. buffer_write_ptr(copy.buf[e]) :
                                       rcvd' = [rcvd EXCEPT ![e] = @ + n]
  <2>1. PICK n \in 1 .. buffer_write_ptr(copy.buf[e]) : rcvd' = [rcvd EXCEPT ![e] = @ + n]
    BY <1>4
  <2>2. n \in Nat \ {0}
    BY <2>1, BufSizeAssumption DEF BufSizeAssumption, RelayInv, GoodCopy, Copies, Buffers, buffer_write_ptr
  <2>3. rcvd'[e] <= sent[other(e)] + BufSize
    <3>1. rcvd'[e] = sent'[other(e)] + buffer_read_ptr(copy'.buf[e])
      BY DEF RelayInv, Conservation, Queued
    <3>2. buffer_read_ptr(copy'.buf[e]) \in 0 .. BufSize
      BY BufSizeAssumption
      DEF BufSizeAssumption, RelayInv, GoodCopy, Copies, Buffers, buffer_read_ptr
    <3> QED
      BY <1>2, <1>3, <3>1, <3>2, OtherEnd, BufSizeAssumption DEF BufSizeAssumption
  <2>4. rcvd[e] + n \in rcvd[e] + 1 .. sent[other(e)] + BufSize
    BY <1>3, <2>1, <2>2, <2>3, OtherEnd, BufSizeAssumption DEF BufSizeAssumption
  <2>5. state' = state
    BY <1>1, <1>2, <1>4 DEF RelayInv, EndsAgree, Open, TypeOK
  <2> QED
    BY <1>2, <1>4, <2>1, <2>4, <2>5 DEF Channel!Accept, Open
<1>5. CASE c = HalfClose(copy, e) /\ UNCHANGED rcvd
  <2>1. \A x \in Ends : Open(x)' <=> x # e /\ Open(x)
    BY <1>2, <1>5, HalfCloseOne DEF RelayInv, Open
  <2>2. [x \in Ends |-> Open(x)]' = [[x \in Ends |-> Open(x)] EXCEPT ![e] = FALSE]
    BY <2>1, ClosedOne
  <2>3. (state = "DONE")' <=> \A x \in Ends : ~Open(x)'
    BY DEF RelayInv, EndsAgree
  <2> QED
    BY <1>2, <1>5, <2>2, <2>3 DEF Channel!Close
<1> QED
  BY <1>1, <1>4, <1>5

(* What the tunnel sees of a step of copy_w.                               *)
LEMMA CopyWTunnel ==
  ASSUME RelayInv, RelayInv', NEW e \in Ends, CopyW(e)
  PROVE  Channel!Deliver(other(e)) \/ Channel!Close(other(e))
<1> DEFINE d == other(e)
<1>1. PICK c : /\ GoodCopy(c) /\ Finish(c, e)
               /\ \/ /\ c.duplex = copy.duplex
                     /\ \E n \in 1 .. Queued(d) : sent' = [sent EXCEPT ![e] = @ + n]
                  \/ c = HalfClose(copy, d) /\ UNCHANGED sent
  BY CopyWStep
<1>2. d \in Ends /\ other(d) = e
  BY OtherEnd
<1>3. copy' = c /\ UNCHANGED rcvd /\ Open(d) /\ state = "COPY"
  BY <1>1, <1>2 DEF CopyW, Finish, RelayInv, Armed, EndsAgree, Open
<1>4. rcvd \in [Ends -> Nat] /\ sent \in [Ends -> Nat] /\ Queued(d) \in Int
  BY <1>2, BufSizeAssumption
  DEF BufSizeAssumption, RelayInv, TypeOK, GoodCopy, Copies, Buffers, buffer_read_ptr, Queued
<1>5. CASE c.duplex = copy.duplex /\ \E n \in 1 .. Queued(d) : sent' = [sent EXCEPT ![e] = @ + n]
  <2>1. PICK n \in 1 .. Queued(d) : sent' = [sent EXCEPT ![e] = @ + n]
    BY <1>5
  <2>2. sent[e] + n \in sent[e] + 1 .. rcvd[d]
    BY <1>2, <1>4, <2>1 DEF RelayInv, Conservation
  <2>3. [x \in Ends |-> sent[other(x)]]' =
          [[x \in Ends |-> sent[other(x)]] EXCEPT ![d] = sent[e] + n]
    BY <1>2, <1>4, <2>1, OtherEnd
  <2>4. state' = state
    BY <1>1, <1>3, <1>5 DEF RelayInv, EndsAgree, Open, TypeOK
  <2> QED
    BY <1>2, <1>3, <1>5, <2>2, <2>3, <2>4 DEF Channel!Deliver, Open
<1>6. CASE c = HalfClose(copy, d) /\ UNCHANGED sent
  <2>1. \A x \in Ends : Open(x)' <=> x # d /\ Open(x)
    BY <1>2, <1>3, <1>6, HalfCloseOne DEF RelayInv, Open
  <2>2. [x \in Ends |-> Open(x)]' = [[x \in Ends |-> Open(x)] EXCEPT ![d] = FALSE]
    BY <1>2, <2>1, ClosedOne
  <2>3. (state = "DONE")' <=> \A x \in Ends : ~Open(x)'
    BY DEF RelayInv, EndsAgree
  <2> QED
    BY <1>2, <1>3, <1>6, <2>2, <2>3 DEF Channel!Close
<1> QED
  BY <1>1, <1>5, <1>6

(* The COPY state implements the tunnel: every step of the peers is        *)
(* invisible to it, every step of a handler accepts, delivers or closes.   *)
THEOREM RelayImplementsTunnel == Spec => ImplementsTunnel
<1>1. Init => Channel!Init
  <2> SUFFICES ASSUME Init PROVE Channel!Init
    OBVIOUS
  <2>1. RelayInv
    BY RelayInit
  <2>2. \A e \in Ends : rcvd[e] \in 0 .. BufSize
    <3>1. \A e \in Ends : rcvd[e] = buffer_read_ptr(copy.buf[e])
      BY <2>1, OtherEnd, BufSizeAssumption
      DEF BufSizeAssumption, RelayInv, Conservation, Queued, Init, GoodCopy, Copies, Buffers,
          buffer_read_ptr
    <3> QED
      BY <2>1, <3>1, BufSizeAssumption
      DEF BufSizeAssumption, RelayInv, GoodCopy, Copies, Buffers, buffer_read_ptr
  <2>3. rcvd \in [Ends -> 0 .. BufSize]
    BY <2>1, <2>2 DEF RelayInv, TypeOK
  <2>4. [e \in Ends |-> sent[other(e)]] = [e \in Ends |-> 0]
    BY OtherEnd DEF Init
  <2>5. [e \in Ends |-> Open(e)] = [e \in Ends |-> TRUE]
    <3>1. \A e \in Ends : Open(e) = TRUE
      BY DEF Init, Open, copy_init
    <3> QED
      BY <3>1, Zenon
  <2>6. (state = "DONE") = FALSE
    BY DEF Init
  <2> QED
    BY <2>3, <2>4, <2>5, <2>6 DEF Channel!Init
<1>2. RelayInv /\ RelayInv' /\ [Next]_vars => [Channel!Next]_(Channel!tunnelVars)
  <2> SUFFICES ASSUME RelayInv, RelayInv', [Next]_vars PROVE [Channel!Next]_(Channel!tunnelVars)
    OBVIOUS
  <2>1. ASSUME NEW e \in Ends, PeerSend(e) \/ PeerClose(e) \/ PeerReset(e)
        PROVE  UNCHANGED Channel!tunnelVars
    BY <2>1 DEF PeerSend, PeerClose, PeerReset, proxyVars, Channel!tunnelVars, Open
  <2>2. ASSUME NEW e \in Ends, CopyR(e) PROVE Channel!Next
    BY <2>2, CopyRTunnel DEF Channel!Next
  <2>3. ASSUME NEW e \in Ends, CopyW(e) PROVE Channel!Next
    BY <2>3, CopyWTunnel, OtherEnd DEF Channel!Next
  <2>4. CASE UNCHANGED vars
    BY <2>4 DEF vars, Channel!tunnelVars, Open
  <2> QED
    BY <2>1, <2>2, <2>3, <2>4 DEF Next, Closed
<1> QED
  BY <1>1, <1>2, RelayInvariant, PTL DEF Spec, ImplementsTunnel, Channel!Spec

(* A direction that was closed stays closed and silent.                    *)
THEOREM RelayClosedForGood == Spec => ClosedForGood
<1>1. RelayInv /\ RelayInv' /\ [Next]_vars => [SilentOnceClosed]_vars
  <2> SUFFICES ASSUME RelayInv, RelayInv', [Next]_vars PROVE [SilentOnceClosed]_vars
    OBVIOUS
  <2>1. ASSUME NEW e \in Ends, PeerSend(e) \/ PeerClose(e) \/ PeerReset(e) PROVE SilentOnceClosed
    BY <2>1 DEF PeerSend, PeerClose, PeerReset, proxyVars, SilentOnceClosed, Open
  <2>2. ASSUME NEW e \in Ends, CopyR(e) PROVE SilentOnceClosed
    <3>1. PICK c : /\ GoodCopy(c) /\ Finish(c, e)
                   /\ \/ /\ c.duplex = copy.duplex
                         /\ \E n \in 1 .. buffer_write_ptr(copy.buf[e]) :
                              rcvd' = [rcvd EXCEPT ![e] = @ + n]
                      \/ c = HalfClose(copy, e) /\ UNCHANGED rcvd
      BY <2>2, CopyRStep
    <3>2. copy' = c /\ UNCHANGED sent /\ Open(e)
      BY <2>2, <3>1 DEF CopyR, Finish, RelayInv, Armed, Open
    <3>3. \A x \in Ends : ~Open(x) => ~Open(x)'
      BY <3>1, <3>2, HalfCloseOne DEF RelayInv, Open
    <3>4. \A x \in Ends : x # e => rcvd'[x] = rcvd[x]
      BY <3>1 DEF RelayInv, TypeOK
    <3> QED
      BY <3>2, <3>3, <3>4 DEF SilentOnceClosed
  <2>3. ASSUME NEW e \in Ends, CopyW(e) PROVE SilentOnceClosed
    <3>1. PICK c : /\ GoodCopy(c) /\ Finish(c, e)
                   /\ \/ /\ c.duplex = copy.duplex
                         /\ \E n \in 1 .. Queued(other(e)) : sent' = [sent EXCEPT ![e] = @ + n]
                      \/ c = HalfClose(copy, other(e)) /\ UNCHANGED sent
      BY <2>3, CopyWStep
    <3>2. copy' = c /\ UNCHANGED rcvd /\ Open(other(e))
      BY <2>3, <3>1, OtherEnd DEF CopyW, Finish, RelayInv, Armed, EndsAgree, Open
    <3>3. \A x \in Ends : ~Open(x) => ~Open(x)'
      BY <3>1, <3>2, HalfCloseOne, OtherEnd DEF RelayInv, Open
    <3>4. \A x \in Ends : x # other(e) => sent'[other(x)] = sent[other(x)]
      BY <3>1, OtherEnd DEF RelayInv, TypeOK
    <3> QED
      BY <3>2, <3>3, <3>4 DEF SilentOnceClosed
  <2>4. CASE UNCHANGED vars
    BY <2>4
  <2> QED
    BY <2>1, <2>2, <2>3, <2>4 DEF Next, Closed
<1> QED
  BY <1>1, RelayInvariant, PTL DEF Spec, ClosedForGood
=============================================================================
