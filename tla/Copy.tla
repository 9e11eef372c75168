-------------------------------- MODULE Copy --------------------------------
(***************************************************************************)
(* The COPY state of socks5nio.c: the pair of `struct copy' of a           *)
(* connection and the functions that move bytes between its two sockets.   *)
(*                                                                         *)
(* c.buf[e] is the buffer filled by reading from end e, so the client's rb *)
(* is buf["client"] (read_buffer) and its wb is buf["origin"]              *)
(* (write_buffer). c.duplex[e] holds the directions end e still has open.  *)
(***************************************************************************)
EXTENDS Buffer

Ends == {"client", "origin"}

other(e) == IF e = "client" THEN "origin" ELSE "client"

OP_READ  == "OP_READ"
OP_WRITE == "OP_WRITE"

Interests == SUBSET {OP_READ, OP_WRITE}

(* What read_buffer may hold when COPY starts: nothing, or bytes the client *)
(* sent behind its request, which took at least one byte of the buffer     *)
(* itself. They may reach the limit.                                       *)
EarlyBuffers == {b \in Buffers : b = buffer_init \/ (0 < b.read /\ b.read < b.write)}

Copies == [buf : [Ends -> Buffers], duplex : [Ends -> Interests]]

(* copy_init leaves both buffers as the handshake left them. The reply to  *)
(* the request is out, so write_buffer is empty; rb is read_buffer, where  *)
(* what the client sent behind its request is still waiting.               *)
copy_init(rb) ==
  [buf    |-> [e \in Ends |-> IF e = "client" THEN rb ELSE buffer_init],
   duplex |-> [e \in Ends |-> {OP_READ, OP_WRITE}]]

(* Mutant: reads are wanted even without room.                             *)
InterestsIgnoreRoom(c, e) ==
  {op \in c.duplex[e] : op = OP_WRITE => buffer_can_read(c.buf[other(e)])}

copy_compute_interests(c, e) ==
  {op \in {OP_READ, OP_WRITE} :
     /\ op \in c.duplex[e]
     /\ op = OP_READ  => buffer_can_write(c.buf[e])
     /\ op = OP_WRITE => buffer_can_read(c.buf[other(e)])}

(* Mutant: only the end the event came from is updated.                    *)
HalfCloseOneEnd(c, e) ==
  [c EXCEPT !.duplex = [c.duplex EXCEPT ![e] = @ \ {OP_READ}]]

(* No more bytes go from end e to the other end: shutdown(SHUT_RD) on one  *)
(* socket and shutdown(SHUT_WR) on the other.                              *)
HalfClose(c, e) ==
  [c EXCEPT !.duplex = [x \in Ends |-> IF x = e THEN c.duplex[x] \ {OP_READ}
                                                ELSE c.duplex[x] \ {OP_WRITE}]]

(* Mutant: only an error ends the stream.                                  *)
CopyRIgnoresEof(c, e, n) ==
  IF n < 0 THEN HalfClose(c, e)
           ELSE [c EXCEPT !.buf = [c.buf EXCEPT ![e] = buffer_write_adv(c.buf[e], n)]]

(* copy_r on end e when recv() returned n.                                 *)
copy_r(c, e, n) ==
  IF n <= 0 THEN HalfClose(c, e)
            ELSE [c EXCEPT !.buf = [c.buf EXCEPT ![e] = buffer_write_adv(c.buf[e], n)]]

(* copy_w on end e when send() returned n.                                 *)
copy_w(c, e, n) ==
  IF n = -1 THEN HalfClose(c, other(e))
            ELSE [c EXCEPT !.buf = [c.buf EXCEPT ![other(e)] = buffer_read_adv(c.buf[other(e)], n)]]

(* Mutant: the connection is DONE as soon as one direction is.             *)
CopyDoneEarly(c, e) == OP_READ \notin c.duplex[e]

(* The test both functions end with: the connection is DONE.               *)
copy_done(c, e) == c.duplex[e] = {}
=============================================================================
