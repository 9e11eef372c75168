-------------------------------- MODULE Relay --------------------------------
(***************************************************************************)
(* One connection in the COPY state of socks5nio.c, from the moment        *)
(* request_write sends the last byte of the reply until it is DONE, with   *)
(* its two peers. End e is the socket towards peer e.                      *)
(***************************************************************************)
EXTENDS Copy

CONSTANTS MaxBytes,     \* bound: bytes a peer sends in the COPY state
          EarlyLimit,   \* bound: highest write offset of the early bytes
          CounterMod    \* bytes_transferred is modulo this (2^32)

ASSUME RelayAssumption ==
  /\ MaxBytes \in Nat
  /\ EarlyLimit \in 0 .. BufSize
  /\ CounterMod \in Nat \ {0}

VARIABLES copy,               \* the two struct copy and their buffers
          interest,           \* what the selector watches each socket for
          state,              \* "COPY" or "DONE"
          bytes_transferred,
          avail,              \* bytes in the receive queue of each socket
          fin,                \* peers that have finished sending
          rst,                \* sockets whose connection was reset
          stuffed,            \* history: early bytes had filled read_buffer
          rcvd,               \* bytes recv() has returned from each end
          sent                \* bytes send() has taken for each end

vars == <<copy, interest, state, bytes_transferred, avail, fin, rst, stuffed, rcvd, sent>>

Init ==
  /\ \E rb \in {b \in EarlyBuffers : b.write <= EarlyLimit} :
       /\ copy = copy_init(rb)
       /\ rcvd = [e \in Ends |-> IF e = "client" THEN buffer_read_ptr(rb) ELSE 0]
       /\ stuffed = ~buffer_can_write(rb)
  /\ interest = [e \in Ends |-> {OP_READ}]
  /\ state = "COPY"
  /\ bytes_transferred = 0
  /\ avail = [e \in Ends |-> 0]
  /\ fin = {}
  /\ rst = {}
  /\ sent = [e \in Ends |-> 0]

-----------------------------------------------------------------------------
(* The peers and the network.                                              *)

proxyVars == <<copy, interest, state, bytes_transferred, stuffed, rcvd, sent>>

PeerSend(e) ==
  /\ state = "COPY"
  /\ e \notin fin \cup rst
  /\ avail[e] + rcvd[e] < MaxBytes
  /\ avail' = [avail EXCEPT ![e] = @ + 1]
  /\ UNCHANGED <<fin, rst, proxyVars>>

PeerClose(e) ==
  /\ state = "COPY"
  /\ e \notin fin \cup rst
  /\ fin' = fin \cup {e}
  /\ UNCHANGED <<avail, rst, proxyVars>>

PeerReset(e) ==
  /\ state = "COPY"
  /\ e \notin rst
  /\ rst' = rst \cup {e}
  /\ UNCHANGED <<avail, fin, proxyVars>>

-----------------------------------------------------------------------------
(* The two handlers of the COPY state.                                     *)

(* The results of recv() on end e into a buffer with room for size bytes.  *)
recv(e, size) ==
  {n \in -1 .. size :
     \/ n = -1 /\ e \in rst
     \/ n = 0  /\ (size = 0 \/ (avail[e] = 0 /\ e \in fin))
     \/ n > 0  /\ n <= avail[e]}

(* The results of send() on a writable end e, size bytes being queued.     *)
send(e, size) ==
  {n \in -1 .. size : IF n = -1 THEN e \in rst ELSE n > 0}

(* Mutant: only the end the event came from gets new interests.            *)
FinishOneEnd(c, e) ==
  /\ copy' = c
  /\ interest' = [interest EXCEPT ![e] = copy_compute_interests(c, e)]
  /\ state' = IF copy_done(c, e) THEN "DONE" ELSE "COPY"

(* What both handlers end with: new interests, and DONE when the end they  *)
(* ran for has nothing left open.                                          *)
Finish(c, e) ==
  /\ copy' = c
  /\ interest' = [x \in Ends |-> copy_compute_interests(c, x)]
  /\ state' = IF copy_done(c, e) THEN "DONE" ELSE "COPY"

(* Mutant: the -1 of a failed send() is counted too.                       *)
CountAlways(n) == bytes_transferred' = (bytes_transferred + n) % CounterMod

CountBytes(n) ==
  bytes_transferred' = IF n > 0 THEN (bytes_transferred + n) % CounterMod
                                ELSE bytes_transferred

CopyR(e) ==
  /\ state = "COPY"
  /\ OP_READ \in interest[e]
  /\ avail[e] > 0 \/ e \in fin \cup rst
  /\ \E n \in recv(e, buffer_write_ptr(copy.buf[e])) :
       /\ Finish(copy_r(copy, e, n), e)
       /\ avail' = [avail EXCEPT ![e] = IF n > 0 THEN @ - n ELSE @]
       /\ rcvd' = [rcvd EXCEPT ![e] = IF n > 0 THEN @ + n ELSE @]
  /\ UNCHANGED <<bytes_transferred, fin, rst, stuffed, sent>>

CopyW(e) ==
  /\ state = "COPY"
  /\ OP_WRITE \in interest[e]
  /\ \E n \in send(e, buffer_read_ptr(copy.buf[other(e)])) :
       /\ Finish(copy_w(copy, e, n), e)
       /\ sent' = [sent EXCEPT ![e] = IF n > 0 THEN @ + n ELSE @]
       /\ CountBytes(n)
  /\ UNCHANGED <<avail, fin, rst, stuffed, rcvd>>

(* socksv5_done has closed both sockets.                                   *)
Closed ==
  /\ state = "DONE"
  /\ UNCHANGED vars

Next ==
  \/ \E e \in Ends : \/ PeerSend(e) \/ PeerClose(e) \/ PeerReset(e)
                     \/ CopyR(e) \/ CopyW(e)
  \/ Closed

Spec == Init /\ [][Next]_vars

(* selector_select serves every ready descriptor on each of its rounds.    *)
(* For CopyW it also assumes that the receiving peer goes on reading.      *)
Fairness == \A e \in Ends : WF_vars(CopyR(e)) /\ WF_vars(CopyW(e))

FairSpec == Spec /\ Fairness

-----------------------------------------------------------------------------
(* Properties.                                                             *)

(* Whether bytes still go from end e to the other end.                     *)
Open(e) == OP_READ \in copy.duplex[e]

(* Bytes read from end e and not yet sent to the other one.                *)
Queued(e) == buffer_read_ptr(copy.buf[e])

TypeOK ==
  /\ copy \in Copies
  /\ interest \in [Ends -> Interests]
  /\ state \in {"COPY", "DONE"}
  /\ bytes_transferred \in 0 .. CounterMod - 1
  /\ avail \in [Ends -> Nat]
  /\ fin \in SUBSET Ends
  /\ rst \in SUBSET Ends
  /\ stuffed \in BOOLEAN
  /\ rcvd \in [Ends -> Nat]
  /\ sent \in [Ends -> Nat]

(* No byte is lost, repeated or invented between the two sockets: what was *)
(* received from an end is what was sent to the other one plus what the    *)
(* buffer between them holds (copy_r, copy_w and the buffer's pointers).   *)
Conservation == \A e \in Ends : rcvd[e] = sent[other(e)] + Queued(e)

(* The statistic the monitor reports is the number of bytes sent to both   *)
(* peers, modulo its width (copy_w's bytes_transferred += n).              *)
BytesCounted == bytes_transferred = (sent["client"] + sent["origin"]) % CounterMod

(* While a direction is open the selector watches for something that moves *)
(* it: bytes to read at its source or room to write at its destination. A  *)
(* buffer whose write pointer reached the limit must not disarm both.      *)
NoStall ==
  state = "COPY" => \A e \in Ends :
    Open(e) => OP_READ \in interest[e] \/ OP_WRITE \in interest[other(e)]

(* The two ends agree on what is closed, although each handler only tests  *)
(* its own: the write side of one end closes with the read side of the     *)
(* other, and the connection is DONE exactly when neither direction is     *)
(* left.                                                                   *)
EndsAgree ==
  /\ \A e \in Ends : OP_WRITE \in copy.duplex[other(e)] <=> Open(e)
  /\ state = "DONE" <=> \A e \in Ends : ~Open(e)

(* Why a direction may be closed: its source ended, or one of the two      *)
(* connections broke.                                                      *)
PeersCause(e) == e \in fin \cup rst \/ other(e) \in rst

(* Once the handlers compute the interests, recv() is never called without *)
(* room: a direction is only closed because of a peer. The one exception   *)
(* is the client's direction when early bytes had filled read_buffer:      *)
(* request_write asks for OP_READ all the same, and copy_r takes the 0 of  *)
(* a recv() of no bytes for the end of the stream before any was sent on.  *)
CloseHasCause ==
  \A e \in Ends : ~Open(e) =>
    PeersCause(e) \/ (e = "client" /\ stuffed /\ sent["origin"] = 0)

(* The comment of COPY: OP_READ if there is free space in the read buffer, *)
(* so recv() never has a size of 0 and only a peer closes a direction.     *)
ClosedByPeers == \A e \in Ends : ~Open(e) => PeersCause(e)

SilentOnceClosed ==
  \A e \in Ends : ~Open(e) => ~Open(e)' /\ rcvd'[e] = rcvd[e] /\ sent'[other(e)] = sent[other(e)]

(* A closed direction never reopens, and nothing more is received or sent  *)
(* through it (copy_r and copy_w only ever clear bits of duplex).          *)
ClosedForGood == [][SilentOnceClosed]_vars

(* Bytes that arrive go out, with all that was queued before them, unless  *)
(* the direction closes: copy_r arms the other end for what it has read.   *)
(* (Bytes a client sent behind its request are queued when COPY starts and *)
(* arm nothing, against the comment of COPY: they wait for a next event.)  *)
QueuedGoesOut ==
  \A e \in Ends : (Open(e) /\ avail[e] > 0) ~> (avail[e] + Queued(e) = 0 \/ ~Open(e))

(* The end of a stream, or a broken connection, reaches the other side     *)
(* even if the buffer was full when it happened.                           *)
EndPropagates == \A e \in Ends : (e \in fin \cup rst) ~> ~Open(e)

(* The comment of COPY: DONE when there is nothing left to copy.           *)
NothingLeftToCopy ==
  state = "DONE" /\ rst = {} => \A e \in Ends : Queued(e) = 0

(* Relay implements Tunnel: channel e carries what is read from end e.     *)
Channel == INSTANCE Tunnel WITH
  Channels <- Ends,
  Capacity <- BufSize,
  acc      <- rcvd,
  dlv      <- [e \in Ends |-> sent[other(e)]],
  isopen   <- [e \in Ends |-> Open(e)],
  done     <- state = "DONE"

(* Every step of the copy handlers is a step the tunnel allows.            *)
ImplementsTunnel == Channel!Spec
=============================================================================
