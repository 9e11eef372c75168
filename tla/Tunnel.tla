------------------------------- MODULE Tunnel -------------------------------
(***************************************************************************)
(* What the COPY state promises: two one-way channels. Each channel hands  *)
(* over what it accepted, in order and at most once (a prefix is known by  *)
(* its length), holds at most Capacity bytes, and carries nothing once it  *)
(* has been closed. The tunnel is done when both channels are closed.      *)
(***************************************************************************)
EXTENDS Naturals

CONSTANTS Channels, Capacity

VARIABLES acc,     \* bytes accepted from the sending peer of each channel
          dlv,     \* bytes handed to its receiving peer
          isopen,  \* whether the channel still carries bytes
          done     \* whether the tunnel has been torn down

tunnelVars == <<acc, dlv, isopen, done>>

Init ==
  /\ acc \in [Channels -> 0 .. Capacity]
  /\ dlv = [d \in Channels |-> 0]
  /\ isopen = [d \in Channels |-> TRUE]
  /\ done = FALSE

Accept(d) ==
  /\ isopen[d]
  /\ \E a \in acc[d] + 1 .. dlv[d] + Capacity : acc' = [acc EXCEPT ![d] = a]
  /\ UNCHANGED <<dlv, isopen, done>>

Deliver(d) ==
  /\ isopen[d]
  /\ \E a \in dlv[d] + 1 .. acc[d] : dlv' = [dlv EXCEPT ![d] = a]
  /\ UNCHANGED <<acc, isopen, done>>

Close(d) ==
  /\ isopen[d]
  /\ isopen' = [isopen EXCEPT ![d] = FALSE]
  /\ done' = (\A c \in Channels : ~isopen'[c])
  /\ UNCHANGED <<acc, dlv>>

Next == \E d \in Channels : Accept(d) \/ Deliver(d) \/ Close(d)

Spec == Init /\ [][Next]_tunnelVars
=============================================================================
