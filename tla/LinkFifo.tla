------------------------------ MODULE LinkFifo ------------------------------
(***************************************************************************)
(* What one CHI channel promises its two ends: every flit an end queues    *)
(* for transmission is taken by the other end exactly once and in order.   *)
(* Credits, clocks and the two buffers a flit waits in are invisible here. *)
(***************************************************************************)
EXTENDS Sequences

CONSTANTS End,      \* the two ends of the channel
          Flit      \* the flits

VARIABLE chan       \* chan[e]: the flits end e has queued and its peer has not taken

Init == chan = [e \in End |-> <<>>]

Queue(e, f) == chan' = [chan EXCEPT ![e] = Append(@, f)]

Take(e) ==
  /\ chan[e] # <<>>
  /\ chan' = [chan EXCEPT ![e] = Tail(@)]

Next == \E e \in End : Take(e) \/ \E f \in Flit : Queue(e, f)

Spec == Init /\ [][Next]_chan
=============================================================================
