------------------------------ MODULE CHILink ------------------------------
(***************************************************************************)
(* One channel (REQ, RSP or DAT) of the CHI link between the traffic       *)
(* generator and the CHI port, and the link credits that pace it.          *)
(*                                                                         *)
(* The two ends account for credits differently.  The port (CHILink)       *)
(* counts the credits it has handed out and that are still unused, and     *)
(* issues one more while those and its receive queue fit its credit        *)
(* limit.  The generator (CHIChannelState) keeps the credits it may still  *)
(* issue and gets one back when a flit ARRIVES, not when it is consumed.   *)
(*                                                                         *)
(* Both ends run on the NoC clock: they transmit on its falling edge and   *)
(* consume on its rising edge.  SystemC fixes no order between processes   *)
(* woken by the same edge, so the order is left open.                      *)
(***************************************************************************)
EXTENDS Naturals, Integers, Sequences

CONSTANTS
  Flit,             \* the flits
  MaxLinkCredits,   \* CHI_MAX_LINK_CREDITS
  MaxTx             \* bound on a transmit queue (the code's deque has none)

End == {"gen", "port"}

ASSUME LinkAssumption ==
  /\ MaxLinkCredits \in 1..127        \* rx_credits_available is an int8_t
  /\ MaxTx \in Nat

VARIABLES
  tx_queue, rx_queue,        \* [End -> Seq(Flit)]
  tx_credits_available,      \* [End -> uint8_t]: credits the peer has issued to us
  rx_credits_available,      \* [End -> int8_t]: the limit (port) or what is left to issue (gen)
  rx_credit_sent_upstream,   \* uint8_t, port only: credits issued and not used yet
  edge,                      \* the clock edge being processed: "neg" or "pos"
  ran,                       \* the ends whose process has run on this edge
  inactive_error             \* a flit arrived on a channel that is not active

vars == <<tx_queue, rx_queue, tx_credits_available, rx_credits_available,
          rx_credit_sent_upstream, edge, ran, inactive_error>>

Peer(e) == IF e = "gen" THEN "port" ELSE "gen"

(* The channel is enabled for reception at end e. *)
Active(e) == rx_credits_available[e] >= 0

(* The ends that the two constructors enable, for REQ, RSP and DAT. *)
ChannelReceivers == {{"port"}, {"gen"}, {"gen", "port"}}

(* uint8_t arithmetic *)
Inc8(x) == (x + 1) % 256
Dec8(x) == (x + 255) % 256

Init ==
  /\ tx_queue = [e \in End |-> <<>>]
  /\ rx_queue = [e \in End |-> <<>>]
  /\ tx_credits_available = [e \in End |-> 0]
  /\ \E receivers \in ChannelReceivers :
       rx_credits_available = [e \in End |-> IF e \in receivers THEN MaxLinkCredits ELSE -1]
  /\ rx_credit_sent_upstream = 0
  /\ edge = "neg"
  /\ ran = {}
  /\ inactive_error = FALSE

(* The process of end e has run; the clock moves on once both have. *)
Ran(e) ==
  /\ e \notin ran
  /\ ran' = IF ran \union {e} = End THEN {} ELSE ran \union {e}
  /\ edge' = IF ran \union {e} # End THEN edge
             ELSE IF edge = "neg" THEN "pos" ELSE "neg"

-----------------------------------------------------------------------------
(* Mutant: the credits in flight are counted, the flits that wait are not. *)
IssuesCreditQueueForgotten(e) ==
  IF e = "port" THEN rx_credit_sent_upstream < rx_credits_available["port"]
                ELSE rx_credits_available["gen"] > 0

(* Mutant: a disabled channel (-1) is taken for one with credits. *)
IssuesCreditDisabled(e) ==
  IF e = "port"
  THEN rx_credit_sent_upstream + Len(rx_queue["port"]) < rx_credits_available["port"]
  ELSE rx_credits_available["gen"] # 0

(* The first test of send_flits: is a credit issued to the peer? *)
IssuesCredit(e) ==
  IF e = "port"
  THEN rx_credit_sent_upstream + Len(rx_queue["port"]) < rx_credits_available["port"]
  ELSE rx_credits_available["gen"] > 0

(* The second test of send_flits: is a flit sent?  The credit just issued is
   the peer's, so it does not count here. *)
SendsFlit(e) == tx_queue[e] # <<>> /\ tx_credits_available[e] > 0

(* Mutant: the port does not take a received flit off its credits in flight. *)
SentUpstreamAfterFlitKept == rx_credit_sent_upstream

(* The port's count of credits in flight once a flit has used one. *)
SentUpstreamAfterFlit == Dec8(rx_credit_sent_upstream)

(* send_flits of end e, with the peer's receive_flit for the credit and for
   the flit it sends. *)
send_flits(e) ==
  LET p        == Peer(e)
      credit   == IssuesCredit(e)
      flit     == SendsFlit(e)
      accepted == flit /\ Active(p)
  IN
  /\ edge = "neg"
  /\ Ran(e)
  /\ tx_credits_available' =
       [tx_credits_available EXCEPT ![e] = IF flit THEN Dec8(@) ELSE @,
                                    ![p] = IF credit THEN Inc8(@) ELSE @]
  /\ tx_queue' = [tx_queue EXCEPT ![e] = IF flit THEN Tail(@) ELSE @]
  /\ rx_queue' = [rx_queue EXCEPT ![p] = IF accepted THEN Append(@, Head(tx_queue[e])) ELSE @]
  /\ rx_credits_available' =
       [rx_credits_available EXCEPT !["gen"] = IF e = "gen"
                                               THEN IF credit THEN @ - 1 ELSE @
                                               ELSE IF accepted THEN @ + 1 ELSE @]
  /\ rx_credit_sent_upstream' =
       IF e = "port"
       THEN IF credit THEN Inc8(rx_credit_sent_upstream) ELSE rx_credit_sent_upstream
       ELSE IF accepted THEN SentUpstreamAfterFlit ELSE rx_credit_sent_upstream
  /\ inactive_error' = (inactive_error \/ (flit /\ ~accepted))

-----------------------------------------------------------------------------
(* A process of end e queues a flit on the rising edge: add_payload and
   handle_dbid_resp in the generator, resp_arbit_s1 and rdat_arbit_s1 in the
   port. *)
QueueFlit(e, f) ==
  /\ edge = "pos"
  /\ e \notin ran
  /\ Len(tx_queue[e]) < MaxTx
  /\ tx_queue' = [tx_queue EXCEPT ![e] = Append(@, f)]
  /\ UNCHANGED <<rx_queue, tx_credits_available, rx_credits_available,
                 rx_credit_sent_upstream, edge, ran, inactive_error>>

(* Mutant: the newest flit is taken. *)
PopRxNewest(e) == rx_queue' = [rx_queue EXCEPT ![e] = SubSeq(@, 1, Len(@) - 1)]

PopRx(e) == rx_queue' = [rx_queue EXCEPT ![e] = Tail(@)]

(* Mutant: the credit is given back once more when the flit is consumed. *)
GenPosedgeReturnsCredit ==
  /\ edge = "pos"
  /\ Ran("gen")
  /\ IF rx_queue["gen"] # <<>>
     THEN PopRx("gen") /\ rx_credits_available' = [rx_credits_available EXCEPT !["gen"] = @ + 1]
     ELSE UNCHANGED <<rx_queue, rx_credits_available>>
  /\ UNCHANGED <<tx_queue, tx_credits_available, rx_credit_sent_upstream, inactive_error>>

(* Mutant: the generator consumes only when it has nothing to transmit. *)
GenPosedgeElse ==
  /\ edge = "pos"
  /\ Ran("gen")
  /\ IF rx_queue["gen"] # <<>> /\ tx_queue["gen"] = <<>> THEN PopRx("gen") ELSE UNCHANGED rx_queue
  /\ UNCHANGED <<tx_queue, tx_credits_available, rx_credits_available,
                 rx_credit_sent_upstream, inactive_error>>

(* The generator takes a waiting flit on every rising edge. *)
GenPosedge ==
  /\ edge = "pos"
  /\ Ran("gen")
  /\ IF rx_queue["gen"] # <<>> THEN PopRx("gen") ELSE UNCHANGED rx_queue
  /\ UNCHANGED <<tx_queue, tx_credits_available, rx_credits_available,
                 rx_credit_sent_upstream, inactive_error>>

(* The port takes one (req_decode_s1, wdat_decode_s1) ... *)
PortTakes ==
  /\ edge = "pos"
  /\ Ran("port")
  /\ rx_queue["port"] # <<>>
  /\ PopRx("port")
  /\ UNCHANGED <<tx_queue, tx_credits_available, rx_credits_available,
                 rx_credit_sent_upstream, inactive_error>>

(* ... or not: the DFI clock has no edge in this NoC cycle, nothing waits, or
   the RetryAck queue is full. *)
PortIdles ==
  /\ edge = "pos"
  /\ Ran("port")
  /\ UNCHANGED <<tx_queue, rx_queue, tx_credits_available, rx_credits_available,
                 rx_credit_sent_upstream, inactive_error>>

Next ==
  \/ \E e \in End : send_flits(e) \/ \E f \in Flit : QueueFlit(e, f)
  \/ GenPosedge
  \/ PortTakes
  \/ PortIdles

(* The SystemC kernel never stops the clock, and the port is not stalled for
   ever: it takes a flit again and again as long as there is one. *)
Fairness ==
  /\ \A e \in End : WF_vars(send_flits(e))
  /\ WF_vars(GenPosedge)
  /\ WF_vars(PortTakes \/ PortIdles)
  /\ SF_vars(PortTakes)

Spec == Init /\ [][Next]_vars
FairSpec == Spec /\ Fairness

-----------------------------------------------------------------------------
TypeOK ==
  /\ tx_queue \in [End -> Seq(Flit)]
  /\ rx_queue \in [End -> Seq(Flit)]
  /\ tx_credits_available \in [End -> 0..255]
  /\ rx_credits_available \in [End -> -1..MaxLinkCredits]
  /\ rx_credit_sent_upstream \in 0..255
  /\ edge \in {"neg", "pos"}
  /\ ran \in {{}, {"gen"}, {"port"}}
  /\ inactive_error \in BOOLEAN

(* Credits towards the port are conserved: what the generator may still use is
   exactly what the port believes it has handed out, and together with the
   port's receive queue it never exceeds the limit.  rx_credit_sent_upstream
   is decremented on every received flit with no test, so this is what keeps
   the uint8_t from wrapping. *)
PortCredits ==
  /\ tx_credits_available["gen"] = rx_credit_sent_upstream
  /\ Active("port") =>
       rx_credit_sent_upstream + Len(rx_queue["port"]) <= MaxLinkCredits

(* Credits towards the generator are conserved: those the port holds and those
   the generator can still issue add up to the limit. *)
GenCredits ==
  Active("gen") =>
    tx_credits_available["port"] + rx_credits_available["gen"] = MaxLinkCredits

(* The generator gives a credit back before it has consumed the flit, so its
   credits do not bound its receive queue; the clock does: one flit in per
   falling edge, one out per rising edge. *)
GenQueueBounded == Len(rx_queue["gen"]) <= 1

(* No flit reaches an end whose side of the channel is disabled, although
   nothing stops a process from queueing one: without credits it is never
   sent.  The SC_REPORT_ERROR of nb_transport_fw and nb_transport_bw is
   unreachable. *)
NoInactiveFlit == ~inactive_error

(* The inductive strengthening.  A disabled end has issued nothing, the port's
   limit never moves, and the generator's receive queue is empty from the
   moment it has run on a rising edge until the port runs on the next falling
   one. *)
DisabledSilent ==
  /\ ~Active("gen") => tx_credits_available["port"] = 0
  /\ ~Active("port") => tx_credits_available["gen"] = 0

PortLimit == rx_credits_available["port"] \in {-1, MaxLinkCredits}

GenDrained ==
  /\ edge = "neg" /\ "port" \notin ran => rx_queue["gen"] = <<>>
  /\ edge = "pos" /\ "gen" \in ran => rx_queue["gen"] = <<>>

LinkInv == /\ TypeOK /\ PortCredits /\ GenCredits /\ GenQueueBounded
           /\ NoInactiveFlit /\ DisabledSilent /\ PortLimit /\ GenDrained

(* The channel is the ordered, loss-free one of LinkFifo. *)
Fifo == INSTANCE LinkFifo
          WITH chan <- [e \in End |-> rx_queue[Peer(e)] \o tx_queue[e]]

FifoSpec == Fifo!Spec

(* The credit loop never runs dry: an end with something to send that holds no
   credit gets one. *)
CreditReturns ==
  \A e \in End : (Active(Peer(e)) /\ tx_queue[e] # <<>> /\ tx_credits_available[e] = 0)
                   ~> tx_credits_available[e] > 0
=============================================================================
