---------------------------- MODULE WriteBuffers ----------------------------
(***************************************************************************)
(* What the port promises of the writes it accepts: each has a buffer of    *)
(* its own from the moment it is accepted, goes to the controller once,     *)
(* with all its data, and only then is its buffer given to another write.   *)
(* Queues, responses, credits and clocks are invisible here.  The port      *)
(* implements it (CHIPort!WritesSpec).                                      *)
(***************************************************************************)
EXTENDS Naturals

CONSTANTS
  Dbid,       \* the names of the buffers
  Request,
  NoRequest,
  Need        \* [Request -> Nat \ {0}]: the beats of data a request needs

VARIABLES
  write,      \* [Dbid -> Request \union {NoRequest}]: whose buffer it is
  missing,    \* [Dbid -> Nat]: the beats its write still waits for
  issued      \* the buffers whose write is with the controller

Free(d) == write[d] = NoRequest

Init ==
  /\ write = [d \in Dbid |-> NoRequest]
  /\ missing = [d \in Dbid |-> 0]
  /\ issued = {}

Accept(d, r) ==
  /\ Free(d)
  /\ write' = [write EXCEPT ![d] = r]
  /\ missing' = [missing EXCEPT ![d] = Need[r]]
  /\ UNCHANGED issued

Receive(d) ==
  /\ ~Free(d) /\ missing[d] > 0
  /\ missing' = [missing EXCEPT ![d] = @ - 1]
  /\ UNCHANGED <<write, issued>>

Issue(d) ==
  /\ ~Free(d) /\ missing[d] = 0 /\ d \notin issued
  /\ issued' = issued \union {d}
  /\ UNCHANGED <<write, missing>>

Release(d) ==
  /\ d \in issued
  /\ issued' = issued \ {d}
  /\ write' = [write EXCEPT ![d] = NoRequest]
  /\ UNCHANGED missing

Next ==
  \E d \in Dbid :
    \/ \E r \in Request : Accept(d, r)
    \/ Receive(d) \/ Issue(d) \/ Release(d)

Spec == Init /\ [][Next]_<<write, missing, issued>>
=============================================================================
