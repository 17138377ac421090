--------------------------- MODULE MCInputProcess ---------------------------
(***************************************************************************)
(* Instances of InputProcess for TLC: the addresses and the requests.       *)
(***************************************************************************)
EXTENDS InputProcess

(* Two rows of one bank; bankgroup and bank have the same number. *)
TwoRows == {[bg |-> 1, bank |-> 1, row |-> r] : r \in {0, 1}}

(* One address whose bankgroup and bank have different numbers. *)
OtherBank == {[bg |-> 1, bank |-> 0, row |-> 0]}

(* A write has no read class; one value stands for it. *)
AllRequests == {r \in Request : r.cmd = "WR" => r.prio = "LPR"}
NoRmw == {r \in AllRequests : r.cmd # "RMW"}

(* No plain writes: what is searched for is always the request that waits.  The
   read of a read-modify-write is of the class of the credit it took. *)
ReadsAndRmw == {r \in Request : r.cmd = "RD" \/ (r.cmd = "RMW" /\ r.prio = "LPR")}
=============================================================================
