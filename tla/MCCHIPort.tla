----------------------------- MODULE MCCHIPort -----------------------------
(* Small instances of the CHI port for TLC. *)
EXTENDS CHIPort

Req(op, qos, size, be_full, ordered) ==
  [op |-> op, qos |-> qos, size |-> size, be_full |-> be_full, src |-> 0, ordered |-> ordered]

HprRead == Req("READ_NO_SNP", 15, 6, TRUE, TRUE)
LprRead == Req("READ_NO_SNP", 8, 6, TRUE, FALSE)
GprRead == Req("READ_NO_SNP_SEP", 0, 6, TRUE, FALSE)
TpwWrite == Req("WRITE_NO_SNP_FULL", 0, 6, TRUE, FALSE)
GpwWrite == Req("WRITE_NO_SNP_FULL", 15, 6, TRUE, FALSE)
RmwWrite == Req("WRITE_NO_SNP_PTL", 0, 5, FALSE, FALSE)
Prefetch == Req("PREFETCH_TGT", 0, 6, TRUE, FALSE)
Unsupported == Req("UNSUPPORTED", 0, 6, TRUE, FALSE)

(* Everything the retry protocol meets, with what the port drops or rejects. *)
RetryKinds == {HprRead, LprRead, TpwWrite, RmwWrite, Prefetch, Unsupported}
(* Reads of both queues and writes of both classes. *)
ServeKinds == {HprRead, GprRead, TpwWrite, GpwWrite}
OneCreditEach == [q \in Queue |-> 1]
=============================================================================
