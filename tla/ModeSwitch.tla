----------------------------- MODULE ModeSwitch -----------------------------
(***************************************************************************)
(* ModeSwitch: whether the controller sends commands for reads or for       *)
(* writes.  `st' is the direction; on the way to the other one the states   *)
(* Rd2Wr and Wr2Rd still send the column commands of the old direction and  *)
(* already open and close pages for the new one.                            *)
(***************************************************************************)
EXTENDS Naturals

CONSTANTS
  MODE_SWITCH_POLICY,    \* TRUE: one of the two conditions suffices to switch
  OPP_HIT_CNT,           \* page hits on the other side that justify a switch
  Max_RW_BEFORE_SWITCH

ASSUME ModeAssumption ==
  MODE_SWITCH_POLICY \in BOOLEAN /\ OPP_HIT_CNT \in Nat /\ Max_RW_BEFORE_SWITCH \in Nat

(* rd_cnt and wr_cnt are rd_cmd_cnt_before_switch and wr_cmd_cnt_before_switch.
   The code never resets them; above Max_RW_BEFORE_SWITCH all values act alike. *)
ModeInit == [st |-> "RD", current_state |-> "Rd",
             select_rd_access |-> TRUE, select_wr_access |-> FALSE,
             rd_cnt |-> 0, wr_cnt |-> 0]

Mode == [st : {"RD", "WR"}, current_state : {"Rd", "Rd2Wr", "Wr", "Wr2Rd", "Invalid"},
         select_rd_access : BOOLEAN, select_wr_access : BOOLEAN,
         rd_cnt : 0 .. Max_RW_BEFORE_SWITCH, wr_cnt : 0 .. Max_RW_BEFORE_SWITCH]

Count(n) == IF n < Max_RW_BEFORE_SWITCH THEN n + 1 ELSE n
RdCmdSend(m) == [m EXCEPT !.rd_cnt = Count(@)]
WrCmdSend(m) == [m EXCEPT !.wr_cnt = Count(@)]

(* What UpdateGlobalState finds on one side: does its CAM hold a command that
   could be sent (has), is the CAM marked expired, does a command hold up the pipe
   buffer (flush), is a class starving (critical; these two only with has), how
   many candidates of the bank slices hit the open page, and do all of them. *)
Side == [has : BOOLEAN, cam_expired : BOOLEAN, flush : BOOLEAN, critical : BOOLEAN,
         hits : Nat, all_hit : BOOLEAN]

Expired(side) == side.cam_expired /\ side.has

Switch2WrPending(m, rd, wr) ==
  /\ m.st = "RD" /\ ~Expired(rd)
  /\ \/ Expired(wr)
     \/ /\ ~rd.flush
        /\ wr.flush \/ (~rd.critical /\ (wr.critical \/ (~rd.has /\ wr.has)))

Switch2RdPending(m, rd, wr) ==
  /\ m.st = "WR"
  /\ \/ Expired(rd)
     \/ /\ ~Expired(wr)
        /\ rd.flush \/ (~wr.flush /\ (rd.critical \/ (~wr.critical /\ ~wr.has /\ rd.has)))

OppositeOk(side) == (OPP_HIT_CNT > 0 /\ side.hits >= OPP_HIT_CNT) \/ side.all_hit
CurrentOk(own, count, other) ==
  own.hits = 0 \/ count >= Max_RW_BEFORE_SWITCH \/ (other.cam_expired /\ ~own.cam_expired)

RealSwitch(pending, own, count, other) ==
  /\ pending
  /\ IF MODE_SWITCH_POLICY
       THEN CurrentOk(own, count, other) \/ OppositeOk(other)
       ELSE CurrentOk(own, count, other) /\ (own.hits = 0 \/ OppositeOk(other))

(* Page commands for the other side may go before the column commands. *)
SwitchAccess(pending, own, count, other) ==
  pending /\ (MODE_SWITCH_POLICY \/ CurrentOk(own, count, other))

(* current_state follows from whether the side left, when `real', is left for
   good, and from which side's page commands are selected. *)
Leave(real, select_other, select_own, other, between, own) ==
  CASE real /\ select_other -> other
    [] ~real /\ select_other -> between
    [] ~select_other /\ select_own -> own
    [] OTHER -> "Invalid"

(* Mutant: the page commands of the writes stay selected. *)
UpdateGlobalState_both_selected(m, rd, wr) ==
  LET pending2wr == Switch2WrPending(m, rd, wr)
      real2wr == RealSwitch(pending2wr, rd, m.rd_cnt, wr)
  IN  [m EXCEPT !.st = IF real2wr THEN "WR" ELSE @, !.select_wr_access = @ \/ pending2wr,
                !.current_state = IF real2wr THEN "Wr" ELSE IF pending2wr THEN "Rd2Wr" ELSE @]

UpdateGlobalState(m, rd, wr) ==
  LET pending2wr == Switch2WrPending(m, rd, wr)
      pending2rd == Switch2RdPending(m, rd, wr)
      real2wr == RealSwitch(pending2wr, rd, m.rd_cnt, wr)
      real2rd == RealSwitch(pending2rd, wr, m.wr_cnt, rd)
      access2wr == SwitchAccess(pending2wr, rd, m.rd_cnt, wr)
      access2rd == SwitchAccess(pending2rd, wr, m.wr_cnt, rd)
      select_wr == ~access2rd /\ (m.st = "WR" \/ access2wr)
      select_rd == ~access2wr /\ (m.st = "RD" \/ access2rd)
  IN  [m EXCEPT
        !.st = IF real2wr THEN "WR" ELSE IF real2rd THEN "RD" ELSE @,
        !.select_wr_access = select_wr,
        !.select_rd_access = select_rd,
        !.current_state =
          IF @ \in {"Rd", "Rd2Wr"}
            THEN Leave(real2wr, select_wr, select_rd, "Wr", "Rd2Wr", "Rd")
            ELSE Leave(real2rd, select_rd, select_wr, "Rd", "Wr2Rd", "Wr")]

(* The direction, the state and the selected page commands agree: the state is
   never the one UpdateGlobalState calls fatal, and page commands are sent for
   one side at a time. *)
ModeConsistent(m) ==
  /\ m.st = "RD" <=> m.current_state \in {"Rd", "Rd2Wr"}
  /\ m.st = "WR" <=> m.current_state \in {"Wr", "Wr2Rd"}
  /\ m.select_rd_access <=> m.current_state \in {"Rd", "Wr2Rd"}
  /\ m.select_wr_access <=> m.current_state \in {"Wr", "Rd2Wr"}
=============================================================================
