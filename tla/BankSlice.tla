----------------------------- MODULE BankSlice -----------------------------
(***************************************************************************)
(* BankSlice: what the controller knows of one bank while commands for it   *)
(* wait.  A slice holds at most one candidate read and one candidate write  *)
(* (the "next to transfer" commands) and derives from them and from the     *)
(* page the next command of either direction.                               *)
(***************************************************************************)
EXTENDS CommandCam

CONSTANTS
  NoBank, Closed,
  RAA_THRESHOLD, RAAIMT, RAAMMT, RAAMULT, RAADEC

ASSUME RaaAssumption ==
  /\ RAA_THRESHOLD \in Nat \ {0} /\ RAAMULT \in Nat \ {0}
  /\ {RAAIMT, RAAMMT, RAADEC} \subseteq Nat

(* age stands for the time since the last ACT: before the end of tRCD, after it,
   and after the end of tRAS_max.  rd and wr are the valid candidates; raa, rfm
   and blocked are act_counter, rfm_req and act_hard_blocked. *)
FreshSlice ==
  [ba |-> NoBank, page |-> Closed, age |-> "open", waiting |-> FALSE,
   rd |-> NoEntry, wr |-> NoEntry, raa |-> 0, rfm |-> FALSE, blocked |-> FALSE]

IsPageOpen(s) == s.page # Closed
IsActiving(s) == s.age = "activing"
IsNeedForcePre(s) == s.age = "overdue"

Allocate(s, b) == [s EXCEPT !.ba = b, !.page = Closed, !.rd = NoEntry, !.wr = NoEntry]

(* The refresh wait and the activation counter stay with the slice. *)
Release(s) == [s EXCEPT !.ba = NoBank, !.page = Closed]

ClearRfmReq(s) == [s EXCEPT !.raa = 0, !.rfm = FALSE, !.blocked = FALSE]

(* A REFab, REFsb, RFMab or RFMsb sent to the bank. *)
Refreshed(s) == [ClearRfmReq(s) EXCEPT !.waiting = FALSE]

DecreaseRaa(s) ==
  LET raa == IF s.raa > RAADEC THEN s.raa - RAADEC ELSE 0
  IN  IF RAADEC = 0 THEN s
      ELSE [s EXCEPT !.raa = raa,
                     !.rfm = @ /\ ~(RAAIMT > 0 /\ raa < RAAIMT),
                     !.blocked = @ /\ ~(RAAMMT > 0 /\ raa < RAAMMT)]

(* Mutant: refresh management is asked for one activation late. *)
Update_late_rfm(s, type, row) ==
  CASE type = "ACT" ->
         [s EXCEPT !.page = row, !.age = "activing", !.raa = @ + RAAMULT,
                   !.rfm = s.raa >= RAA_THRESHOLD]
    [] type \in {"PRE", "RDA", "WRA"} ->
         [s EXCEPT !.page = Closed, !.age = "open",
                   !.rd = IF type = "RDA" THEN NoEntry ELSE @,
                   !.wr = IF type = "WRA" THEN NoEntry ELSE @]
    [] type = "RD" -> [s EXCEPT !.rd = NoEntry]
    [] type = "WR" -> [s EXCEPT !.wr = NoEntry]

(* Update: the command was sent for the entry of the given row. *)
Update(s, type, row) ==
  LET raa == s.raa + RAAMULT
  IN  CASE type = "ACT" ->
             [s EXCEPT !.page = row, !.age = "activing", !.raa = raa,
                       !.rfm = @ \/ (RAAIMT > 0 /\ raa >= RAAIMT) \/ raa >= RAA_THRESHOLD,
                       !.blocked = @ \/ (RAAMMT > 0 /\ raa >= RAAMMT)]
        [] type = "PRE" -> [s EXCEPT !.page = Closed, !.age = "open"]
        [] type = "RD"  -> [s EXCEPT !.rd = NoEntry]
        [] type = "WR"  -> [s EXCEPT !.wr = NoEntry]
        [] type = "RDA" -> [s EXCEPT !.rd = NoEntry, !.page = Closed, !.age = "open"]
        [] type = "WRA" -> [s EXCEPT !.wr = NoEntry, !.page = Closed, !.age = "open"]

(* Mutant: a waiting bank gets no command at all, not even a precharge. *)
NextCommand_waits(s, cam, candidate, access) ==
  CASE candidate = NoEntry \/ s.waiting -> "NOP"
    [] candidate # NoEntry /\ ~s.waiting /\ ~IsPageOpen(s) -> "ACT"
    [] OTHER ->
         IF IsNeedForcePre(s) \/ cam.store[candidate].row # s.page THEN "PRE"
         ELSE IF \E i \in BaOrderList(cam, s.ba) : i # candidate THEN access[1]
         ELSE access[2]

(* Evaluate, for one direction: `access' is <<"RD", "RDA">> or <<"WR", "WRA">>,
   the second for the last command of the bank. *)
NextCommand(s, cam, candidate, access) ==
  CASE candidate = NoEntry -> "NOP"
    [] candidate # NoEntry /\ ~IsPageOpen(s) -> IF s.waiting THEN "NOP" ELSE "ACT"
    [] OTHER ->
         IF s.waiting \/ IsNeedForcePre(s) \/ cam.store[candidate].row # s.page THEN "PRE"
         ELSE IF \E i \in BaOrderList(cam, s.ba) : i # candidate THEN access[1]
         ELSE access[2]

NextRdCommand(s, rd_cam) == NextCommand(s, rd_cam, s.rd, <<"RD", "RDA">>)
NextWrCommand(s, wr_cam) == NextCommand(s, wr_cam, s.wr, <<"WR", "WRA">>)

RowCommands == {"ACT", "PRE"}
ColCommands == {"RD", "RDA", "WR", "WRA"}

(* The commands of the list whose timing lets them go: an open page is neither
   read nor closed before the end of tRCD.  When else they may go depends on
   timing that is not modelled. *)
InTime(s, commands) == {c \in commands : c.type # "NOP" /\ (IsActiving(s) => c.type = "ACT")}

(* Mutant: the row commands of a write are tagged as those of a read. *)
GetAvailCommand_write_as_read(s, rd_cam, wr_cam, current_state) ==
  LET rd == [type |-> NextRdCommand(s, rd_cam), index |-> s.rd, ba |-> s.ba, is_rd |-> TRUE]
      wr == [type |-> NextWrCommand(s, wr_cam), index |-> s.wr, ba |-> s.ba, is_rd |-> FALSE]
  IN  InTime(s,
        CASE current_state = "Rd"    -> {rd}
          [] current_state = "Rd2Wr" ->
               {IF wr.type \in RowCommands THEN [wr EXCEPT !.is_rd = TRUE] ELSE rd}
          [] OTHER -> {wr})

(* GetAvailCommand.  is_rd says in which CAM the index is looked up; the row
   commands of a read in Wr2Rd are tagged as those of a write.  The hard block on
   ACT is not consulted. *)
GetAvailCommand(s, rd_cam, wr_cam, current_state) ==
  LET rd(tag) == [type |-> NextRdCommand(s, rd_cam), index |-> s.rd, ba |-> s.ba, is_rd |-> tag]
      wr == [type |-> NextWrCommand(s, wr_cam), index |-> s.wr, ba |-> s.ba, is_rd |-> FALSE]
      Of(c, types) == IF c.type \in types THEN {c} ELSE {}
  IN  InTime(s,
        CASE current_state = "Rd"    -> {rd(TRUE)}
          [] current_state = "Rd2Wr" -> Of(rd(TRUE), ColCommands) \union Of(wr, RowCommands)
          [] current_state = "Wr"    -> {wr}
          [] current_state = "Wr2Rd" -> Of(rd(FALSE), RowCommands) \union Of(wr, ColCommands))
=============================================================================
