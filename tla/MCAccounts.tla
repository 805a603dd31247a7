---------------------------- MODULE MCAccounts ----------------------------
(* Instances of Accounts for TLC.                                          *)
EXTENDS Accounts

(* A user that set up a terminal is active ("4. Activate user",             *)
(* terminal_service.py:47), where no administrator changes it.              *)
SetUpUserIsActive == user.terminal => user.status = "active"
=============================================================================
