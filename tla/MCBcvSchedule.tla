----------------------------- MODULE MCBcvSchedule -----------------------------
(* Instances of BcvSchedule for TLC. *)
EXTENDS BcvSchedule

\* GetPrices tries three times, 10 s each, with 3 s of waiting: under a minute.
UnderAMinute == {0, 1}

\* Before the window, and before its last attempt: 16:00 and 18:20.
Afternoon == {960, 1100}

\* Just before the window and inside it: 16:59 and 18:10.
Deployments == {1019, 1090}
Never == {}
================================================================================
