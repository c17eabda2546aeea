------------------------------ MODULE MCDailyJob ------------------------------
(* Two reminders of a stage, two said item by item (one of both days), a product. *)
EXTENDS DailyJob, TLC

CONSTANTS p1, p2, ann, rent, rent2, month, month2, milk

MCStageOf == [m \in Reminder |-> IF m \in {month, month2} THEN "month_review" ELSE "due_soon"]
MCDaysOf == [m \in Reminder |-> IF m = month THEN {1, 2} ELSE {1}]
MCMayMute == {<<"month_review", ann>>}
===============================================================================
