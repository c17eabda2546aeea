------------------------------- MODULE Base -------------------------------
(* What the modules of the server and of the web app share. *)

CONSTANT None       \* null: no payer, bucket, category, answer
===========================================================================
