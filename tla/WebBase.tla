------------------------------ MODULE WebBase ------------------------------
(* What the modules of the web app's screens share. *)
EXTENDS Base, Integers, Sequences, FiniteSets, FiniteSetsExt, SequencesExt

Or(value, fallback) == IF value = None THEN fallback ELSE value
=============================================================================
