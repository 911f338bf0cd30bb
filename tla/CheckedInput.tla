---------------------------- MODULE CheckedInput ----------------------------
(* The algorithms that keep no state are checked on one input after        *)
(* another: an input is a record whose field "about" names the operation   *)
(* it is for, and the properties say what the operation makes of it.       *)

VARIABLE input

Is(about) == input.about = about
=============================================================================
