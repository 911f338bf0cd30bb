--------------------------- MODULE MCFieldServer ---------------------------
(* TLC instances of FieldServer.  There are at least as many Bluetooth     *)
(* consumers as operations on the directory, so that a CREATE event always *)
(* finds an object that was not used before.                               *)
EXTENDS FieldServer

Two == {"debug", "blue1", "blue2"}
Three == Two \union {"blue3"}
Four == Three \union {"blue4"}
Blue == Consumers \ {Debug}

(* Sound where every path has the prefix and none is present at the start. *)
PathSymmetry == Permutations(Paths)
=============================================================================
