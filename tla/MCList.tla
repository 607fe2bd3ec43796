-------------------------------- MODULE MCList --------------------------------
(* Keys on both sides of the 0 that Append and Prepend use. *)
EXTENDS List
MCKeys == {-1, 0, 1}
===============================================================================
