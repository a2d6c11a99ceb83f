-------------------------------- MODULE MCAgent --------------------------------
(* Two flows to one pod, one slot in the ring buffer, words of three values. *)
EXTENDS Agent

CONSTANTS f1, f2, ip1

const_Flow == {f1, f2}

const_Dst == [f \in const_Flow |-> ip1]
=============================================================================
