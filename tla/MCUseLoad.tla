------------------------------ MODULE MCUseLoad ------------------------------
(***************************************************************************)
(* Every way in which four files may use one another: two uses in the file *)
(* that is loaded, one in each of the others.                              *)
(***************************************************************************)
EXTENDS UseLoad

AllGraphs ==
  LET named == File \cup {Unusable}
      few   == {<<>>} \cup {<<f>> : f \in named}
      more  == few \cup {<<f, g>> : f, g \in named}
  IN {g \in [File -> more] : \A f \in File \ {Entry} : g[f] \in few}
==============================================================================
