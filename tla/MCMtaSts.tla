------------------------------- MODULE MCMtaSts -------------------------------
(* An instance of MtaSts for TLC.  Time and width are scaled down: the     *)
(* longest max_age does not fit into the integer it is stored in.          *)
EXTENDS MtaSts, TLC

MCNumber == ("3" :> 3) @@ ("18" :> 18)

MCServer == ("MX" :> "mx") @@ ("*.net" :> ".net")

MCTexts == {"STSv1", "enforce", "none", "3", "18", "MX", "*.net", "{x}"}

(* Per key the values it tells apart, for some one it does not accept.     *)
MCLines ==
  {Malformed}
    \cup {[key |-> "version", val |-> v] : v \in {"STSv1", "3"}}
    \cup {[key |-> "mode", val |-> v] : v \in {"enforce", "none"}}
    \cup {[key |-> "max_age", val |-> v] : v \in {"3", "18"}}
    \cup {[key |-> "mx", val |-> v] : v \in {"MX", "*.net", "3"}}
    \cup {[key |-> "x", val |-> "{x}"]}
=============================================================================
