-------------------------- MODULE MCGroupAnalysis --------------------------
(* A small instance of GroupAnalysis: one actionable group, whose category *)
(* tells causes apart by pattern.                                          *)
EXTENDS GroupAnalysis, TLC

CONSTANTS gs, gr, pa, pb

\* The two patterns are two causes.
MCKeyOf == [p \in Patterns |-> IF p = pa THEN "ka" ELSE "kb"]

MCSymmetry == Permutations(Mails)

\* Two notices about one recipient each, which fail differently.
MCOneGroup == {{<<gs, pa>>}, {<<gs, pb>>}}

=============================================================================
