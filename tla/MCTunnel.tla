------------------------------ MODULE MCTunnel ------------------------------
(* Small instances of Tunnel for TLC.                                      *)
EXTENDS Matchmaking, TLC

CONSTANTS s1, s2, p1, p2, c1, full, cut

\* The two sessions follow one another on one public port, or use two ports, of
\* which the second's digits are the beginning of the first's.
OnePort  == [s \in Sessions |-> full]
TwoPorts == [s \in Sessions |-> IF s = s1 THEN full ELSE cut]

\* A CALLBACK line arrives whole, or may be seen in part.
WholeLine == [port \in Ports |-> {port}]
CutLines  == [port \in Ports |-> {port, cut}]

PublicSymmetry == Permutations(Publics)
OnePortSymmetry == PublicSymmetry \cup Permutations(Sessions)
=============================================================================
