------------------------- MODULE MCScannerFirewall -------------------------
EXTENDS ScannerFirewall, TLC

\* The threads of the panel are alike.
Symmetry == Permutations(Panel)
=============================================================================
