--------------------------- MODULE MCPsgFilters ----------------------------
EXTENDS PsgFilters

\* Symmetric but for the first tap, which is 0 as in decimate.
MCCoefficients ==
  [j \in Taps |-> CASE j = 0 -> 0 [] j = FIR_SIZE \div 2 -> 3 [] OTHER -> 1]
=============================================================================
