------------------------------ MODULE MCPacker ------------------------------
\* Packer for TLC: every text of at most MaxLength characters, cut anywhere, with
\* any pieces blank.
EXTENDS Packer, FiniteSets
CONSTANT MaxLength

Starts(cuts) == SelectSeq([i \in 1..(MaxLength + 1) |-> i - 1],
                          LAMBDA at : at = 0 \/ at \in cuts)

MCTexts ==
  UNION {{[count |-> Cardinality(cuts), start |-> Starts(cuts), blank |-> b] :
             b \in SUBSET (1..Cardinality(cuts))} : cuts \in SUBSET (1..MaxLength)}
=============================================================================
