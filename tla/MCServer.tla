------------------------------ MODULE MCServer ------------------------------
EXTENDS Server, TLC

SlotSymmetry == Permutations(Slots)

\* SYMMETRY is not sound with liveness.  The nodes are alike: the behaviours
\* in which the first Worker is built on a given one stand for those in which
\* it is built on another, which differ in the names of the nodes.
FirstNode == CHOOSE s \in Slots : TRUE
FirstNodeGiven == this[1] = NoNode => this'[1] \in {NoNode, FirstNode}
=============================================================================
