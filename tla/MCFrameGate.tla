----------------------------- MODULE MCFrameGate -----------------------------
EXTENDS FrameGate, TLC

\* Rows, buffer addresses and sizes are interchangeable.
MCSymmetry == Permutations(Row) \cup Permutations(Buffer) \cup Permutations(Size)

=============================================================================
