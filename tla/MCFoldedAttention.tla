-------------------------- MODULE MCFoldedAttention --------------------------
EXTENDS FoldedAttention

MCValues == {-2, 3}
=============================================================================
