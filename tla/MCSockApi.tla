----------------------------- MODULE MCSockApi -----------------------------
EXTENDS SockApi, TLC

ObjectSymmetry == Permutations(Objects)
=============================================================================
