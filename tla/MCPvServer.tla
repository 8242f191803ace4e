----------------------------- MODULE MCPvServer -----------------------------
(* PvServer for TLC: the threads t1, t2, t3 and the sockets s1, s2, s3 *)
(* are interchangeable.                                                *)
EXTENDS PvServer, TLC

CONSTANTS t1, t2, t3, s1, s2, s3, a1, a2

Symmetry == Permutations(Threads) \cup Permutations(Sockets)
=============================================================================
