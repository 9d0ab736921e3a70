---- MODULE MCWorldAgreement ----
(* WorldAgreement.cfg: two sound seats and one that signs two worlds, one  *)
(* reorganisation of the seating block away.  The other two: two sound     *)
(* seats on one chain or two.                                              *)
EXTENDS WorldAgreement

CONSTANTS s1, s2, s3, b1, b2

MCSeats   == {s1, s2, s3}
MCPair    == {s1, s2}
MCBlocks  == {b1, b2}
MCBlock   == {b1}
MCFaulty  == {s3}
MCNobody  == {}
====
