----------------------------- MODULE MCMineWork -----------------------------
(* Two values per counter, so that a row ends and the space is exhausted; every *)
(* assignment of three hash values to the four headers; targets on both sides   *)
(* of the range; no limit, limits 0 and 1, one inside and one above the space.  *)
EXTENDS MineWork

MCTargets == {-1, 0, 1, 3}
MCLimits == {NoLimit, 0, 1, 3, 9}
=============================================================================
