---------------------------- MODULE MCSiteArchive ----------------------------
(* Instances of SiteArchive for TLC: requests are interchangeable, accounts *)
(* are not, a cascade visits them in id order.                              *)
EXTENDS SiteArchive, TLC

Symmetry == Permutations(Request)
=============================================================================
