---------------------------- MODULE MCRangeListGen ----------------------------
(* Every generator over files of at most seven bytes.                        *)
EXTENDS RangeListGen

MCBlockSizes == {-1, 0, 1, 2, 3, 5, 9}

===============================================================================
