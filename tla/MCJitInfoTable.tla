--------------------------- MODULE MCJitInfoTable ---------------------------
(***************************************************************************)
(* Instances of JitInfoTable for TLC.                                      *)
(***************************************************************************)
EXTENDS JitInfoTable

\* One range that stays, and three that come and go, one of them in the
\* memory of the two others: full chunks are mostly tombstones.
ReusedRegion == {<<0, 1>>, <<1, 2>>, <<2, 3>>, <<1, 3>>}
ReusedInitial == {<<0, 1>>}
ReusedDynamic == ReusedRegion \ ReusedInitial
ReusedAddress == {1}

\* Ranges that fill the table from the middle, one of which comes and goes:
\* full chunks without tombstones are split.
DenseRegion == {<<0, 1>>, <<1, 2>>, <<2, 3>>, <<3, 4>>, <<4, 5>>, <<5, 6>>, <<6, 7>>}
DenseInitial == {<<0, 1>>, <<3, 4>>, <<4, 5>>, <<6, 7>>}
DenseDynamic == {<<2, 3>>}
DenseAddress == {2, 6}
=============================================================================
