---------------------------- MODULE MCFetchLoop -----------------------------
EXTENDS FetchLoop, TLC

(* One window that wraps around midnight and one that does not; each leaves  *)
(* one hour of the three.                                                    *)
Windows == {<<2, 1>>, <<0, 2>>}
=============================================================================
