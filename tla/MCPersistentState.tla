--------------------------- MODULE MCPersistentState ---------------------------
(* Instances of PersistentState for TLC.                                   *)
EXTENDS PersistentState

\* A plain name and one with a colon: "a" / "b:x" and "a:b" / "x" are the same
\* counter, "a" / "x" is its own.
SomeTenants == {<<"a">>, <<"a", "b">>}
SomeAssets == {<<"x">>, <<"b", "x">>}
=============================================================================
