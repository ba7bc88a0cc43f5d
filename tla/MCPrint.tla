------------------------------ MODULE MCPrint -------------------------------
\* Two files: one at the top, one in a directory.
EXTENDS PrintSystem
MCName == {"a", "b", "d"}
MCPath == {<<"a">>, <<"d", "b">>}
=============================================================================
