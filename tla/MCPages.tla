------------------------------ MODULE MCPages -------------------------------
\* Small instances of the pages.
EXTENDS Pages, MCPrint
CONSTANTS mesh2, d1, d2, m1, m2, f1, f2
MCProfile == {Default, mesh2}
MCShort == {2}
MCSpool == 1 .. 2
MCDevice == {d1, d2}
MCMacro == {m1, m2}
MCFile == {f1, f2}
MCEstimate == (f1 :> 1 @@ f2 :> 2)
MCLayers == (f1 :> 4 @@ f2 :> 5)
MCTaps == [bedmesh |-> 2, spoolman |-> 2, power |-> 3, macros |-> 3, prompt |-> 2]
MCOther == [controls |-> 2, bedmesh |-> 1, spoolman |-> 2, power |-> 2, macros |-> 2,
            prompt |-> 1, readings |-> 2]
MCInbox == [controls |-> 1, bedmesh |-> 1, prompt |-> 2, readings |-> 1]
=============================================================================
