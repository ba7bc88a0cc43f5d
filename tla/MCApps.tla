------------------------------- MODULE MCApps --------------------------------
\* This application and another one, with a package of the other one.
EXTENDS AppsSystem, TLC
CONSTANTS a1, a2, p1
MCContains == p1 :> a1
=============================================================================
