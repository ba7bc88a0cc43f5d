---------------------------- MODULE AsyncRequest ----------------------------
(***************************************************************************)
(* What a panel expects of its background requests: one at a time, every   *)
(* one is answered, and the answer it is given is that of the request it   *)
(* made last, once.                                                        *)
(***************************************************************************)
EXTENDS Naturals

VARIABLES asked,      \* number of the last request made
          delivered   \* number of the last request whose answer was handled

vars == <<asked, delivered>>

Init == asked = 0 /\ delivered = 0

Ask ==
  /\ asked = delivered
  /\ asked' = asked + 1
  /\ UNCHANGED delivered

Deliver ==
  /\ delivered # asked
  /\ delivered' = asked
  /\ UNCHANGED asked

Next == Ask \/ Deliver

Spec == Init /\ [][Next]_vars

FairSpec == Spec /\ WF_vars(Deliver)
=============================================================================
