---------------------------- MODULE MCContactView ----------------------------
(* ContactView on small instances. *)
EXTENDS ContactView

ThreeBuddies == <<2, 1, 3>>
OneBuddy     == <<1>>
OneGroup     == <<1>>
AllInOne     == [u \in 1 .. 3 |-> 1]
=============================================================================
