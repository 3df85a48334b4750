---------------------------- MODULE MCContactList ----------------------------
(* ContactList on small instances. *)
EXTENDS ContactList

CONSTANTS anna, boris, friends, work

\* A group with a buddy the user may remove.
OneGroup == {[id |-> 1, name |-> friends]}

OneBuddy == {[uin |-> anna, group |-> 1, item |-> 1, wait |-> FALSE]}
=============================================================================
