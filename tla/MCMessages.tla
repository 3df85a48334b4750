----------------------------- MODULE MCMessages -----------------------------
(* Messages on small instances. *)
EXTENDS Messages

Look(utf8, relay, x) == [online |-> TRUE, utf8 |-> utf8, relay |-> relay, x |-> x]

\* A client that reads UTF-8 but is not relayed to, and one that can do all with
\* either x-status.
SomeLooks == {Look(TRUE, FALSE, 2), Look(TRUE, TRUE, 1)}
=============================================================================
