---------------------------- MODULE MCLogStream ----------------------------
(***************************************************************************)
(* A finite instance of LogStream: a client, two line texts, a queue of    *)
(* two items and a buffer of two lines, so that both overflow within a     *)
(* run.  Streams do not influence each other.                              *)
(***************************************************************************)
EXTENDS LogStream

CONSTANTS client, same, other

OneClient == {client}
LineTexts == {same, other}
=============================================================================
