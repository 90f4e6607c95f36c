------------------------------- MODULE MCRing -------------------------------
(***************************************************************************)
(* Messages for the instance of the ring buffer.                           *)
(***************************************************************************)
EXTENDS RingBuf

\* Blocks of two bytes, and messages with one, two and three bytes of length, of
\* even and of odd size
Messages == [FIX |-> {<<"d", "e">>, <<"e", "e">>},
             DYN |-> {<<"a">>, <<"a", "b">>, <<"a", "b", "c">>, <<"a", "b", "c", "a">>}]
=============================================================================
