---------------------------- MODULE MCClientPlay ----------------------------
(* A small play for TLC: every lost, late or repeated request of its few   *)
(* commands is reached.                                                    *)
EXTENDS ClientPlay
=============================================================================
