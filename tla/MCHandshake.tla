---------------------------- MODULE MCHandshake ------------------------------
(* Small instances of Handshake for TLC. *)
EXTENDS Handshake

CONSTANTS A, B

(* Every comparison of an id of A with one of B comes out both ways.        *)
TwoLinks == [n \in Node |-> IF n = A THEN {1, 4} ELSE {2, 3}]

(* The same, and both ends may draw 1.                                      *)
SharedId == [n \in Node |-> IF n = A THEN {1, 4} ELSE {1, 2}]

(* The first sequence numbers of the two ends, the same or not.             *)
OneSeq == [n \in Node |-> {0}]
TwoSeqs == [n \in Node |-> IF n = A THEN {0} ELSE {0, 1}]
=============================================================================
