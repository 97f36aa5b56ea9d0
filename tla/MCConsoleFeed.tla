---------------------------- MODULE MCConsoleFeed ----------------------------
(* Constants for model checking ConsoleFeed. *)
EXTENDS ConsoleFeed

CONSTANTS rx, tx

Partial(c, n) == [channel |-> c, segment |-> n, is_final |-> FALSE]
Final(c, n) == [channel |-> c, segment |-> n, is_final |-> TRUE]

\* two utterances on tx, and one on rx that either of them may overtake
FewEvents == {Partial(tx, 1), Final(tx, 1), Final(tx, 2), Final(rx, 1)}

\* every event of two utterances
TxEvents == {Partial(tx, 1), Final(tx, 1), Partial(tx, 2), Final(tx, 2)}
=============================================================================
