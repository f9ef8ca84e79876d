--------------------------------- MODULE MCTxn ---------------------------------
(* Two processes on one database file. *)
EXTENDS SqliteTxn

ConnSymmetry == Permutations(Conn)
TwoKeys == <<"x", "y">>
AllOperations == {"impose", "expire", "clear", "active", "initialize", "replace",
                  "initialized", "rows", "consume", "count", "claim"}

(* One key in the place of both, and two permissions of one key. *)
GoodAndTwice == {<<"z">>, <<"x", "x">>}
==============================================================================
