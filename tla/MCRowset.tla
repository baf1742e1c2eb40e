------------------------------ MODULE MCRowset ------------------------------
(***************************************************************************)
(* Small instances of Rowset.                                              *)
(***************************************************************************)
EXTENDS Rowset

At(v, l) == [value |-> v, length |-> l]

\* Two columns have places of their own, or share them; the row size is 4, the offset 20.
Rows4 == {At(1, 2), At(3, 4)}

\* One column, with null pointers.
Nulls == {At(1, 2), At(1, 0), At(0, 2)}

\* The second row of the first column is NULL.
Second == {<<2, 1>>}
=============================================================================
