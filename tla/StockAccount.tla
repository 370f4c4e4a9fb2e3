---------------------------- MODULE StockAccount ----------------------------
(***************************************************************************)
(* What a branch's stock of one product promises: every change is a        *)
(* movement, written in the book with the balance it leaves, and no        *)
(* movement takes more than there is.                                      *)
(***************************************************************************)
EXTENDS Integers, Sequences

CONSTANTS Opening, References

VARIABLES balance, book

Open == balance = Opening /\ book = <<>>

\* balance' >= 0: a movement that would take more is refused.
Post ==
    /\ balance' \in Nat
    /\ \E ref \in References :
          book' = Append(book, [qty |-> balance' - balance, after |-> balance',
                                ref |-> ref])

Account == Open /\ [][Post]_<<balance, book>>

=============================================================================
