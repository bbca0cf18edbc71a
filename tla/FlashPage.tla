------------------------------- MODULE FlashPage -------------------------------
(* A page of the controller's flash as user_database.c and access_log.c use    *)
(* it: erased as a whole, then programmed in ascending order.  A cell is a run *)
(* of words that is told apart; a cell programmed in part counts as erased.    *)
EXTENDS Naturals, FiniteSets

CONSTANT Erased  \* what a cell reads after an erase: 0xE339 in every half word

ErasedPage(page) == [c \in DOMAIN page |-> Erased]

\* wrong variant: from the last cell to the first
ProgrammedDown(page, buf, c) ==
  LET d == Cardinality(DOMAIN page) + 1 - c IN [page EXCEPT ![d] = buf[d]]

Programmed(page, buf, c) == [page EXCEPT ![c] = buf[c]]

\* Programming that reports an error may have been done all the same.  (An
\* erase that was done and reports an error is an erase after which the first
\* programming fails.)
ProgramFailed(page, buf, c) == {page, Programmed(page, buf, c)}

================================================================================
