------------------------------- MODULE Loops -------------------------------
(***************************************************************************)
(* The loops of the lists.  A pass of a loop is a function of what the     *)
(* loop works on, which returns it unchanged once the loop has ended, so   *)
(* that it does not matter how many passes are taken from there on.        *)
(***************************************************************************)
EXTENDS Naturals

\* What is left after n passes from start on.
Repeat(pass, start, n) ==
    LET after[i \in Nat] == IF i = 0 THEN start ELSE pass[after[i - 1]]
    IN  after[n]
=============================================================================
