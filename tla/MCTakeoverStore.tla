--------------------------- MODULE MCTakeoverStore ---------------------------
(* The store on three users, two e-mails, two grants and a short clock.     *)
EXTENDS TakeoverStore, TLC

\* Users, e-mails and grants are interchangeable: no definition names one.
Symmetry == Permutations(User) \cup Permutations(Email) \cup Permutations(Grant)

=============================================================================
