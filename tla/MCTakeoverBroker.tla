-------------------------- MODULE MCTakeoverBroker --------------------------
(* The broker on one user: sessions share neither lock, browser nor viewer. *)
EXTENDS TakeoverBroker, TLC

\* Requests, e-mails and grants are interchangeable: no definition names one.
Symmetry == Permutations(Task) \cup Permutations(Email) \cup Permutations(Grant)

\* The run of failing writes looks for nothing behind a browser that died: how the
\* viewer and the requests fare then is the question of the other runs.
BrowserLives == \A u \in User : browser[u] # "dead"

=============================================================================
