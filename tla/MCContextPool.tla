--------------------------- MODULE MCContextPool ---------------------------
(* Small instances of ContextPool. *)
EXTENDS ContextPool, TLC

\* Contacts and threads are alike.
Symmetric == Permutations(Contact) \cup Permutations(Worker)

=============================================================================
