---------------------------- MODULE MCRsaSession ----------------------------
(***************************************************************************)
(* RsaSession on small instances.  The key pairs are model values; the     *)
(* bounds are in the .cfg files.                                           *)
(***************************************************************************)
EXTENDS RsaSession, TLC

\* The two contacts play the same part, and so do their states.
Contacts == Permutations({Alice, Bob})

=============================================================================
