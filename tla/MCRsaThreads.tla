---------------------------- MODULE MCRsaThreads ----------------------------
(***************************************************************************)
(* RsaThreads on small instances: which messages arrive.                   *)
(***************************************************************************)
EXTENDS RsaThreads

\* one of each course of rsa_recv, and both kinds of worker messages
AllKinds == {"10", "21", "22", "50", "60", "70", "F0"}

\* an exchange that asks, and its end
AskingExchange == {"10", "22", "50"}

=============================================================================
