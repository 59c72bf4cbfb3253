---------------------------- MODULE SecureSession ----------------------------
(***************************************************************************)
(* What the RSA/AES protocol of the plugin promises, without messages,     *)
(* threads or timers: an AES key is drawn by one contact and obtained from *)
(* it by the other, and a contact opens a session only out of an exchange, *)
(* on the evidence of a key that both contacts know.  cpp_rsam.cpp tells   *)
(* the plugin so with rsa_notify(1).  RsaSession implements this module.   *)
(***************************************************************************)
CONSTANTS Alice, Bob,   \* the two contacts
          Key           \* AES keys

VARIABLES phase,        \* phase[e]: what e has with the other contact
          evidence,     \* evidence[e]: keys of the last test e passed
          known         \* known[e]: AES keys e has had

svars == <<phase, evidence, known>>

Contact == {Alice, Bob}
Other(e) == IF e = Alice THEN Bob ELSE Alice
Shared(e) == known[e] \cap known[Other(e)]

SInit == /\ phase = [e \in Contact |-> "none"]
         /\ evidence = [e \in Contact |-> {}]
         /\ known = [e \in Contact |-> {}]

\* an exchange starts or takes a step; an open session may be renegotiated
Negotiate(e) == /\ phase' = [phase EXCEPT ![e] = "exchange"]
                /\ UNCHANGED <<evidence, known>>

Draw(e) == \E k \in Key \ (known[Alice] \cup known[Bob]) :
    /\ known' = [known EXCEPT ![e] = @ \cup {k}]
    /\ phase' = [phase EXCEPT ![e] = "exchange"]
    /\ UNCHANGED evidence

Obtain(e) == \E k \in known[Other(e)] :
    /\ known' = [known EXCEPT ![e] = @ \cup {k}]
    /\ phase' = [phase EXCEPT ![e] = "exchange"]
    /\ UNCHANGED evidence

PassTest(e) == \E k \in Shared(e) :
    /\ phase[e] = "exchange"
    /\ evidence' = [evidence EXCEPT ![e] = {k}]
    /\ UNCHANGED <<phase, known>>

Open(e) == /\ phase[e] = "exchange"
           /\ evidence[e] # {} /\ evidence[e] \subseteq Shared(e)
           /\ phase' = [phase EXCEPT ![e] = "open"]
           /\ UNCHANGED <<evidence, known>>

End(e) == /\ phase' = [phase EXCEPT ![e] = "none"]
          /\ UNCHANGED <<evidence, known>>

SNext == \E e \in Contact :
    Negotiate(e) \/ Draw(e) \/ Obtain(e) \/ PassTest(e) \/ Open(e) \/ End(e)

SSpec == SInit /\ [][SNext]_svars

=============================================================================
