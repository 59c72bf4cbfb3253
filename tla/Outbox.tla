------------------------------- MODULE Outbox -------------------------------
(***************************************************************************)
(* What the queue of unsent messages promises the user: a message typed is *)
(* in one place, goes out once, and is lost only to a session that ends.   *)
(* ExchangeQueue implements this module.                                   *)
(***************************************************************************)
EXTENDS Naturals

CONSTANTS Msg,      \* the messages the user types
          MayLose   \* may a session end under a message?

VARIABLES pending,  \* typed, and not yet gone
          out,      \* gone out to the other contact
          lost      \* given up without a word

bvars == <<pending, out, lost>>

OInit == pending = {} /\ out = {} /\ lost = {}

Submit(m) ==
    /\ m \notin pending \cup out \cup lost
    /\ \/ pending' = pending \cup {m} /\ out' = out
       \/ pending' = pending /\ out' = out \cup {m}
    /\ lost' = lost

Deliver(m) ==
    /\ m \in pending
    /\ pending' = pending \ {m}
    /\ out' = out \cup {m}
    /\ lost' = lost

Lose(m) ==
    /\ MayLose
    /\ m \in pending
    /\ pending' = pending \ {m}
    /\ lost' = lost \cup {m}
    /\ out' = out

ONext == \E m \in Msg : Submit(m) \/ Deliver(m) \/ Lose(m)

OSpec == OInit /\ [][ONext]_bvars

=============================================================================
