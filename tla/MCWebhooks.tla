------------------------------ MODULE MCWebhooks ------------------------------
(***************************************************************************)
(* Instances of WebhookDelivery: event e1 is of type t1, e2 of type t2 and *)
(* e3, a t1 too, lacks its identity    .                                    *)
(***************************************************************************)
EXTENDS WebhookDelivery, TLC

CONSTANTS e1, e2, e3, t1, t2

MCTypeOf == [e \in Events |-> IF e = e2 THEN t2 ELSE t1]

Symmetry == Permutations(Subs) \cup Permutations(Dispatchers)
=============================================================================
