----------------------------- MODULE MCDelivery -----------------------------
(* Small instances of Delivery for TLC. *)
EXTENDS Delivery, TLC

CONSTANTS e1, e2, b1, b2

\* One e-mail with two attachments.
OneAttached == [e \in Emails |-> Blobs]

\* Two e-mails with one attachment each; the second has no route.
TwoAttached == (e1 :> {b1}) @@ (e2 :> {b2})
=============================================================================
