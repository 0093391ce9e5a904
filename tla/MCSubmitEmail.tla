---------------------------- MODULE MCSubmitEmail ----------------------------
(* Instances of SubmitEmail for TLC: two requests that retry one key. *)
EXTENDS SubmitEmail, TLC

CONSTANTS r1, r2, b1, b2, b3, k

OneKey == r1 :> k @@ r2 :> k

TwoUploads == r1 :> {b1, b2} @@ r2 :> {b3}
=============================================================================
