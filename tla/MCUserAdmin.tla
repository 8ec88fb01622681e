----------------------------- MODULE MCUserAdmin -----------------------------
(* A small instance of UserAdmin: two admins, or one and an account yet to be
   registered, and two requests. *)
EXTENDS UserAdmin, TLC

CONSTANTS ann, bob, r1, r2, e1, e2

TwoUsers == {ann, bob}
Admin(e) == [role |-> "ADMIN", active |-> TRUE, email |-> e, telegram |-> FALSE]
TwoTables == {(ann :> Admin(e1)) @@ (bob :> Admin(e2)), (ann :> Admin(e1)) @@ (bob :> NoRow)}
===============================================================================
