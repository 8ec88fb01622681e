--------------------------- MODULE SessionChains ---------------------------
(***************************************************************************)
(* What AuthService promises about refresh tokens, with every request as a *)
(* single step: a sign-in lives on one token at a time, a refresh hands it *)
(* on from one token to the next, and once it has ended it does not come   *)
(* back.  Sessions implements it whatever overlaps, crashes included.      *)
(***************************************************************************)

CONSTANTS Tokens, Users

VARIABLES token,   \* of each token ever issued: the sign-in it descends from, whose it is
          current  \* the tokens that sign-ins live on

vars == <<token, current>>

Init == token = [t \in {} |-> t] /\ current = {}

\* A token that was never issued before becomes known.
Add(t, about) ==
  /\ t \notin DOMAIN token
  /\ token' = [x \in DOMAIN token \cup {t} |-> IF x = t THEN about ELSE token[x]]

SignIn(t, u) ==
  /\ Add(t, [signIn |-> t, owner |-> u])
  /\ current' = current \cup {t}

Rotate(s, t) ==
  /\ s \in current
  /\ Add(t, token[s])
  /\ current' = (current \ {s}) \cup {t}

\* A logout, a rotation that is cut short, or, for all that are not just being rotated,
\* a logoutAll or a block.
End(u) ==
  /\ \E gone \in SUBSET {t \in current : token[t].owner = u} : current' = current \ gone
  /\ UNCHANGED token

Next ==
  \/ \E t \in Tokens, u \in Users : SignIn(t, u)
  \/ \E s \in current, t \in Tokens : Rotate(s, t)
  \/ \E u \in Users : End(u)

Spec == Init /\ [][Next]_vars
=============================================================================
