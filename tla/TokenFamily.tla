----------------------------- MODULE TokenFamily -----------------------------
(***************************************************************************)
(* What rotating sessions promise, with no tables, locks or requests in     *)
(* sight.  A login starts a family of tokens.  At any time a family has at  *)
(* most one live token; refreshing trades the live token for a new one,     *)
(* and a family that has lost its live token never gets another.            *)
(***************************************************************************)
CONSTANTS Users, Tokens

VARIABLE family   \* per login, named by its first token: the user, the tokens
                  \* that were live once, and the token that is live (if any)

Fresh(t) == \A f \in DOMAIN family : t \notin family[f].spent \cup family[f].live

Init == DOMAIN family = {}

Login(u, t) ==
  /\ Fresh(t)
  /\ family' = [f \in DOMAIN family \cup {t} |->
                  IF f = t THEN [user |-> u, spent |-> {}, live |-> {t}] ELSE family[f]]

Rotate(f, old, new) ==
  /\ family[f].live = {old}
  /\ Fresh(new)
  /\ family' = [family EXCEPT ![f].spent = @ \cup {old}, ![f].live = {new}]

End(f, old) ==
  /\ family[f].live = {old}
  /\ family' = [family EXCEPT ![f].spent = @ \cup {old}, ![f].live = {}]

Next ==
  \/ \E u \in Users, t \in Tokens : Login(u, t)
  \/ \E f \in DOMAIN family, old \in Tokens :
       \/ End(f, old)
       \/ \E new \in Tokens : Rotate(f, old, new)

Spec == Init /\ [][Next]_family
=============================================================================
