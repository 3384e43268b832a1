------------------------------- MODULE MCAuth -------------------------------
(* Instances of the authentication handler for TLC.                        *)
EXTENDS Authentication, TLC

CONSTANTS a, b, p

Post(op, email) ==
  [op |-> op, email |-> email, name |-> NoUser, cut |-> {}, password |-> p,
   wellformed |-> TRUE]

(* Two users sign up and log in; a line break in a name, and one in an     *)
(* email whose record then has the second user's email in a line of its    *)
(* own; and posted data without the fields that are asked for.             *)
AuthCalls ==
  {Post("signup", a), Post("signup", b), Post("login", a), Post("email_exists", a)}
  \cup {[Post("signup", a) EXCEPT !.cut = {"name"}],
        [Post("signup", a) EXCEPT !.cut = {"email"}, !.name = b]}
  \cup {[Post(op, a) EXCEPT !.wellformed = FALSE] :
          op \in {"signup", "login", "email_exists"}}

(* Once the file was created by one signup while another one ran, nothing  *)
(* but types is claimed of it: these states are not followed further.      *)
Settled == "creation" \notin incidents

Symmetric == Permutations(Threads) \cup Permutations(Browsers)
=============================================================================
