------------------------------ MODULE MCProfile ------------------------------
(* Instances of the user database for TLC.                                 *)
EXTENDS ProfileManager

(* Two signups with the same email.                                        *)
SameEmail ==
  {c \in Call : /\ c.op = "signup" /\ c.cut = {} /\ c.name = NoUser
                /\ c.wellformed}
=============================================================================
