----------------------------- MODULE MCServices -----------------------------
(* An instance of Services: three sessions of two users, three panels, ... *)
EXTENDS Services

CONSTANTS u1, u2, s1, s2, s3, t1, t2, t3

\* The third session is of the second user.
MCUserOf == [s \in {s1, s2, s3} |-> IF s = s3 THEN u2 ELSE u1]

\* One page, more than are read, no repository.
MCSize == [t \in {t1, t2, t3} |->
              CASE t = t1 -> 1 [] t = t2 -> 3 [] OTHER -> 0]

=============================================================================
