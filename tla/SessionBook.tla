----------------------------- MODULE SessionBook -----------------------------
(***************************************************************************)
(* What the sessions of an account promise: a login opens one, under a     *)
(* number never used before, and one that has ended does not come back.    *)
(***************************************************************************)
EXTENDS Integers

VARIABLES
  live,   \* the sessions a browser can go on with
  given   \* the last number given out

bookVars == <<live, given>>

Init == live = {} /\ given = 0

Open ==
  /\ given' = given + 1
  /\ live' \subseteq live \cup {given'}

End ==
  /\ given' = given
  /\ live' \subseteq live

Next == Open \/ End

Spec == Init /\ [][Next]_bookVars
=============================================================================
