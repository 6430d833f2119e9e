------------------------------- MODULE EnvMap -------------------------------
(***************************************************************************)
(* What the functions of env/ promise: a value for some of the names, which *)
(* setenv and putenv replace one at a time and unsetenv and clearenv drop.  *)
(* A call that fails changes nothing.                                       *)
(***************************************************************************)
CONSTANTS
    Names,
    Values,
    NULL         \* getenv's answer for a name that is not set

VARIABLE env

Init == env \in [Names -> Values \cup {NULL}]

Set(n, v) == env' = [env EXCEPT ![n] = v]

Unset(n) == env' = [env EXCEPT ![n] = NULL]

Clear == env' = [n \in Names |-> NULL]

Next ==
    \/ \E n \in Names : Unset(n) \/ \E v \in Values : Set(n, v)
    \/ Clear

Spec == Init /\ [][Next]_env

=============================================================================
