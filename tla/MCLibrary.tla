----------------------------- MODULE MCLibrary -----------------------------
(* The instance of Library that TLC checks.                                 *)
EXTENDS Library, TLC

(* The application's array at the start: none, or strings 1 and 2, which    *)
(* may have the same name.                                                  *)
MCStartArrays == {<<>>, <<1>>, <<1, 2>>, <<2, 1>>}

(* "d:" has two characters, and so on.                                      *)
MCLength ==
    [x \in {"d:", "ux:", "a", "dirs"} |-> CASE x = "d:" -> 2 [] x = "ux:" -> 3 [] x = "a" -> 1 [] x = "dirs" -> 4]

(* Nothing tells the threads, the names and the values of the environment,  *)
(* the hosts and the lists of the resolver apart.                           *)
LibrarySymmetry ==
    Permutations(Racers) \cup Permutations(Names) \cup Permutations(Values)
        \cup Permutations(Hosts) \cup Permutations(Lists)

=============================================================================
