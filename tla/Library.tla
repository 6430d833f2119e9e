------------------------------ MODULE Library ------------------------------
(***************************************************************************)
(* The parts of the library beside the descriptors and the mappings.  They  *)
(* share no state, so a behaviour is one of a single part: part says which, *)
(* and the variables of the others keep their initial values.  The resolver *)
(* is the exception: it runs on the network initialisation.                 *)
(***************************************************************************)
EXTENDS Resolver, Environ, Signals, RandomNumbers, DirStreams, Paths, Inet, PollResults

VARIABLE part

Parts == {"net", "resolver", "environ", "signals", "random", "dirent", "paths", "inet", "poll"}

libVars == <<part, netVars, gaiVars, envVars, sigVars, rndVars, dirVars, pathVars, inetVars, pollVars>>

LibraryInit ==
    /\ part \in Parts
    /\ NetStart /\ GaiStart /\ SigInit /\ RndInit /\ DirInit /\ PathInit /\ InetInit /\ PollInit
    /\ EnvInit
    /\ part # "environ" => environ = <<>>
    /\ part # "resolver" => \A t \in Racers : res[t] = NULL
    /\ part \notin {"net", "resolver"} => ~loaded

LibraryNext ==
    /\ UNCHANGED part
    /\ \/ /\ part = "net" /\ NetNext
          /\ UNCHANGED <<gaiVars, envVars, sigVars, rndVars, dirVars, pathVars, inetVars, pollVars>>
       \/ /\ part = "resolver" /\ GaiNext
          /\ UNCHANGED <<envVars, sigVars, rndVars, dirVars, pathVars, inetVars, pollVars>>
       \/ /\ part = "environ" /\ EnvNext
          /\ UNCHANGED <<netVars, gaiVars, sigVars, rndVars, dirVars, pathVars, inetVars, pollVars>>
       \/ /\ part = "signals" /\ SigNext
          /\ UNCHANGED <<netVars, gaiVars, envVars, rndVars, dirVars, pathVars, inetVars, pollVars>>
       \/ /\ part = "random" /\ RndNext
          /\ UNCHANGED <<netVars, gaiVars, envVars, sigVars, dirVars, pathVars, inetVars, pollVars>>
       \/ /\ part = "dirent" /\ DirNext
          /\ UNCHANGED <<netVars, gaiVars, envVars, sigVars, rndVars, pathVars, inetVars, pollVars>>
       \/ /\ part = "paths" /\ PathNext
          /\ UNCHANGED <<netVars, gaiVars, envVars, sigVars, rndVars, dirVars, inetVars, pollVars>>
       \/ /\ part = "inet" /\ InetNext
          /\ UNCHANGED <<netVars, gaiVars, envVars, sigVars, rndVars, dirVars, pathVars, pollVars>>
       \/ /\ part = "poll" /\ PollNext
          /\ UNCHANGED <<netVars, gaiVars, envVars, sigVars, rndVars, dirVars, pathVars, inetVars>>

LibrarySpec == LibraryInit /\ [][LibraryNext]_libVars

(* The types of the variables of all parts.                                 *)
LibraryTypeOK ==
    /\ part \in Parts
    /\ NetTypeOK /\ GaiTypeOK /\ EnvTypeOK /\ SigTypeOK /\ RndTypeOK /\ DirTypeOK
    /\ PathTypeOK /\ InetTypeOK /\ PollTypeOK

=============================================================================
