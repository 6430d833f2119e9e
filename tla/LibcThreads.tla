---- MODULE LibcThreads ----
(* The threads of the process that calls the library, and the C null        *)
(* pointer: what the modules of the library share.                          *)

CONSTANTS
    Threads,
    Racers,      \* the threads that call signal, random and getaddrinfo
    NULL

ASSUME RacersAreThreads == Racers \subseteq Threads

====
