---------------------------- MODULE PollResults ----------------------------
(***************************************************************************)
(* What poll and select answer (select/poll.c, select/select.c).  FdCalls   *)
(* models how they hold descriptors while they wait; this module models the *)
(* arrays and sets they are given, the sockets they register with epoll and *)
(* what they make of the events.  The events epoll reports are chosen.      *)
(***************************************************************************)
EXTENDS Integers, Sequences, FiniteSets, LibcThreads

CONSTANTS
    Sockets,     \* the sockets of the process
    MaxPolled    \* bound on the elements of the array, and on nfds

ASSUME PollAssumption == MaxPolled \in Nat /\ {"none", "file", "other"} \cap Sockets = {}

VARIABLES
    polled,      \* the last poll: array, events of the sockets, revents, result
    selected     \* the last select: sets, events of the sockets, sets, result

pollVars == <<polled, selected>>

(* What a descriptor may be: nothing (not even a handle of FIOS), a regular *)
(* file (in the table or only with FIOS), something else, a socket.         *)
Things == {"none", "file", "other"} \cup Sockets

Events == {"IN", "OUT", "ERR", "HUP"}
Entry == [fd : Things, events : SUBSET {"IN", "OUT"}]
Arrays == UNION {[1 .. n -> Entry] : n \in 1 .. MaxPolled}

PollInit == polled = NULL /\ selected = NULL

PollTypeOK ==
    /\ polled # NULL =>
          /\ polled.array \in Arrays
          /\ polled.revents \in [DOMAIN polled.array -> SUBSET Events]
          /\ polled.res \in -1 .. MaxPolled
    /\ selected # NULL => selected.res \in -1 .. 3 * MaxPolled

-----------------------------------------------------------------------------
(* The indices epoll knows: the first one of each socket, since a socket is *)
(* registered once and the failure of a second time is passed over.         *)
Registered(things, wanted) ==
    {i \in DOMAIN things :
        /\ things[i] \in Sockets /\ wanted[i] # {}
        /\ \A j \in DOMAIN things : j < i /\ things[j] = things[i] => wanted[j] = {}}

(* external: sceNetEpollWait reports what is asked for, errors and hangups. *)
EpollReports(regs, wanted) ==
    {e \in [regs -> SUBSET Events] : \A i \in regs : e[i] \subseteq wanted[i] \cup {"ERR", "HUP"}}

(* Regular files are ready for what is asked.                               *)
FilesReady(array) == {i \in DOMAIN array : array[i].fd = "file" /\ array[i].events # {}}

(* Mutant: the count of the regular files is lost.                          *)
PollResLosesFiles(array, events) == Cardinality({i \in DOMAIN events : events[i] # {}})

(* The events are added to the count of the regular files.                  *)
PollRes(array, events) ==
    Cardinality(FilesReady(array)) + Cardinality({i \in DOMAIN events : events[i] # {}})

PollRevents(array, events) ==
    [i \in DOMAIN array |->
        CASE i \in DOMAIN events -> events[i]
          [] i \in FilesReady(array) -> array[i].events
          [] OTHER -> {}]

(* poll of an array that is not empty.  If epoll fails, revents holds what  *)
(* was found of the regular files.                                          *)
Poll(array) ==
    LET things == [i \in DOMAIN array |-> array[i].fd]
        wanted == [i \in DOMAIN array |-> array[i].events]
    IN  /\ \/ \E events \in EpollReports(Registered(things, wanted), wanted) :
                 polled' = [array |-> array, revents |-> PollRevents(array, events),
                            res |-> PollRes(array, events)]
           \/ polled' = [array |-> array, revents |-> PollRevents(array, <<>>), res |-> -1]
        /\ UNCHANGED selected

-----------------------------------------------------------------------------
(* select: the sets that are not NULL, by the event they are about.         *)
Selectable == {"IN", "OUT", "ERR"}
Fds == 0 .. MaxPolled - 1
FdSets == UNION {[given -> SUBSET Fds] : given \in SUBSET Selectable}

(* The descriptors whose bit the events set in the set about e.             *)
SelectBits(events, e) == {fd \in DOMAIN events : e \in events[fd]}

SelectSets(sets, events) == [e \in DOMAIN sets |-> SelectBits(events, e)]

(* A bit is set in a set that is NULL.                                      *)
SelectFaults(sets, events) == \E e \in Selectable \ DOMAIN sets : SelectBits(events, e) # {}

SelectRes(events) ==
    Cardinality(SelectBits(events, "IN")) + Cardinality(SelectBits(events, "OUT"))
        + Cardinality(SelectBits(events, "ERR"))

(* select with nfds = MaxPolled; things are what the descriptors are.       *)
Select(sets, things) ==
    LET wanted == [fd \in Fds |-> {e \in DOMAIN sets : fd \in sets[e]}]
    IN  /\ \/ \E events \in EpollReports(Registered(things, wanted), wanted) :
                 selected' = [given |-> sets, sets |-> SelectSets(sets, events),
                              faulted |-> SelectFaults(sets, events), res |-> SelectRes(events)]
           \/ selected' = [given |-> sets, sets |-> sets, faulted |-> FALSE, res |-> -1]
        /\ UNCHANGED polled

PollReturns ==
    /\ polled # NULL \/ selected # NULL
    /\ polled' = NULL /\ selected' = NULL

PollNext ==
    \/ /\ polled = NULL /\ selected = NULL
       /\ \/ \E array \in Arrays : Poll(array)
          \/ \E sets \in FdSets, things \in [Fds -> Things] : Select(sets, things)
    \/ PollReturns

PollSpec == PollInit /\ [][PollNext]_pollVars

-----------------------------------------------------------------------------
(* poll returns the number of elements whose revents is not empty, regular  *)
(* files and sockets together, also if a socket is in the array twice       *)
(* (then only its first element reports).  select returns the number of     *)
(* bits in the sets it leaves, and a set about reading or writing only      *)
(* loses bits (the set about errors may gain one, since epoll reports       *)
(* errors that nobody asked for); it writes through a NULL pointer only for *)
(* an error event, so a caller that passes a set for errors is safe.        *)
ReadyCounted ==
    /\ (polled # NULL /\ polled.res # -1) =>
           polled.res = Cardinality({i \in DOMAIN polled.array : polled.revents[i] # {}})
    /\ (selected # NULL /\ selected.faulted) => "ERR" \notin DOMAIN selected.given
    /\ (selected # NULL /\ selected.res # -1 /\ ~selected.faulted) =>
           /\ selected.res = Cardinality({b \in Selectable \X Fds :
                                 b[1] \in DOMAIN selected.sets /\ b[2] \in selected.sets[b[1]]})
           /\ \A e \in (DOMAIN selected.given) \ {"ERR"} : selected.sets[e] \subseteq selected.given[e]

=============================================================================
