------------------------------ MODULE Resolver ------------------------------
(***************************************************************************)
(* getaddrinfo and freeaddrinfo of network/, and gethostbyname, through     *)
(* which they start and use SceNet: composed with NetInit, whose NetClient  *)
(* step is here the resolver's work.  gethostbyname answers in a static     *)
(* buffer that all threads share.                                           *)
(* Nodes that are names have an address of their own; external are malloc,  *)
(* strdup and SceNet's resolver, each of which may fail.  A caller keeps    *)
(* one result pointer, uninitialised at first or set to NULL, and frees the *)
(* list it got before it calls again.                                       *)
(***************************************************************************)
EXTENDS NetInit

CONSTANTS
    Hosts,       \* nodes that are names
    Lists        \* addresses of struct addrinfo, used again after free

ASSUME ResolverAssumption == NULL \notin Hosts \cup Lists \cup {"numeric"}

VARIABLES
    saddr,       \* the static buffer of gethostbyname: the host whose address it holds
    gai,         \* where a call of getaddrinfo is
    asked,       \* the node it was asked for: a host, or "numeric"
    res,         \* *res of the caller: a list, NULL, or "junk" (uninitialised)
    lists,       \* the allocated lists, with the address in each
    wild,        \* was something freed that was no allocated list? (ghost)
    careless,    \* did a caller ask for a name with *res not NULL? (ghost)
    disturbed    \* the threads whose answer another thread overwrote (ghost)

gaiVars == <<saddr, gai, asked, res, lists, wild, careless, disturbed>>

netRest == <<net_initialized, net_memory, allocated, loaded, net, ctl, outcome>>

GaiStart ==
    /\ saddr = NULL
    /\ gai = [t \in Racers |-> "idle"]
    /\ asked = [t \in Racers |-> NULL]
    /\ res \in [Racers -> {NULL, "junk"}]
    /\ lists = [l \in Lists |-> NULL]
    /\ wild = FALSE /\ careless = FALSE /\ disturbed = {}

GaiTypeOK ==
    /\ saddr \in Hosts \cup {NULL}
    /\ gai \in [Racers -> {"idle", "host", "copy", "canon", "ok"}]
    /\ asked \in [Racers -> Hosts \cup {"numeric", NULL}]
    /\ res \in [Racers -> Lists \cup {NULL, "junk"}]
    /\ lists \in [Lists -> Hosts \cup {"numeric", NULL}]
    /\ wild \in BOOLEAN /\ careless \in BOOLEAN
    /\ disturbed \subseteq Racers

Allocated == {l \in Lists : lists[l] # NULL}

GaiGoto(t, l) == gai' = [gai EXCEPT ![t] = l]

(* A call that fails: the caller has no list.                               *)
GaiFails(t) == GaiGoto(t, "idle")

(* malloc_ai: one list of one element, since both gethostbyname and         *)
(* inet_aton give one address.                                              *)
malloc_ai(t, addr) ==
    \E l \in Lists \ Allocated :
        /\ lists' = [lists EXCEPT ![l] = addr]
        /\ res' = [res EXCEPT ![t] = l]

(* freeaddrinfo(p).                                                         *)
freeaddrinfo(p) ==
    /\ lists' = [l \in Lists |-> IF l = p THEN NULL ELSE lists[l]]
    /\ wild' = (wild \/ p \notin Allocated)

-----------------------------------------------------------------------------
(* No node, or a numeric one: inet_aton needs no network.                   *)
GaiNumeric(t) ==
    /\ gai[t] = "idle"
    /\ asked' = [asked EXCEPT ![t] = "numeric"]
    /\ \/ malloc_ai(t, "numeric") /\ GaiGoto(t, "ok")
       \/ res' = [res EXCEPT ![t] = NULL] /\ GaiFails(t) /\ UNCHANGED lists
    /\ disturbed' = disturbed \ {t}
    /\ UNCHANGED <<saddr, wild, careless, netVars>>

(* A name: gethostbyname begins with _net_init.                             *)
GaiHost(t, h) ==
    /\ gai[t] = "idle" /\ net_pc[t] = "idle"
    /\ asked' = [asked EXCEPT ![t] = h]
    /\ careless' = (careless \/ res[t] # NULL)
    /\ disturbed' = disturbed \ {t}
    /\ GaiGoto(t, "host")
    /\ UNCHANGED <<saddr, res, lists, wild, netVars>>

NetStep(t) == gai[t] = "host" /\ net_init(t) /\ UNCHANGED gaiVars

(* The resolver writes to the buffer of whoever is about to read it.        *)
gethostbyname(t) ==
    /\ gai[t] = "host" /\ net_pc[t] = "client"
    /\ net # "down"
    /\ saddr' = asked[t]
    /\ disturbed' = disturbed \cup {u \in Racers \ {t} : gai[u] = "copy"}
    /\ NetGoto(t, "idle") /\ GaiGoto(t, "copy")
    /\ UNCHANGED <<asked, res, lists, wild, careless, netRest>>

(* Mutant: the result of the resolver is not tested.                        *)
gethostbynameUntested(t) ==
    /\ gai[t] = "host" /\ net_pc[t] = "client"
    /\ NetGoto(t, "idle") /\ GaiGoto(t, "copy")
    /\ UNCHANGED <<saddr, asked, res, lists, wild, careless, disturbed, netRest>>

(* Without SceNet sceNetResolverCreate fails, and with it resolving can.    *)
gethostbynameFails(t) ==
    /\ gai[t] = "host" /\ net_pc[t] = "client"
    /\ NetGoto(t, "idle") /\ GaiFails(t)
    /\ UNCHANGED <<saddr, asked, res, lists, wild, careless, disturbed, netRest>>

(* The address is read from the buffer now, and AI_CANONNAME may be asked   *)
(* for.                                                                     *)
GaiCopy(t) ==
    /\ gai[t] = "copy"
    /\ malloc_ai(t, saddr)
    /\ \E l \in {"canon", "ok"} : GaiGoto(t, l)
    /\ UNCHANGED <<saddr, asked, wild, careless, disturbed, netVars>>

(* *res is freed unless it is NULL.  No element was stored in it yet: it is *)
(* what the caller left there.                                              *)
GaiCopyFails(t) ==
    /\ gai[t] = "copy"
    /\ IF res[t] # NULL THEN freeaddrinfo(res[t]) ELSE UNCHANGED <<lists, wild>>
    /\ GaiFails(t)
    /\ UNCHANGED <<saddr, asked, res, careless, disturbed, netVars>>

GaiCanon(t) ==
    /\ gai[t] = "canon"
    /\ GaiGoto(t, "ok")
    /\ UNCHANGED <<saddr, asked, res, lists, wild, careless, disturbed, netVars>>

(* Mutant: the list is not freed when strdup fails.                         *)
GaiCanonLeaks(t) ==
    /\ gai[t] = "canon"
    /\ GaiFails(t)
    /\ UNCHANGED <<saddr, asked, res, lists, wild, careless, disturbed, netVars>>

GaiCanonFails(t) ==
    /\ gai[t] = "canon"
    /\ freeaddrinfo(res[t])
    /\ GaiFails(t)
    /\ UNCHANGED <<saddr, asked, res, careless, disturbed, netVars>>

(* The caller frees its list, and may set its pointer to NULL or not.       *)
CallerFrees(t) ==
    /\ gai[t] = "ok"
    /\ freeaddrinfo(res[t])
    /\ \E p \in {NULL, res[t]} : res' = [res EXCEPT ![t] = p]
    /\ GaiGoto(t, "idle")
    /\ UNCHANGED <<saddr, asked, careless, disturbed, netVars>>

getaddrinfo(t) ==
    \/ GaiNumeric(t) \/ \E h \in Hosts : GaiHost(t, h)
    \/ NetStep(t) \/ gethostbyname(t) \/ gethostbynameFails(t)
    \/ GaiCopy(t) \/ GaiCopyFails(t) \/ GaiCanon(t) \/ GaiCanonFails(t)

GaiNext ==
    \/ \E t \in Racers : getaddrinfo(t) \/ CallerFrees(t)
    \/ (AppNetInit \/ AppNetCtlInit) /\ UNCHANGED gaiVars

GaiSpec == NetStart /\ GaiStart /\ [][GaiNext]_<<netVars, gaiVars>>

-----------------------------------------------------------------------------
Answered(t) == gai[t] \in {"canon", "ok"}

(* Every allocated list is somebody's result, or about to be: no failing    *)
(* malloc or strdup leaks one.  And if every caller sets its pointer to     *)
(* NULL before the call, nothing is freed twice and nothing that is no      *)
(* list: the free of *res when the first malloc_ai fails can only reach     *)
(* what the caller left there.                                              *)
ListsHeld ==
    /\ Allocated \subseteq {res[t] : t \in {u \in Racers : Answered(u)}}
    /\ ~careless => ~wild

(* The answer is the address of the node that was asked for, unless another *)
(* thread resolved a name between gethostbyname and the copy out of its     *)
(* static buffer.                                                           *)
AnswersTheQuestion ==
    \A t \in Racers :
        Answered(t) /\ t \notin disturbed /\ ~careless => lists[res[t]] = asked[t]

=============================================================================
