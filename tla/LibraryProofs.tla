--------------------------- MODULE LibraryProofs ----------------------------
(***************************************************************************)
(* For any number of threads, hosts and failures: the memory pool of        *)
(* _net_init and the state in which its callers find SceNet; the lists of   *)
(* getaddrinfo and the static buffer of gethostbyname; and that all the     *)
(* resolver does to the network is what NetInit allows.  The positions of   *)
(* directory streams and the list of scandir.  What poll and select answer. *)
(* And the parts of the library together: each behaves as its own           *)
(* specification allows, so that what is proved of it alone holds of the    *)
(* whole.                                                                   *)
(***************************************************************************)
EXTENDS Library, UnguardedProofs, InetProofs

-----------------------------------------------------------------------------
(* _net_init: the inductive invariant.                                      *)

(* The compare-and-swap lets one thread into the body, and the body is not  *)
(* over while a thread is in it.                                            *)
OneInBody ==
    /\ \A t, u \in Threads : net_pc[t] \in NetBody /\ net_pc[u] \in NetBody => t = u
    /\ Initialising => net_initialized = 1
    /\ net_initialized = 0 => outcome = "none" /\ \A t \in Threads : net_pc[t] = "idle"

(* Which block is allocated, and what SceNet runs on, at each step.         *)
BodyAt(t) ==
    /\ net_pc[t] \in NetBody \ {"free"} => outcome = "none"
    /\ net_pc[t] \in {"load", "malloc"} => allocated = {} /\ net \notin Blocks
    /\ net_pc[t] = "net" =>
            net_memory # NULL /\ allocated = {net_memory} /\ net \notin Blocks
    /\ net_pc[t] = "ctl" =>
            \/ net_memory = NULL /\ allocated = {} /\ net = "app"
            \/ net_memory # NULL /\ allocated = {net_memory} /\ net = net_memory
    /\ net_pc[t] = "term" =>
            net_memory # NULL /\ allocated = {net_memory} /\ net = net_memory
    /\ net_pc[t] = "free" =>
            /\ net_memory # NULL /\ allocated = {net_memory}
            /\ \/ outcome = "none" /\ net \notin Blocks
               \/ outcome = "term_failed" /\ net = net_memory

(* What the body leaves behind: the pool SceNet runs on and nothing else    *)
(* (not even that if sceNetTerm failed), and no SceNet only if it failed.   *)
AfterBody ==
    ~Initialising =>
        /\ allocated = IF outcome = "term_failed" THEN {} ELSE {net} \cap Blocks
        /\ net_initialized = 0 => allocated = {}
        /\ net_initialized = 1 /\ net = "down" => outcome \in {"error", "torn_down"}

NetInv == NetTypeOK /\ OneInBody /\ (\A t \in Threads : BodyAt(t)) /\ AfterBody


(* The names of the states of SceNet are no addresses.                      *)
LEMMA NoBlocks == NULL \notin Blocks /\ "down" \notin Blocks /\ "app" \notin Blocks
BY NetAssumption

(* A thread in the body is the only one, so what it does there is all that  *)
(* happens to the flag and the block; when it leaves, the body is over.     *)
LEMMA BodyStep ==
    ASSUME NetInv, NEW t \in Threads, net_pc[t] \in NetBody, NEW l \in NetBody \cup {"client"},
           NetGoto(t, l), UNCHANGED net_initialized
    PROVE  /\ net_pc' \in [Threads -> {"idle", "client"} \cup NetBody]
           /\ net_pc'[t] = l
           /\ \A u \in Threads \ {t} : net_pc'[u] = net_pc[u] /\ net_pc'[u] \notin NetBody
           /\ Initialising' <=> l \in NetBody
           /\ net_initialized' = 1
<1>1. net_pc' = [net_pc EXCEPT ![t] = l] /\ net_pc \in [Threads -> {"idle", "client"} \cup NetBody]
  BY DEF NetGoto, NetInv, NetTypeOK
<1>2. \A u \in Threads \ {t} : net_pc[u] \notin NetBody
  BY DEF NetInv, OneInBody
<1>3. net_initialized = 1
  BY DEF NetInv, OneInBody, Initialising
<1>4. "client" \notin NetBody
  BY DEF NetBody
<1> QED
  BY <1>1, <1>2, <1>3, <1>4 DEF Initialising

(* A step within the body keeps the invariant if what it leaves fits the    *)
(* place it goes to.                                                        *)
LEMMA WithinBody ==
    ASSUME NetInv, NEW t \in Threads, net_pc[t] \in NetBody, NEW l \in NetBody,
           NetGoto(t, l), UNCHANGED net_initialized, NetTypeOK', BodyAt(t)'
    PROVE  NetInv'
<1>1. /\ net_pc'[t] = l
      /\ \A u \in Threads \ {t} : net_pc'[u] \notin NetBody
      /\ Initialising'
      /\ net_initialized' = 1
  BY BodyStep
<1>2. OneInBody'
  BY <1>1 DEF OneInBody
<1>3. ASSUME NEW u \in Threads PROVE BodyAt(u)'
  BY <1>1 DEF BodyAt, NetBody
<1> QED
  BY <1>1, <1>2, <1>3 DEF NetInv, AfterBody

(* A step out of the body keeps it if it leaves the pool and nothing else.  *)
LEMMA OutOfBody ==
    ASSUME NetInv, NEW t \in Threads, net_pc[t] \in NetBody, NEW o,
           NetReturn(t, o), UNCHANGED net_initialized, NetTypeOK',
           allocated' = IF o = "term_failed" THEN {} ELSE {net'} \cap Blocks,
           net' = "down" => o \in {"error", "torn_down"}
    PROVE  NetInv'
<1>1. /\ net_pc'[t] = "client"
      /\ \A u \in Threads : net_pc'[u] \notin NetBody
      /\ ~Initialising'
      /\ net_initialized' = 1 /\ outcome' = o
  <2>1. NetGoto(t, "client") /\ outcome' = o /\ "client" \notin NetBody
    BY DEF NetReturn, NetBody
  <2> QED
    BY <2>1, BodyStep
<1>2. OneInBody'
  BY <1>1 DEF OneInBody
<1>3. ASSUME NEW u \in Threads PROVE BodyAt(u)'
  BY <1>1 DEF BodyAt, NetBody
<1> QED
  BY <1>1, <1>2, <1>3 DEF NetInv, AfterBody

(* Every step of _net_init keeps the invariant.                             *)
LEMMA NetInitStep ==
    ASSUME NetInv, NEW t \in Threads, net_init(t)
    PROVE  NetInv'
<1> USE NoBlocks
<1>t. NetTypeOK /\ BodyAt(t)
  BY DEF NetInv
<1>p. \A l \in {"idle", "client"} \cup NetBody : NetGoto(t, l) =>
         net_pc'[t] = l /\ net_pc' \in [Threads -> {"idle", "client"} \cup NetBody]
  BY <1>t DEF NetGoto, NetTypeOK
<1>1. CASE Enter(t)
  <2>1. CASE net_initialized = 0
    <3>1. /\ \A u \in Threads : net_pc[u] = "idle"
          /\ ~Initialising /\ outcome = "none"
      BY <2>1 DEF NetInv, OneInBody, Initialising, NetBody
    <3>2. allocated = {} /\ net \notin Blocks
      BY <2>1, <3>1 DEF NetInv, AfterBody
    <3>3. /\ net_pc'[t] = "load" /\ Initialising'
          /\ \A u \in Threads \ {t} : net_pc'[u] = "idle"
      BY <1>1, <1>t, <2>1, <3>1 DEF Enter, NetGoto, NetTypeOK, Initialising, NetBody
    <3>4. NetTypeOK'
      BY <1>1, <1>t, <1>p, <2>1 DEF Enter, NetTypeOK, NetBody
    <3>5. OneInBody'
      BY <1>1, <3>1, <3>3 DEF Enter, OneInBody, NetBody
    <3>6. ASSUME NEW u \in Threads PROVE BodyAt(u)'
      BY <1>1, <3>1, <3>2, <3>3 DEF Enter, BodyAt, NetBody
    <3> QED
      BY <3>3, <3>4, <3>5, <3>6 DEF NetInv, AfterBody
  <2>2. CASE net_initialized # 0
    <3>1. net_initialized = 1 /\ net_initialized' = 1
      BY <1>1, <1>t, <2>2 DEF Enter, NetTypeOK
    <3>2. NetTypeOK' /\ net_pc' = [net_pc EXCEPT ![t] = "client"]
      BY <1>1, <1>t, <1>p, <2>2, <3>1 DEF Enter, NetGoto, NetTypeOK
    <3>3. \A u \in Threads : u # t => net_pc'[u] = net_pc[u]
      BY <1>t, <3>2 DEF NetTypeOK
    <3>4. net_pc[t] = "idle" /\ net_pc'[t] = "client" /\ (Initialising' <=> Initialising)
      BY <1>1, <1>t, <3>2, <3>3 DEF Enter, NetTypeOK, Initialising, NetBody
    <3>5. OneInBody'
      BY <1>1, <3>1, <3>3, <3>4 DEF Enter, NetInv, OneInBody, NetBody
    <3>6. ASSUME NEW u \in Threads PROVE BodyAt(u)'
      BY <1>1, <3>3, <3>4 DEF Enter, NetInv, BodyAt, NetBody
    <3>7. AfterBody'
      BY <1>1, <3>1, <3>4 DEF Enter, NetInv, AfterBody
    <3> QED
      BY <3>2, <3>5, <3>6, <3>7 DEF NetInv
  <2> QED
    BY <2>1, <2>2
<1>2. CASE LoadModule(t)
  <2>1. NetTypeOK' /\ net_pc[t] \in NetBody /\ "malloc" \in NetBody /\ NetGoto(t, "malloc")
    BY <1>t, <1>p, <1>2 DEF LoadModule, NetTypeOK, NetBody, FreeMemory, BodyAt
  <2>2. BodyAt(t)'
    BY <1>t, <1>p, <1>2, <2>1 DEF LoadModule, BodyAt, NetTypeOK, FreeMemory
  <2> QED
    BY <1>2, <2>1, <2>2, WithinBody DEF LoadModule
<1>3. CASE LoadModuleFails(t)
  <2>1. NetTypeOK' /\ net_pc[t] \in NetBody /\ NetReturn(t, "error")
    BY <1>t, <1>p, <1>3 DEF LoadModuleFails, NetReturn, NetTypeOK, NetBody, NetOutcomes, FreeMemory
  <2>2. allocated' = {net'} \cap Blocks /\ (net' = "down" => "error" \in {"error", "torn_down"})
    BY <1>t, <1>3 DEF LoadModuleFails, BodyAt, NetTypeOK, FreeMemory
  <2> QED
    BY <1>3, <2>1, <2>2, OutOfBody DEF LoadModuleFails
<1>4. CASE Malloc(t)
  <2>1. NetTypeOK' /\ net_pc[t] \in NetBody /\ "net" \in NetBody /\ NetGoto(t, "net")
    BY <1>t, <1>p, <1>4 DEF Malloc, NetTypeOK, NetBody, FreeMemory, BodyAt
  <2>2. BodyAt(t)'
    BY <1>t, <1>p, <1>4, <2>1 DEF Malloc, BodyAt, NetTypeOK, FreeMemory
  <2> QED
    BY <1>4, <2>1, <2>2, WithinBody DEF Malloc
<1>5. CASE MallocFails(t)
  <2>1. NetTypeOK' /\ net_pc[t] \in NetBody /\ NetReturn(t, "error")
    BY <1>t, <1>p, <1>5 DEF MallocFails, NetReturn, NetTypeOK, NetBody, NetOutcomes, FreeMemory
  <2>2. allocated' = {net'} \cap Blocks /\ (net' = "down" => "error" \in {"error", "torn_down"})
    BY <1>t, <1>5 DEF MallocFails, BodyAt, NetTypeOK, FreeMemory
  <2> QED
    BY <1>5, <2>1, <2>2, OutOfBody DEF MallocFails
<1>6. CASE sceNetInit(t)
  <2>1. NetTypeOK' /\ net_pc[t] \in NetBody /\ "ctl" \in NetBody /\ NetGoto(t, "ctl")
    BY <1>t, <1>p, <1>6 DEF sceNetInit, NetTypeOK, NetBody, FreeMemory, BodyAt
  <2>2. BodyAt(t)'
    BY <1>t, <1>p, <1>6, <2>1 DEF sceNetInit, BodyAt, NetTypeOK, FreeMemory
  <2> QED
    BY <1>6, <2>1, <2>2, WithinBody DEF sceNetInit
<1>7. CASE sceNetInitBusy(t)
  <2>1. NetTypeOK' /\ net_pc[t] \in NetBody /\ "ctl" \in NetBody /\ NetGoto(t, "ctl")
    BY <1>t, <1>p, <1>7 DEF sceNetInitBusy, NetTypeOK, NetBody, FreeMemory, BodyAt
  <2>2. BodyAt(t)'
    BY <1>t, <1>p, <1>7, <2>1 DEF sceNetInitBusy, BodyAt, NetTypeOK, FreeMemory
  <2> QED
    BY <1>7, <2>1, <2>2, WithinBody DEF sceNetInitBusy
<1>8. CASE sceNetInitFails(t)
  <2>1. NetTypeOK' /\ net_pc[t] \in NetBody /\ NetReturn(t, "error")
    BY <1>t, <1>p, <1>8 DEF sceNetInitFails, NetReturn, NetTypeOK, NetBody, NetOutcomes, FreeMemory
  <2>2. allocated' = {net'} \cap Blocks /\ (net' = "down" => "error" \in {"error", "torn_down"})
    BY <1>t, <1>8 DEF sceNetInitFails, BodyAt, NetTypeOK, FreeMemory
  <2> QED
    BY <1>8, <2>1, <2>2, OutOfBody DEF sceNetInitFails
<1>9. CASE sceNetCtlInit(t)
  <2>1. NetTypeOK' /\ net_pc[t] \in NetBody /\ NetReturn(t, "ok")
    BY <1>t, <1>p, <1>9 DEF sceNetCtlInit, NetReturn, NetTypeOK, NetBody, NetOutcomes, FreeMemory
  <2>2. allocated' = {net'} \cap Blocks /\ (net' = "down" => "ok" \in {"error", "torn_down"})
    BY <1>t, <1>9 DEF sceNetCtlInit, BodyAt, NetTypeOK, FreeMemory
  <2> QED
    BY <1>9, <2>1, <2>2, OutOfBody DEF sceNetCtlInit
<1>10. CASE sceNetCtlInitFails(t)
  <2>1. CASE net_memory # NULL
    <3>1. NetTypeOK' /\ net_pc[t] \in NetBody /\ "term" \in NetBody /\ NetGoto(t, "term")
      BY <1>t, <1>p, <1>10, <2>1 DEF sceNetCtlInitFails, NetTypeOK, NetBody
    <3>2. BodyAt(t)'
      BY <1>t, <1>p, <1>10, <2>1, <3>1 DEF sceNetCtlInitFails, BodyAt
    <3> QED
      BY <1>10, <2>1, <3>1, <3>2, WithinBody DEF sceNetCtlInitFails
  <2>2. CASE net_memory = NULL
    <3>1. NetTypeOK' /\ net_pc[t] \in NetBody /\ NetReturn(t, "error")
      BY <1>t, <1>p, <1>10, <2>2 DEF sceNetCtlInitFails, NetReturn, NetTypeOK, NetBody, NetOutcomes
    <3>2. allocated' = {net'} \cap Blocks
      BY <1>t, <1>10, <2>2 DEF sceNetCtlInitFails, BodyAt
    <3> QED
      BY <1>10, <3>1, <3>2, OutOfBody DEF sceNetCtlInitFails
  <2> QED
    BY <2>1, <2>2
<1>11. CASE sceNetTerm(t)
  <2>1. NetTypeOK' /\ net_pc[t] \in NetBody /\ "free" \in NetBody /\ NetGoto(t, "free")
    BY <1>t, <1>p, <1>11 DEF sceNetTerm, NetTypeOK, NetBody, FreeMemory, BodyAt
  <2>2. BodyAt(t)'
    BY <1>t, <1>p, <1>11, <2>1 DEF sceNetTerm, BodyAt, NetTypeOK, FreeMemory
  <2> QED
    BY <1>11, <2>1, <2>2, WithinBody DEF sceNetTerm
<1>12. CASE sceNetTermFails(t)
  <2>1. NetTypeOK' /\ net_pc[t] \in NetBody /\ "free" \in NetBody /\ NetGoto(t, "free")
    BY <1>t, <1>p, <1>12 DEF sceNetTermFails, NetTypeOK, NetBody, NetOutcomes
  <2>2. BodyAt(t)'
    BY <1>t, <1>p, <1>12, <2>1 DEF sceNetTermFails, BodyAt
  <2> QED
    BY <1>12, <2>1, <2>2, WithinBody DEF sceNetTermFails
<1>13. CASE NetFree(t)
  <2>0. net_pc[t] \in NetBody /\ outcome \in {"none", "term_failed"}
    BY <1>t, <1>13 DEF NetFree, BodyAt, NetBody
  <2>1. CASE outcome = "none"
    <3>1. NetTypeOK' /\ NetReturn(t, "torn_down")
      BY <1>t, <1>p, <1>13, <2>1 DEF NetFree, NetReturn, NetTypeOK, NetOutcomes, FreeMemory
    <3>2. allocated' = {net'} \cap Blocks
      BY <1>t, <1>13, <2>1 DEF NetFree, BodyAt, FreeMemory
    <3> QED
      BY <1>13, <2>0, <3>1, <3>2, OutOfBody DEF NetFree
  <2>2. CASE outcome = "term_failed"
    <3>1. NetTypeOK' /\ NetReturn(t, "term_failed")
      BY <1>t, <1>p, <1>13, <2>2 DEF NetFree, NetReturn, NetTypeOK, NetOutcomes, FreeMemory
    <3>2. allocated' = {} /\ net' # "down"
      BY <1>t, <1>13, <2>2 DEF NetFree, BodyAt, NetTypeOK, FreeMemory
    <3> QED
      BY <1>13, <2>0, <3>1, <3>2, OutOfBody DEF NetFree
  <2> QED
    BY <2>0, <2>1, <2>2
<1> QED
  BY <1>1, <1>2, <1>3, <1>4, <1>5, <1>6, <1>7, <1>8, <1>9, <1>10, <1>11, <1>12,
     <1>13 DEF net_init

(* The other steps do not touch the body.                                   *)
LEMMA NetClientStep ==
    ASSUME NetInv, NEW t \in Threads, NetClient(t)
    PROVE  NetInv'
<1>1. /\ NetTypeOK' /\ net_pc[t] = "client" /\ net_pc'[t] = "idle"
      /\ \A u \in Threads : u # t => net_pc'[u] = net_pc[u]
  BY DEF NetClient, NetGoto, NetInv, NetTypeOK
<1>2. Initialising' <=> Initialising
  BY <1>1 DEF Initialising, NetBody
<1>3. OneInBody'
  BY <1>1, <1>2 DEF NetClient, NetInv, OneInBody, NetBody
<1>4. ASSUME NEW u \in Threads PROVE BodyAt(u)'
  BY <1>1 DEF NetClient, NetInv, BodyAt, NetBody
<1>5. AfterBody'
  BY <1>2 DEF NetClient, NetInv, AfterBody
<1> QED
  BY <1>1, <1>3, <1>4, <1>5 DEF NetInv

LEMMA ApplicationStep ==
    ASSUME NetInv, AppNetInit \/ AppNetCtlInit
    PROVE  NetInv'
<1>1. NetTypeOK' /\ (Initialising' <=> Initialising)
  BY DEF AppNetInit, AppNetCtlInit, NetInv, NetTypeOK, Initialising
<1>2. OneInBody'
  BY <1>1 DEF AppNetInit, AppNetCtlInit, NetInv, OneInBody
<1>3. ASSUME NEW u \in Threads PROVE BodyAt(u)'
  BY NoBlocks DEF AppNetInit, AppNetCtlInit, NetInv, NetTypeOK, BodyAt
<1>4. AfterBody'
  BY <1>1, NoBlocks DEF AppNetInit, AppNetCtlInit, NetInv, AfterBody
<1> QED
  BY <1>1, <1>2, <1>3, <1>4 DEF NetInv

LEMMA NetInvInductive == NetSpec => []NetInv
<1>1. NetStart => NetInv
  <2> SUFFICES ASSUME NetStart PROVE NetInv
    OBVIOUS
  <2>1. NetTypeOK
    BY DEF NetStart, NetTypeOK, NetOutcomes
  <2>2. \A t \in Threads : net_pc[t] = "idle" /\ "idle" \notin NetBody
    BY DEF NetStart, NetBody
  <2>3. OneInBody /\ \A t \in Threads : BodyAt(t)
    BY <2>2 DEF NetStart, OneInBody, BodyAt, NetBody, Initialising
  <2>4. AfterBody
    BY NoBlocks DEF NetStart, AfterBody
  <2> QED
    BY <2>1, <2>3, <2>4 DEF NetInv
<1>2. NetInv /\ [NetNext]_netVars => NetInv'
  <2> SUFFICES ASSUME NetInv, [NetNext]_netVars PROVE NetInv'
    OBVIOUS
  <2>1. CASE \E t \in Threads : net_init(t) \/ NetClient(t)
    BY <2>1, NetInitStep, NetClientStep
  <2>2. CASE AppNetInit \/ AppNetCtlInit
    BY <2>2, ApplicationStep
  <2>3. CASE UNCHANGED netVars
    BY <2>3 DEF netVars, NetInv, NetTypeOK, OneInBody, BodyAt, AfterBody, Initialising
  <2> QED
    BY <2>1, <2>2, <2>3 DEF NetNext
<1> QED
  BY <1>1, <1>2, PTL DEF NetSpec

-----------------------------------------------------------------------------
(* The variables of _net_init have their types.                             *)
THEOREM NetTypeCorrect == NetSpec => []NetTypeOK
<1>1. NetInv => NetTypeOK
  BY DEF NetInv
<1> QED
  BY <1>1, NetInvInductive, PTL

(* SceNet runs on a pool that _net_init has freed only after an ignored     *)
(* failure of sceNetTerm, and no way through _net_init leaks the pool.      *)
THEOREM PoolCorrect == NetSpec => []PoolExact
<1>1. NetInv => PoolExact
  <2> SUFFICES ASSUME NetInv PROVE PoolExact
    OBVIOUS
  <2>1. CASE Initialising
    BY <2>1, NoBlocks DEF NetInv, BodyAt, Initialising, NetBody, PoolExact
  <2>2. CASE ~Initialising
    BY <2>2 DEF NetInv, AfterBody, PoolExact
  <2> QED
    BY <2>1, <2>2
<1> QED
  BY <1>1, NetInvInductive, PTL

(* A caller of _net_init finds SceNet down only while the initialisation is *)
(* under way or after it failed.                                            *)
THEOREM ReadyCorrect == NetSpec => []ReadyUnlessFailed
<1>1. NetInv => ReadyUnlessFailed
  <2> SUFFICES ASSUME NetInv, NEW t \in Threads, net_pc[t] = "client", net = "down", ~Initialising
               PROVE  outcome \in {"error", "torn_down"}
    BY DEF ReadyUnlessFailed
  <2>1. net_initialized = 1
    BY DEF NetInv, NetTypeOK, OneInBody
  <2> QED
    BY <2>1 DEF NetInv, AfterBody
<1> QED
  BY <1>1, NetInvInductive, PTL

-----------------------------------------------------------------------------
(* getaddrinfo: the inductive invariant.                                    *)

Unanswered(t) == gai[t] \in {"host", "copy"}

(* An allocated list is the result of a call that was answered.             *)
NoLeak == \A l \in Lists : lists[l] # NULL => \E t \in Racers : Answered(t) /\ res[t] = l

(* What a call has got from the buffer is about to be copied, and is its    *)
(* own unless it was disturbed.                                             *)
InBuffer(t) ==
    /\ Unanswered(t) => asked[t] \in Hosts
    /\ gai[t] = "copy" => saddr \in Hosts /\ (t \notin disturbed => saddr = asked[t])

(* If no caller was careless, each answer is a list of its caller's own.    *)
Owns(t) ==
    /\ Unanswered(t) => res[t] = NULL
    /\ Answered(t) =>
        /\ res[t] \in Lists /\ lists[res[t]] # NULL
        /\ t \notin disturbed => lists[res[t]] = asked[t]
        /\ \A u \in Racers \ {t} : Answered(u) => res[u] # res[t]

GaiInv ==
    /\ GaiTypeOK
    /\ NoLeak
    /\ \A t \in Racers : InBuffer(t)
    /\ ~careless => ~wild /\ \A t \in Racers : Owns(t)

-----------------------------------------------------------------------------
(* The steps.                                                               *)

GaiLabels == {"idle", "host", "copy", "canon", "ok"}
Nodes == Hosts \cup {"numeric"}

LEMMA GaiFacts ==
    ASSUME GaiInv
    PROVE  /\ NULL \notin Nodes /\ NULL \notin Lists
           /\ saddr \in Hosts \cup {NULL}
           /\ gai \in [Racers -> GaiLabels]
           /\ asked \in [Racers -> Nodes \cup {NULL}]
           /\ res \in [Racers -> Lists \cup {NULL, "junk"}]
           /\ lists \in [Lists -> Nodes \cup {NULL}]
           /\ wild \in BOOLEAN /\ careless \in BOOLEAN /\ disturbed \subseteq Racers
BY ResolverAssumption DEF GaiInv, GaiTypeOK, GaiLabels, Nodes

(* The parts of the other threads: nothing that InBuffer and Owns say of a  *)
(* thread is about the calls of the others, but that its list stays.        *)
OthersKept(t) ==
    /\ \A u \in Racers \ {t} : gai'[u] = gai[u] /\ asked'[u] = asked[u] /\ res'[u] = res[u]
    /\ \A u \in Racers \ {t} : u \in disturbed' <=> u \in disturbed
    /\ saddr' = saddr

LEMMA GetsList ==
    ASSUME GaiInv, NEW t \in Racers, ~Answered(t), NEW addr \in Nodes, malloc_ai(t, addr),
           NEW g \in {"canon", "ok"}, GaiGoto(t, g), GaiTypeOK', OthersKept(t),
           t \notin disturbed' => asked'[t] = addr, UNCHANGED <<wild, careless>>
    PROVE  GaiInv'
<1>1. PICK l \in Lists \ Allocated :
         lists' = [lists EXCEPT ![l] = addr] /\ res' = [res EXCEPT ![t] = l]
  BY DEF malloc_ai
<1>2. lists[l] = NULL /\ lists'[l] = addr /\ addr # NULL /\ res'[t] = l
      /\ \A m \in Lists \ {l} : lists'[m] = lists[m]
  BY <1>1, GaiFacts DEF Allocated
<1>3. gai'[t] = g
  BY GaiFacts DEF GaiGoto
<1>4. Answered(t)' /\ ~Unanswered(t)' /\ \A u \in Racers \ {t} :
         /\ (Answered(u)' <=> Answered(u)) /\ (Unanswered(u)' <=> Unanswered(u))
  BY <1>3 DEF OthersKept, Answered, Unanswered
<1>5. NoLeak'
  BY <1>1, <1>2, <1>4 DEF GaiInv, NoLeak, OthersKept
<1>6. \A u \in Racers : InBuffer(u)'
  <2>1. InBuffer(t)'
    BY <1>3, <1>4 DEF InBuffer
  <2>2. ASSUME NEW u \in Racers \ {t} PROVE InBuffer(u)'
    BY <1>4 DEF GaiInv, InBuffer, OthersKept
  <2> QED
    BY <2>1, <2>2
<1>7. ASSUME ~careless' PROVE ~wild' /\ \A u \in Racers : Owns(u)'
  <2>1. ~wild /\ \A u \in Racers : Owns(u)
    BY <1>7 DEF GaiInv
  <2>2. \A u \in Racers \ {t} : Answered(u) => res[u] # l
    BY <1>2, <2>1 DEF Owns
  <2>3. Owns(t)'
    BY <1>1, <1>2, <1>4, <2>2 DEF Owns, OthersKept
  <2>4. ASSUME NEW u \in Racers \ {t} PROVE Owns(u)'
    <3>1. Unanswered(u)' => res'[u] = NULL
      BY <1>4, <2>1 DEF Owns, OthersKept
    <3>2. ASSUME Answered(u)
          PROVE  /\ res'[u] \in Lists /\ lists'[res'[u]] # NULL
                 /\ u \notin disturbed' => lists'[res'[u]] = asked'[u]
      BY <1>2, <2>1, <2>2, <3>2 DEF Owns, OthersKept
    <3>3. ASSUME Answered(u), NEW w \in Racers \ {u}, Answered(w)'
          PROVE  res'[w] # res'[u]
      <4>1. CASE w = t
        BY <1>2, <2>2, <3>3, <4>1 DEF OthersKept
      <4>2. CASE w # t
        BY <1>4, <2>1, <3>3, <4>2 DEF Owns, OthersKept
      <4> QED
        BY <4>1, <4>2
    <3> QED
      BY <1>4, <3>1, <3>2, <3>3 DEF Owns
  <2> QED
    BY <2>1, <2>3, <2>4
<1> QED
  BY <1>5, <1>6, <1>7 DEF GaiInv

(* A list is freed by the only call that has it.                            *)
LEMMA GivesBack ==
    ASSUME GaiInv, NEW t \in Racers, Answered(t), freeaddrinfo(res[t]), GaiGoto(t, "idle"),
           GaiTypeOK', OthersKept(t), UNCHANGED careless
    PROVE  GaiInv'
<1>1. gai'[t] = "idle"
  BY GaiFacts DEF GaiGoto
<1>2. ~Answered(t)' /\ ~Unanswered(t)' /\ \A u \in Racers \ {t} :
         /\ (Answered(u)' <=> Answered(u)) /\ (Unanswered(u)' <=> Unanswered(u))
  BY <1>1 DEF OthersKept, Answered, Unanswered
<1>3. \A m \in Lists : lists'[m] = IF m = res[t] THEN NULL ELSE lists[m]
  BY DEF freeaddrinfo
<1>4. NoLeak'
  <2>1. SUFFICES ASSUME NEW m \in Lists, lists'[m] # NULL
                 PROVE  \E u \in Racers : Answered(u)' /\ res'[u] = m
    BY DEF NoLeak
  <2>2. m # res[t] /\ lists[m] # NULL
    BY <1>3, <2>1
  <2>3. PICK u \in Racers : Answered(u) /\ res[u] = m
    BY <2>2 DEF GaiInv, NoLeak
  <2> QED
    BY <1>2, <2>2, <2>3 DEF OthersKept
<1>5. \A u \in Racers : InBuffer(u)'
  <2>1. InBuffer(t)'
    BY <1>1, <1>2 DEF InBuffer
  <2>2. ASSUME NEW u \in Racers \ {t} PROVE InBuffer(u)'
    BY <1>2 DEF GaiInv, InBuffer, OthersKept
  <2> QED
    BY <2>1, <2>2
<1>6. ASSUME ~careless' PROVE ~wild' /\ \A u \in Racers : Owns(u)'
  <2>1. ~wild /\ \A u \in Racers : Owns(u)
    BY <1>6 DEF GaiInv
  <2>2. res[t] \in Allocated
    BY <2>1 DEF Owns, Allocated
  <2>3. ~wild'
    BY <2>1, <2>2 DEF freeaddrinfo
  <2>4. Owns(t)'
    BY <1>2 DEF Owns
  <2>5. ASSUME NEW u \in Racers \ {t} PROVE Owns(u)'
    <3>1. Unanswered(u)' => res'[u] = NULL
      BY <1>2, <2>1 DEF Owns, OthersKept
    <3>2. ASSUME Answered(u)
          PROVE  /\ res'[u] \in Lists /\ lists'[res'[u]] # NULL
                 /\ u \notin disturbed' => lists'[res'[u]] = asked'[u]
      BY <1>3, <2>1, <3>2 DEF Owns, OthersKept
    <3>3. ASSUME Answered(u), NEW w \in Racers \ {u}, Answered(w)'
          PROVE  res'[w] # res'[u]
      BY <1>2, <2>1, <3>3 DEF Owns, OthersKept
    <3> QED
      BY <1>2, <3>1, <3>2, <3>3 DEF Owns
  <2> QED
    BY <2>3, <2>4, <2>5
<1> QED
  BY <1>4, <1>5, <1>6 DEF GaiInv

(* A call that has no list, before and after, and frees none.               *)
LEMMA HasNoList ==
    ASSUME GaiInv, NEW t \in Racers, ~Answered(t), ~Answered(t)', GaiTypeOK', OthersKept(t),
           UNCHANGED <<lists, wild>>, careless => careless', InBuffer(t)',
           ~careless' => (Unanswered(t)' => res'[t] = NULL)
    PROVE  GaiInv'
<1>1. \A u \in Racers \ {t} :
         /\ (Answered(u)' <=> Answered(u)) /\ (Unanswered(u)' <=> Unanswered(u))
  BY DEF OthersKept, Answered, Unanswered
<1>2. NoLeak'
  BY <1>1 DEF GaiInv, NoLeak, OthersKept
<1>3. ASSUME NEW u \in Racers PROVE InBuffer(u)'
  BY <1>1 DEF GaiInv, InBuffer, OthersKept
<1>4. ASSUME ~careless' PROVE ~wild' /\ \A u \in Racers : Owns(u)'
  <2>1. ~wild /\ \A u \in Racers : Owns(u)
    BY <1>4 DEF GaiInv
  <2>2. Owns(t)'
    BY <1>4 DEF Owns
  <2>3. ASSUME NEW u \in Racers \ {t} PROVE Owns(u)'
    BY <1>1, <2>1 DEF Owns, OthersKept
  <2> QED
    BY <2>1, <2>2, <2>3
<1> QED
  BY <1>2, <1>3, <1>4 DEF GaiInv

LEMMA GaiGotoStep ==
    ASSUME GaiInv, NEW t \in Racers, NEW g \in GaiLabels, GaiGoto(t, g)
    PROVE  /\ gai' \in [Racers -> GaiLabels]
           /\ gai'[t] = g /\ \A u \in Racers \ {t} : gai'[u] = gai[u]
BY GaiFacts DEF GaiGoto

LEMMA MallocType ==
    ASSUME GaiInv, NEW t \in Racers, NEW addr \in Nodes \cup {NULL}, malloc_ai(t, addr)
    PROVE  /\ lists' \in [Lists -> Nodes \cup {NULL}]
           /\ res' \in [Racers -> Lists \cup {NULL, "junk"}]
           /\ \A u \in Racers \ {t} : res'[u] = res[u]
BY GaiFacts DEF malloc_ai

LEMMA FreeType ==
    ASSUME GaiInv, NEW p, freeaddrinfo(p)
    PROVE  lists' \in [Lists -> Nodes \cup {NULL}] /\ wild' \in BOOLEAN
BY GaiFacts DEF freeaddrinfo

-----------------------------------------------------------------------------
LEMMA GaiNumericStep ==
    ASSUME GaiInv, NEW t \in Racers, GaiNumeric(t)
    PROVE  GaiInv'
<1>1. /\ gai[t] = "idle" /\ UNCHANGED <<saddr, wild, careless>> /\ disturbed' = disturbed \ {t}
      /\ asked' = [asked EXCEPT ![t] = "numeric"]
  BY DEF GaiNumeric
<1>2. /\ asked' \in [Racers -> Nodes \cup {NULL}] /\ disturbed' \subseteq Racers
      /\ asked'[t] = "numeric" /\ \A u \in Racers \ {t} : asked'[u] = asked[u]
  BY <1>1, GaiFacts DEF Nodes
<1>3. "numeric" \in Nodes /\ "ok" \in GaiLabels /\ "idle" \in GaiLabels
  BY DEF Nodes, GaiLabels
<1>4. CASE malloc_ai(t, "numeric") /\ GaiGoto(t, "ok")
  <2>1. PICK addr \in Nodes : addr = "numeric"
    BY <1>3
  <2>2. PICK g \in {"canon", "ok"} : g = "ok"
    OBVIOUS
  <2>3. GaiTypeOK' /\ OthersKept(t)
    BY <1>1, <1>2, <1>3, <1>4, GaiFacts, GaiGotoStep, MallocType
       DEF GaiTypeOK, OthersKept, GaiLabels, Nodes
  <2> QED
    BY <1>1, <1>2, <1>4, <2>1, <2>2, <2>3, GetsList DEF Answered
<1>5. CASE res' = [res EXCEPT ![t] = NULL] /\ GaiFails(t) /\ UNCHANGED lists
  <2>1. GaiGoto(t, "idle") /\ gai'[t] = "idle"
    BY <1>3, <1>5, GaiGotoStep DEF GaiFails
  <2>2. GaiTypeOK' /\ OthersKept(t)
    BY <1>1, <1>2, <1>3, <1>5, <2>1, GaiFacts, GaiGotoStep
       DEF GaiTypeOK, OthersKept, GaiLabels, Nodes
  <2>3. ~Answered(t) /\ ~Answered(t)' /\ InBuffer(t)' /\ ~Unanswered(t)'
    BY <1>1, <2>1 DEF Answered, Unanswered, InBuffer
  <2> QED
    BY <1>1, <1>5, <2>2, <2>3, HasNoList
<1> QED
  BY <1>4, <1>5 DEF GaiNumeric

LEMMA GaiHostStep ==
    ASSUME GaiInv, NEW t \in Racers, NEW h \in Hosts, GaiHost(t, h)
    PROVE  GaiInv'
<1>1. /\ gai[t] = "idle" /\ UNCHANGED <<saddr, res, lists, wild>> /\ disturbed' = disturbed \ {t}
      /\ asked' = [asked EXCEPT ![t] = h] /\ careless' = (careless \/ res[t] # NULL)
      /\ GaiGoto(t, "host")
  BY DEF GaiHost
<1>2. "host" \in GaiLabels
  BY DEF GaiLabels
<1>3. gai' \in [Racers -> GaiLabels] /\ gai'[t] = "host" /\ \A u \in Racers \ {t} : gai'[u] = gai[u]
  BY <1>1, <1>2, GaiGotoStep
<1>4. /\ asked' \in [Racers -> Nodes \cup {NULL}] /\ disturbed' \subseteq Racers /\ careless' \in BOOLEAN
      /\ asked'[t] = h /\ \A u \in Racers \ {t} : asked'[u] = asked[u]
  BY <1>1, GaiFacts DEF Nodes
<1>5. GaiTypeOK' /\ OthersKept(t)
  BY <1>1, <1>3, <1>4, GaiFacts DEF GaiTypeOK, OthersKept, GaiLabels, Nodes
<1>6. ~Answered(t) /\ ~Answered(t)' /\ InBuffer(t)'
  BY <1>1, <1>3, <1>4 DEF Answered, Unanswered, InBuffer
<1> QED
  BY <1>1, <1>5, <1>6, HasNoList

LEMMA gethostbynameStep ==
    ASSUME GaiInv, NEW t \in Racers, gethostbyname(t)
    PROVE  GaiInv'
<1>1. /\ gai[t] = "host" /\ UNCHANGED <<asked, res, lists, wild, careless>>
      /\ saddr' = asked[t] /\ disturbed' = disturbed \cup {u \in Racers \ {t} : gai[u] = "copy"}
      /\ GaiGoto(t, "copy")
  BY DEF gethostbyname
<1>2. "copy" \in GaiLabels
  BY DEF GaiLabels
<1>3. gai' \in [Racers -> GaiLabels] /\ gai'[t] = "copy" /\ \A u \in Racers \ {t} : gai'[u] = gai[u]
  BY <1>1, <1>2, GaiGotoStep
<1>4. asked[t] \in Hosts
  BY <1>1 DEF GaiInv, InBuffer, Unanswered
<1>5. GaiTypeOK'
  BY <1>1, <1>3, <1>4, GaiFacts DEF GaiTypeOK, GaiLabels, Nodes
<1>6. \A u \in Racers : (Answered(u)' <=> Answered(u)) /\ (Unanswered(u)' <=> Unanswered(u))
  BY <1>1, <1>3 DEF Answered, Unanswered
<1>7. NoLeak'
  BY <1>1, <1>6 DEF GaiInv, NoLeak
<1>8. ASSUME NEW u \in Racers PROVE InBuffer(u)'
  <2>1. CASE u = t
    BY <1>1, <1>4, <2>1 DEF InBuffer
  <2>2. CASE u # t
    BY <1>1, <1>3, <1>4, <1>6, <2>2 DEF GaiInv, InBuffer
  <2> QED
    BY <2>1, <2>2
<1>9. ASSUME ~careless' PROVE ~wild' /\ \A u \in Racers : Owns(u)'
  <2>1. ~wild /\ \A u \in Racers : Owns(u)
    BY <1>1, <1>9 DEF GaiInv
  <2>2. ASSUME NEW u \in Racers PROVE Owns(u)'
    BY <1>1, <1>6, <2>1 DEF Owns
  <2> QED
    BY <1>1, <2>1, <2>2
<1> QED
  BY <1>5, <1>7, <1>8, <1>9 DEF GaiInv

LEMMA gethostbynameFailsStep ==
    ASSUME GaiInv, NEW t \in Racers, gethostbynameFails(t)
    PROVE  GaiInv'
<1>1. /\ gai[t] = "host" /\ UNCHANGED <<saddr, asked, res, lists, wild, careless, disturbed>>
      /\ GaiGoto(t, "idle")
  BY DEF gethostbynameFails, GaiFails
<1>2. "idle" \in GaiLabels
  BY DEF GaiLabels
<1>3. gai' \in [Racers -> GaiLabels] /\ gai'[t] = "idle" /\ \A u \in Racers \ {t} : gai'[u] = gai[u]
  BY <1>1, <1>2, GaiGotoStep
<1>4. GaiTypeOK' /\ OthersKept(t)
  BY <1>1, <1>3, GaiFacts DEF GaiTypeOK, OthersKept, GaiLabels, Nodes
<1>5. ~Answered(t) /\ ~Answered(t)' /\ InBuffer(t)' /\ ~Unanswered(t)'
  BY <1>1, <1>3 DEF Answered, Unanswered, InBuffer
<1> QED
  BY <1>1, <1>4, <1>5, HasNoList

LEMMA GaiCopyStep ==
    ASSUME GaiInv, NEW t \in Racers, GaiCopy(t)
    PROVE  GaiInv'
<1>1. /\ gai[t] = "copy" /\ UNCHANGED <<saddr, asked, wild, careless, disturbed>>
      /\ malloc_ai(t, saddr)
  BY DEF GaiCopy
<1>2. PICK g \in {"canon", "ok"} : GaiGoto(t, g)
  BY DEF GaiCopy
<1>3. PICK addr \in Nodes : addr = saddr
  BY <1>1 DEF GaiInv, InBuffer, Nodes
<1>4. gai' \in [Racers -> GaiLabels] /\ \A u \in Racers \ {t} : gai'[u] = gai[u]
  <2>1. g \in GaiLabels
    BY DEF GaiLabels
  <2> QED
    BY <1>2, <2>1, GaiGotoStep
<1>5. /\ lists' \in [Lists -> Nodes \cup {NULL}]
      /\ res' \in [Racers -> Lists \cup {NULL, "junk"}]
      /\ \A u \in Racers \ {t} : res'[u] = res[u]
  BY <1>1, <1>3, MallocType
<1>6. GaiTypeOK' /\ OthersKept(t)
  BY <1>1, <1>4, <1>5, GaiFacts DEF GaiTypeOK, OthersKept, GaiLabels, Nodes
<1>7. ~Answered(t) /\ (t \notin disturbed' => asked'[t] = addr)
  BY <1>1, <1>3 DEF GaiInv, InBuffer, Answered
<1> QED
  BY <1>1, <1>2, <1>3, <1>6, <1>7, GetsList

(* Without a careless caller nothing is freed here.                         *)
LEMMA GaiCopyFailsStep ==
    ASSUME GaiInv, NEW t \in Racers, GaiCopyFails(t)
    PROVE  GaiInv'
<1>1. /\ gai[t] = "copy" /\ UNCHANGED <<saddr, asked, res, careless, disturbed>>
      /\ IF res[t] # NULL THEN freeaddrinfo(res[t]) ELSE UNCHANGED <<lists, wild>>
      /\ GaiGoto(t, "idle")
  BY DEF GaiCopyFails, GaiFails
<1>2. "idle" \in GaiLabels
  BY DEF GaiLabels
<1>3. gai' \in [Racers -> GaiLabels] /\ gai'[t] = "idle" /\ \A u \in Racers \ {t} : gai'[u] = gai[u]
  BY <1>1, <1>2, GaiGotoStep
<1>4. lists' \in [Lists -> Nodes \cup {NULL}] /\ wild' \in BOOLEAN
  BY <1>1, GaiFacts, FreeType
<1>5. GaiTypeOK' /\ OthersKept(t)
  BY <1>1, <1>3, <1>4, GaiFacts DEF GaiTypeOK, OthersKept, GaiLabels, Nodes
<1>6. ~Answered(t) /\ ~Answered(t)' /\ InBuffer(t)' /\ ~Unanswered(t)'
  BY <1>1, <1>3 DEF Answered, Unanswered, InBuffer
<1>7. CASE res[t] = NULL
  BY <1>1, <1>5, <1>6, <1>7, HasNoList
<1>8. CASE res[t] # NULL
  <2>1. careless'
    BY <1>1, <1>8 DEF GaiInv, Owns, Unanswered
  <2>2. \A u \in Racers \ {t} : (Answered(u)' <=> Answered(u)) /\ (Unanswered(u)' <=> Unanswered(u))
    BY <1>3 DEF Answered, Unanswered
  <2>3. \A m \in Lists : lists'[m] # NULL => lists[m] # NULL
    BY <1>1, <1>8 DEF freeaddrinfo
  <2>4. NoLeak'
    BY <1>1, <1>6, <2>2, <2>3 DEF GaiInv, NoLeak
  <2>5. ASSUME NEW u \in Racers PROVE InBuffer(u)'
    BY <1>1, <1>3, <1>6, <2>2 DEF GaiInv, InBuffer
  <2> QED
    BY <1>5, <2>1, <2>4, <2>5 DEF GaiInv
<1> QED
  BY <1>7, <1>8

LEMMA GaiCanonStep ==
    ASSUME GaiInv, NEW t \in Racers, GaiCanon(t)
    PROVE  GaiInv'
<1>1. /\ gai[t] = "canon" /\ UNCHANGED <<saddr, asked, res, lists, wild, careless, disturbed>>
      /\ GaiGoto(t, "ok")
  BY DEF GaiCanon
<1>2. "ok" \in GaiLabels
  BY DEF GaiLabels
<1>3. gai' \in [Racers -> GaiLabels] /\ gai'[t] = "ok" /\ \A u \in Racers \ {t} : gai'[u] = gai[u]
  BY <1>1, <1>2, GaiGotoStep
<1>4. GaiTypeOK'
  BY <1>1, <1>3, GaiFacts DEF GaiTypeOK, GaiLabels, Nodes
<1>5. \A u \in Racers : (Answered(u)' <=> Answered(u)) /\ (Unanswered(u)' <=> Unanswered(u))
  BY <1>1, <1>3 DEF Answered, Unanswered
<1>6. NoLeak'
  BY <1>1, <1>5 DEF GaiInv, NoLeak
<1>7. ASSUME NEW u \in Racers PROVE InBuffer(u)'
  BY <1>1, <1>3, <1>5 DEF GaiInv, InBuffer
<1>8. ASSUME ~careless', NEW u \in Racers PROVE Owns(u)'
  <2>1. Owns(u)
    BY <1>1, <1>8 DEF GaiInv
  <2> QED
    BY <1>1, <1>5, <2>1 DEF Owns
<1> QED
  BY <1>1, <1>4, <1>6, <1>7, <1>8 DEF GaiInv

LEMMA GaiCanonFailsStep ==
    ASSUME GaiInv, NEW t \in Racers, GaiCanonFails(t)
    PROVE  GaiInv'
<1>1. /\ gai[t] = "canon" /\ UNCHANGED <<saddr, asked, res, careless, disturbed>>
      /\ freeaddrinfo(res[t]) /\ GaiGoto(t, "idle")
  BY DEF GaiCanonFails, GaiFails
<1>2. "idle" \in GaiLabels
  BY DEF GaiLabels
<1>3. gai' \in [Racers -> GaiLabels] /\ \A u \in Racers \ {t} : gai'[u] = gai[u]
  BY <1>1, <1>2, GaiGotoStep
<1>4. GaiTypeOK' /\ OthersKept(t)
  BY <1>1, <1>3, GaiFacts, FreeType DEF GaiTypeOK, OthersKept, GaiLabels, Nodes
<1> QED
  BY <1>1, <1>4, GivesBack DEF Answered

LEMMA CallerFreesStep ==
    ASSUME GaiInv, NEW t \in Racers, CallerFrees(t)
    PROVE  GaiInv'
<1>1. /\ gai[t] = "ok" /\ UNCHANGED <<saddr, asked, careless, disturbed>>
      /\ freeaddrinfo(res[t]) /\ GaiGoto(t, "idle")
  BY DEF CallerFrees
<1>2. "idle" \in GaiLabels
  BY DEF GaiLabels
<1>3. gai' \in [Racers -> GaiLabels] /\ \A u \in Racers \ {t} : gai'[u] = gai[u]
  BY <1>1, <1>2, GaiGotoStep
<1>4. res' \in [Racers -> Lists \cup {NULL, "junk"}] /\ \A u \in Racers \ {t} : res'[u] = res[u]
  BY GaiFacts DEF CallerFrees
<1>5. GaiTypeOK' /\ OthersKept(t)
  BY <1>1, <1>3, <1>4, GaiFacts, FreeType DEF GaiTypeOK, OthersKept, GaiLabels, Nodes
<1> QED
  BY <1>1, <1>5, GivesBack DEF Answered

-----------------------------------------------------------------------------
LEMMA GaiInitInv == GaiStart => GaiInv
<1> SUFFICES ASSUME GaiStart PROVE GaiInv
  OBVIOUS
<1>1. GaiTypeOK
  BY DEF GaiStart, GaiTypeOK
<1> QED
  BY <1>1 DEF GaiStart, GaiInv, NoLeak, InBuffer, Unanswered, Answered, Owns

LEMMA GaiNextInv == GaiInv /\ [GaiNext]_<<netVars, gaiVars>> => GaiInv'
<1> SUFFICES ASSUME GaiInv, [GaiNext]_<<netVars, gaiVars>> PROVE GaiInv'
  OBVIOUS
<1>1. CASE UNCHANGED gaiVars
  BY <1>1 DEF gaiVars, GaiInv, GaiTypeOK, NoLeak, InBuffer, Unanswered, Answered, Owns
<1>2. ASSUME NEW t \in Racers, getaddrinfo(t) \/ CallerFrees(t)
      PROVE  GaiInv' \/ UNCHANGED gaiVars
  BY <1>2, GaiNumericStep, GaiHostStep, gethostbynameStep, gethostbynameFailsStep, GaiCopyStep,
     GaiCopyFailsStep, GaiCanonStep, GaiCanonFailsStep, CallerFreesStep DEF getaddrinfo, NetStep
<1> QED
  BY <1>1, <1>2 DEF GaiNext

(* The invariant holds of every interleaving of the resolver's callers.     *)
THEOREM GaiInvariance == GaiSpec => []GaiInv
BY GaiInitInv, GaiNextInv, PTL DEF GaiSpec

(* For every number of threads, hosts and addresses that malloc may hand    *)
(* out again: getaddrinfo leaks no list, whichever of its steps fails, and  *)
(* frees nothing wild for callers that set their pointers to NULL.          *)
THEOREM ListsCorrect == GaiSpec => []ListsHeld
<1>1. GaiInv => ListsHeld
  BY DEF GaiInv, NoLeak, ListsHeld, Allocated
<1> QED
  BY <1>1, GaiInvariance, PTL

(* An answer is the address that was asked for, unless another thread wrote *)
(* to gethostbyname's buffer before it was copied.                          *)
THEOREM AnswersCorrect == GaiSpec => []AnswersTheQuestion
<1>1. GaiInv => AnswersTheQuestion
  BY DEF GaiInv, Owns, AnswersTheQuestion
<1> QED
  BY <1>1, GaiInvariance, PTL

-----------------------------------------------------------------------------
(* gethostbyname, whether it succeeds or not, is a NetClient of NetInit.    *)
LEMMA GaiStepIsNet ==
    ASSUME [GaiNext]_<<netVars, gaiVars>>
    PROVE  [NetNext]_netVars
<1>1. CASE UNCHANGED <<netVars, gaiVars>>
  BY <1>1
<1>2. ASSUME NEW t \in Racers, getaddrinfo(t) \/ CallerFrees(t) PROVE [NetNext]_netVars
  <2>1. t \in Threads
    BY RacersAreThreads
  <2>2. CASE NetStep(t)
    BY <2>1, <2>2 DEF NetStep, NetNext
  <2>3. CASE gethostbyname(t) \/ gethostbynameFails(t)
    <3>1. NetClient(t)
      BY <2>3 DEF gethostbyname, gethostbynameFails, NetClient, netRest
    <3> QED
      BY <2>1, <3>1 DEF NetNext
  <2>4. CASE GaiNumeric(t) \/ \E h \in Hosts : GaiHost(t, h)
    BY <2>4 DEF GaiNumeric, GaiHost
  <2>5. CASE GaiCopy(t) \/ GaiCopyFails(t) \/ GaiCanon(t) \/ GaiCanonFails(t) \/ CallerFrees(t)
    BY <2>5 DEF GaiCopy, GaiCopyFails, GaiCanon, GaiCanonFails, CallerFrees
  <2> QED
    BY <1>2, <2>2, <2>3, <2>4, <2>5 DEF getaddrinfo
<1>3. CASE AppNetInit \/ AppNetCtlInit
  BY <1>3 DEF NetNext
<1> QED
  BY <1>1, <1>2, <1>3 DEF GaiNext

(* Every step of the resolver is a step of NetInit or leaves the network    *)
(* alone.                                                                   *)
THEOREM ResolverImplementsNet == GaiSpec => NetSpec
<1>1. [GaiNext]_<<netVars, gaiVars>> => [NetNext]_netVars
  BY GaiStepIsNet
<1> QED
  BY <1>1, PTL DEF GaiSpec, NetSpec

(* With the resolver at work, too, SceNet never runs on a freed pool and    *)
(* _net_init leaks none, and a client finds SceNet down only while it is    *)
(* initialised or after that failed.                                        *)
THEOREM ResolverNetCorrect == GaiSpec => [](PoolExact /\ ReadyUnlessFailed)
BY ResolverImplementsNet, PoolCorrect, ReadyCorrect, PTL

-----------------------------------------------------------------------------
(* The inductive invariant of the directory streams.                        *)

(* Streams that share a handle are all marked.                              *)
SharedTainted ==
    \A d, e \in Streams :
        d # e /\ stream[d] # NULL /\ stream[e] # NULL /\ stream[d].fd = stream[e].fd
            => d \in tainted

(* Selected entries among the first p, each once and in their order.        *)
Collected(names, sel, p) ==
    /\ {names[i] : i \in DOMAIN names} = sel \cap (1 .. p)
    /\ Ascending(names)
    /\ Len(names) = Cardinality(sel \cap (1 .. p))

(* scandir has its handle for itself, and has stored what it selected of    *)
(* the entries it read, within the capacity.                                *)
ScanInv ==
    scan # NULL =>
        /\ position[scan.fd] # NULL
        /\ \A d \in Streams : stream[d] # NULL /\ stream[d].fd = scan.fd => d \in tainted
        /\ Len(scan.names) <= scan.len
        /\ Collected(scan.names, scan.sel, position[scan.fd])

ScannedInv ==
    scanned # NULL =>
        /\ {scanned.names[i] : i \in DOMAIN scanned.names} \subseteq scanned.sel
        /\ Ascending(scanned.names)
        /\ ~scanned.broken => Len(scanned.names) = Cardinality(scanned.sel)

DirInv == DirTypeOK /\ SharedTainted /\ TellIsPosition /\ ScanInv /\ ScannedInv

-----------------------------------------------------------------------------
(* The steps of the streams.                                                *)

Place == (0 .. Entries) \cup {NULL}

LEMMA DirFacts ==
    ASSUME DirInv
    PROVE  /\ Entries \in Nat /\ MaxIndex \in Nat /\ NULL \notin Nat
           /\ position \in [Descriptors -> Place]
           /\ stream \in [Streams -> DIR \cup {NULL}]
           /\ tainted \subseteq Streams
           /\ scan \in Scan \cup {NULL} /\ scanned \in Scan \cup {NULL}
BY DirAssumption DEF DirInv, DirTypeOK, Place

LEMMA StreamFacts ==
    ASSUME DirInv, NEW d \in Streams, stream[d] # NULL
    PROVE  /\ stream[d] \in DIR /\ stream[d].fd \in Descriptors
           /\ stream[d].index \in 0 .. MaxIndex
           /\ position[stream[d].fd] \in Place
BY DirFacts DEF DIR

LEMMA UsableIs ==
    ASSUME DirInv, NEW d \in Streams
    PROVE  Usable(d) <=> stream[d] # NULL /\ position[stream[d].fd] # NULL
BY StreamFacts DEF Usable, Open, Users

(* What the invariant says of the streams, without the definitions of the   *)
(* code.                                                                    *)
LEMMA TellIs ==
    ASSUME DirTypeOK
    PROVE  TellIsPosition <=>
              \A d \in Streams \ tainted :
                 stream[d] # NULL /\ position[stream[d].fd] # NULL
                    => stream[d].index = position[stream[d].fd]
BY DEF DirTypeOK, DIR, TellIsPosition, Usable, Open, Users

LEMMA TellIsNext ==
    ASSUME DirTypeOK'
    PROVE  TellIsPosition' <=>
              \A d \in Streams \ tainted' :
                 stream'[d] # NULL /\ position'[stream'[d].fd] # NULL
                    => stream'[d].index = position'[stream'[d].fd]
BY DEF DirTypeOK, DIR, TellIsPosition, Usable, Open, Users

(* A stream moves its own handle.                                           *)
LEMMA StreamMoves ==
    ASSUME DirInv, NEW d \in Streams, Usable(d), NEW p \in 0 .. Entries, NEW k \in 0 .. MaxIndex,
           position' = [position EXCEPT ![stream[d].fd] = p],
           stream' = [stream EXCEPT ![d].index = k],
           d \notin tainted => k = p, StreamCall, UNCHANGED tainted
    PROVE  DirInv'
<1>1. stream[d] # NULL /\ position[stream[d].fd] # NULL
  BY UsableIs
<1>2. stream[d] \in DIR /\ stream[d].fd \in Descriptors
  BY <1>1, StreamFacts
<1>3. PICK r : r = [stream[d] EXCEPT !.index = k]
  OBVIOUS
<1>4. r \in DIR /\ r.fd = stream[d].fd /\ r.index = k
  BY <1>2, <1>3 DEF DIR
<1>5. stream' \in [Streams -> DIR \cup {NULL}] /\ stream'[d] = r
      /\ \A e \in Streams \ {d} : stream'[e] = stream[e]
  BY <1>3, <1>4, DirFacts
<1>6. /\ position' \in [Descriptors -> Place] /\ position'[stream[d].fd] = p
      /\ \A fd \in Descriptors \ {stream[d].fd} : position'[fd] = position[fd]
  BY <1>2, DirFacts DEF Place
<1>7. scan' = NULL /\ scanned' = NULL /\ tainted' = tainted
  BY DEF StreamCall
<1>8. DirTypeOK'
  BY <1>5, <1>6, <1>7, DirFacts DEF DirTypeOK, Place
<1>9. SharedTainted'
  BY <1>1, <1>4, <1>5, <1>7 DEF DirInv, SharedTainted
<1>10. TellIsPosition'
  <2>1. SUFFICES ASSUME NEW e \in Streams \ tainted, stream'[e] # NULL, position'[stream'[e].fd] # NULL
                 PROVE  stream'[e].index = position'[stream'[e].fd]
    BY <1>7, <1>8, TellIsNext
  <2>2. CASE e = d
    BY <1>4, <1>5, <1>6, <2>2
  <2>3. CASE e # d
    <3>1. stream[e] # NULL /\ stream'[e] = stream[e]
      BY <1>5, <2>1, <2>3
    <3>2. stream[e].fd # stream[d].fd
      BY <1>1, <2>3, <3>1 DEF DirInv, SharedTainted
    <3>3. stream[e].fd \in Descriptors
      BY <3>1, StreamFacts
    <3>4. position'[stream[e].fd] = position[stream[e].fd]
      BY <1>6, <3>2, <3>3
    <3> QED
      BY <2>1, <3>1, <3>4, TellIs DEF DirInv
  <2> QED
    BY <2>2, <2>3
<1> QED
  BY <1>7, <1>8, <1>9, <1>10 DEF DirInv, ScanInv, ScannedInv

LEMMA readdirStep ==
    ASSUME DirInv, NEW d \in Streams, readdir(d)
    PROVE  DirInv'
<1>1. /\ Usable(d) /\ Left(d) > 0 /\ stream[d].index < MaxIndex /\ StreamCall /\ UNCHANGED tainted
      /\ position' = [position EXCEPT ![stream[d].fd] = position[stream[d].fd] + 1]
      /\ stream' = [stream EXCEPT ![d].index = stream[d].index + 1]
  BY DEF readdir, Advance
<1>2. /\ stream[d] # NULL /\ stream[d].index \in 0 .. MaxIndex
      /\ position[stream[d].fd] \in 0 .. Entries
  BY <1>1, UsableIs, StreamFacts DEF Place
<1>3. PICK p \in 0 .. Entries : p = position[stream[d].fd] + 1
  BY <1>1, <1>2, DirFacts DEF Left
<1>4. PICK k \in 0 .. MaxIndex : k = stream[d].index + 1
  BY <1>1, <1>2, DirFacts
<1>5. d \notin tainted => k = p
  BY <1>1, <1>3, <1>4 DEF DirInv, TellIsPosition
<1> QED
  BY <1>1, <1>3, <1>4, <1>5, StreamMoves

LEMMA rewinddirStep ==
    ASSUME DirInv, NEW d \in Streams, rewinddir(d)
    PROVE  DirInv'
<1>1. /\ Usable(d) /\ StreamCall /\ UNCHANGED tainted
      /\ position' = [position EXCEPT ![stream[d].fd] = 0]
      /\ stream' = [stream EXCEPT ![d].index = 0]
  BY DEF rewinddir, Rewound
<1>2. PICK p \in 0 .. Entries : p = 0
  BY DirFacts
<1>3. PICK k \in 0 .. MaxIndex : k = 0
  BY DirFacts
<1> QED
  BY <1>1, <1>2, <1>3, StreamMoves

LEMMA SeekForwardStep ==
    ASSUME DirInv, NEW d \in Streams, NEW x \in 0 .. MaxIndex, SeekForward(d, x)
    PROVE  DirInv'
<1>1. Usable(d) /\ x > stream[d].index /\ StreamCall /\ UNCHANGED tainted
  BY DEF SeekForward
<1>2. PICK n \in 1 .. x - stream[d].index :
         /\ n <= Left(d)
         /\ position' = [position EXCEPT ![stream[d].fd] = position[stream[d].fd] + n]
         /\ stream' = [stream EXCEPT ![d].index = stream[d].index + n]
  BY DEF SeekForward, Advance
<1>3. /\ stream[d] # NULL /\ stream[d].index \in 0 .. MaxIndex
      /\ position[stream[d].fd] \in 0 .. Entries
  BY <1>1, UsableIs, StreamFacts DEF Place
<1>4. PICK p \in 0 .. Entries : p = position[stream[d].fd] + n
  BY <1>2, <1>3, DirFacts DEF Left
<1>5. PICK k \in 0 .. MaxIndex : k = stream[d].index + n
  BY <1>2, <1>3, DirFacts
<1>6. d \notin tainted => k = p
  BY <1>1, <1>4, <1>5 DEF DirInv, TellIsPosition
<1> QED
  BY <1>1, <1>2, <1>4, <1>5, <1>6, StreamMoves

LEMMA SeekBackStep ==
    ASSUME DirInv, NEW d \in Streams, NEW x \in 0 .. MaxIndex, SeekBack(d, x)
    PROVE  DirInv'
<1>1. Usable(d) /\ StreamCall /\ UNCHANGED tainted
  BY DEF SeekBack
<1>2. PICK n \in 0 .. Entries :
         /\ n <= x
         /\ position' = [position EXCEPT ![stream[d].fd] = n]
         /\ stream' = [stream EXCEPT ![d].index = n]
  BY DEF SeekBack
<1>3. n \in 0 .. MaxIndex
  BY <1>2, DirFacts
<1> QED
  BY <1>1, <1>2, <1>3, StreamMoves

LEMMA closedirStep ==
    ASSUME DirInv, NEW d \in Streams, closedir(d)
    PROVE  DirInv'
<1>1. /\ stream[d] # NULL /\ StreamCall /\ UNCHANGED tainted
      /\ position' = [position EXCEPT ![stream[d].fd] = NULL]
      /\ stream' = [stream EXCEPT ![d] = NULL]
  BY DEF closedir
<1>2. stream[d].fd \in Descriptors
  BY <1>1, StreamFacts
<1>3. /\ stream' \in [Streams -> DIR \cup {NULL}] /\ stream'[d] = NULL
      /\ \A e \in Streams \ {d} : stream'[e] = stream[e]
  BY <1>1, DirFacts
<1>4. /\ position' \in [Descriptors -> Place] /\ position'[stream[d].fd] = NULL
      /\ \A fd \in Descriptors \ {stream[d].fd} : position'[fd] = position[fd]
  BY <1>1, <1>2, DirFacts DEF Place
<1>5. scan' = NULL /\ scanned' = NULL /\ tainted' = tainted
  BY <1>1 DEF StreamCall
<1>6. DirTypeOK'
  BY <1>3, <1>4, <1>5, DirFacts DEF DirTypeOK, Place
<1>7. SharedTainted'
  BY <1>3, <1>5 DEF DirInv, SharedTainted
<1>8. TellIsPosition'
  <2>1. SUFFICES ASSUME NEW e \in Streams \ tainted, stream'[e] # NULL, position'[stream'[e].fd] # NULL
                 PROVE  stream'[e].index = position'[stream'[e].fd]
    BY <1>5, <1>6, TellIsNext
  <2>2. e # d /\ stream'[e] = stream[e] /\ stream[e] # NULL
    BY <1>3, <2>1
  <2>3. stream[e].fd \in Descriptors
    BY <2>2, StreamFacts
  <2>4. position'[stream[e].fd] = position[stream[e].fd]
    BY <1>4, <2>1, <2>2, <2>3
  <2> QED
    BY <2>1, <2>2, <2>4, TellIs DEF DirInv
<1> QED
  BY <1>5, <1>6, <1>7, <1>8 DEF DirInv, ScanInv, ScannedInv

(* A stream is made on a handle that is marked with all its streams, or at  *)
(* the start of one that no other stream has.                               *)
LEMMA StreamMade ==
    ASSUME DirInv, NEW d \in Streams, NEW fd \in Descriptors, stream[d] = NULL,
           stream' = [stream EXCEPT ![d] = [fd |-> fd, index |-> 0]], StreamCall,
           position' \in [Descriptors -> Place],
           \A g \in Descriptors \ {fd} : position'[g] = position[g],
           tainted' \subseteq Streams, \A e \in Streams \ {d} : e \in tainted => e \in tainted',
           Users(fd) \subseteq tainted',
           \/ d \in tainted'
           \/ Users(fd) = {} /\ position'[fd] = 0
    PROVE  DirInv'
<1>1. PICK r : r = [fd |-> fd, index |-> 0]
  OBVIOUS
<1>2. r \in DIR /\ r.fd = fd /\ r.index = 0
  BY <1>1, DirFacts DEF DIR
<1>3. /\ stream' \in [Streams -> DIR \cup {NULL}] /\ stream'[d] = r
      /\ \A e \in Streams \ {d} : stream'[e] = stream[e]
  BY <1>1, <1>2, DirFacts
<1>4. scan' = NULL /\ scanned' = NULL
  BY DEF StreamCall
<1>5. DirTypeOK'
  BY <1>3, <1>4, DirFacts DEF DirTypeOK, Place
<1>6. \A e \in Streams \ {d} : stream[e] # NULL /\ stream[e].fd = fd => e \in tainted' /\ Users(fd) # {}
  BY DEF Users
<1>7. SharedTainted'
  <2>1. SUFFICES ASSUME NEW a \in Streams, NEW b \in Streams, a # b, stream'[a] # NULL, stream'[b] # NULL,
                        stream'[a].fd = stream'[b].fd
                 PROVE  a \in tainted'
    BY DEF SharedTainted
  <2>2. CASE a = d
    BY <1>2, <1>3, <1>6, <2>1, <2>2
  <2>3. CASE b = d
    BY <1>2, <1>3, <1>6, <2>1, <2>3
  <2>4. CASE a # d /\ b # d
    BY <1>3, <2>1, <2>4 DEF DirInv, SharedTainted
  <2> QED
    BY <2>2, <2>3, <2>4
<1>8. TellIsPosition'
  <2>1. SUFFICES ASSUME NEW e \in Streams \ tainted', stream'[e] # NULL, position'[stream'[e].fd] # NULL
                 PROVE  stream'[e].index = position'[stream'[e].fd]
    BY <1>5, TellIsNext
  <2>2. CASE e = d
    BY <1>2, <1>3, <2>1, <2>2
  <2>3. CASE e # d
    <3>1. stream'[e] = stream[e] /\ stream[e] # NULL /\ e \notin tainted
      BY <1>3, <2>1, <2>3
    <3>2. stream[e].fd \in Descriptors /\ stream[e].fd # fd
      BY <1>6, <2>1, <2>3, <3>1, StreamFacts
    <3> QED
      BY <2>1, <3>1, <3>2, TellIs DEF DirInv
  <2> QED
    BY <2>2, <2>3
<1> QED
  BY <1>4, <1>5, <1>7, <1>8 DEF DirInv, ScanInv, ScannedInv

LEMMA opendirStep ==
    ASSUME DirInv, NEW d \in Streams, NEW fd \in Descriptors, opendir(d, fd)
    PROVE  DirInv'
<1>1. /\ stream[d] = NULL /\ StreamCall
      /\ position' = [position EXCEPT ![fd] = 0]
      /\ stream' = [stream EXCEPT ![d] = [fd |-> fd, index |-> 0]]
      /\ tainted' = IF Users(fd) = {} THEN tainted \ {d} ELSE tainted \cup Users(fd) \cup {d}
  BY DEF opendir
<1>2. /\ position' \in [Descriptors -> Place] /\ position'[fd] = 0
      /\ \A g \in Descriptors \ {fd} : position'[g] = position[g]
  BY <1>1, DirFacts DEF Place
<1>3. /\ tainted' \subseteq Streams /\ \A e \in Streams \ {d} : e \in tainted => e \in tainted'
      /\ Users(fd) \subseteq tainted'
      /\ d \in tainted' \/ Users(fd) = {}
  BY <1>1, DirFacts DEF Users
<1> QED
  BY <1>1, <1>2, <1>3, StreamMade

LEMMA fdopendirStep ==
    ASSUME DirInv, NEW d \in Streams, NEW fd \in Descriptors, fdopendir(d, fd)
    PROVE  DirInv'
<1>1. /\ stream[d] = NULL /\ StreamCall /\ UNCHANGED position
      /\ stream' = [stream EXCEPT ![d] = [fd |-> fd, index |-> 0]]
      /\ tainted' = tainted \cup Users(fd) \cup {d}
  BY DEF fdopendir
<1>2. /\ position' \in [Descriptors -> Place]
      /\ \A g \in Descriptors \ {fd} : position'[g] = position[g]
  BY <1>1, DirFacts
<1>3. /\ tainted' \subseteq Streams /\ \A e \in Streams \ {d} : e \in tainted => e \in tainted'
      /\ Users(fd) \subseteq tainted' /\ d \in tainted'
  BY <1>1, DirFacts DEF Users
<1> QED
  BY <1>1, <1>2, <1>3, StreamMade

-----------------------------------------------------------------------------
(* What scandir has collected.                                              *)

LEMMA CollectedNone ==
    ASSUME NEW sel
    PROVE  Collected(<<>>, sel, 0)
<1>1. sel \cap (1 .. 0) = {}
  OBVIOUS
<1>2. Cardinality(sel \cap (1 .. 0)) = 0
  BY <1>1, FS_EmptySet
<1> QED
  BY <1>1, <1>2 DEF Collected, Ascending

(* The next entry is not selected, or is appended.                          *)
LEMMA CollectedNext ==
    ASSUME NEW p \in Nat, NEW sel, NEW names \in Seq(1 .. Entries), Collected(names, sel, p)
    PROVE  /\ p + 1 \notin sel => Collected(names, sel, p + 1)
           /\ p + 1 \in sel => Collected(Append(names, p + 1), sel, p + 1)
<1>1. PICK S : S = sel \cap (1 .. p)
  OBVIOUS
<1>2. /\ {names[i] : i \in DOMAIN names} = S /\ Ascending(names) /\ Len(names) = Cardinality(S)
  BY <1>1 DEF Collected
<1>3. ASSUME p + 1 \notin sel
      PROVE  Collected(names, sel, p + 1)
  <2>1. sel \cap (1 .. p + 1) = S
    BY <1>1, <1>3
  <2> QED
    BY <1>2, <2>1 DEF Collected
<1>4. ASSUME p + 1 \in sel
      PROVE  Collected(Append(names, p + 1), sel, p + 1)
  <2>1. PICK x : x = p + 1
    OBVIOUS
  <2>2. sel \cap (1 .. p + 1) = S \cup {x} /\ x \notin S
    BY <1>1, <1>4, <2>1
  <2>3. IsFiniteSet(1 .. p)
    BY FS_Interval
  <2>4. IsFiniteSet(S)
    BY <1>1, <2>3, FS_Subset
  <2>5. Cardinality(S \cup {x}) = Cardinality(S) + 1
    BY <2>2, <2>4, FS_AddElement
  <2>6. PICK s : s = Append(names, x)
    OBVIOUS
  <2>7. PICK n \in Nat : n = Len(names)
    OBVIOUS
  <2>8. /\ DOMAIN s = 1 .. n + 1 /\ Len(s) = n + 1 /\ s[n + 1] = x
        /\ DOMAIN names = 1 .. n /\ \A i \in 1 .. n : s[i] = names[i]
    BY <2>1, <2>6, <2>7
  <2>9. {s[i] : i \in DOMAIN s} = S \cup {x}
    BY <1>2, <2>8
  <2>10. \A i \in 1 .. n : names[i] \in S
    BY <1>2, <2>8
  <2>11. \A i \in 1 .. n : names[i] \in Nat /\ names[i] < x
    BY <1>1, <2>1, <2>10
  <2>12. Ascending(s)
    <3>1. SUFFICES ASSUME NEW i \in 1 .. n + 1, NEW j \in 1 .. n + 1, i < j
                   PROVE  s[i] < s[j]
      BY <2>8 DEF Ascending
    <3>2. i \in 1 .. n
      BY <3>1
    <3>3. CASE j = n + 1
      BY <2>8, <2>11, <3>2, <3>3
    <3>4. CASE j \in 1 .. n
      BY <1>2, <2>8, <3>1, <3>2, <3>4 DEF Ascending
    <3> QED
      BY <3>3, <3>4
  <2> QED
    <3>1. Len(s) = Cardinality(S \cup {x})
      BY <1>2, <2>5, <2>7, <2>8
    <3>2. sel \cap (1 .. x) = S \cup {x}
      BY <2>1, <2>2
    <3>3. Collected(s, sel, x)
      BY <2>9, <2>12, <3>1, <3>2 DEF Collected
    <3> QED
      BY <2>1, <2>6, <3>3
<1> QED
  BY <1>3, <1>4

LEMMA CollectedAll ==
    ASSUME NEW p \in Nat, NEW sel, sel \subseteq 1 .. p, NEW names, Collected(names, sel, p)
    PROVE  Len(names) = Cardinality(sel)
<1>1. sel \cap (1 .. p) = sel
  OBVIOUS
<1> QED
  BY <1>1 DEF Collected

-----------------------------------------------------------------------------
(* The steps of scandir.                                                    *)

LEMMA ScanFacts ==
    ASSUME DirInv, scan # NULL
    PROVE  /\ scan \in Scan /\ scan.fd \in Descriptors /\ scan.sel \subseteq 1 .. Entries
           /\ scan.names \in Seq(1 .. Entries) /\ scan.len \in Nat /\ scan.broken \in BOOLEAN
           /\ position[scan.fd] \in 0 .. Entries
           /\ Len(scan.names) <= scan.len
           /\ Collected(scan.names, scan.sel, position[scan.fd])
BY DirFacts DEF Scan, DirInv, ScanInv, Place

(* A handle all of whose streams are marked may move.                       *)
LEMMA HandleMoves ==
    ASSUME DirInv, DirTypeOK', NEW fd \in Descriptors, UNCHANGED stream, tainted \subseteq tainted',
           \A g \in Descriptors \ {fd} : position'[g] = position[g],
           \A d \in Streams : stream[d] # NULL /\ stream[d].fd = fd => d \in tainted'
    PROVE  SharedTainted' /\ TellIsPosition'
<1>1. SharedTainted'
  BY DEF DirInv, SharedTainted
<1>2. SUFFICES ASSUME NEW e \in Streams \ tainted', stream'[e] # NULL, position'[stream'[e].fd] # NULL
               PROVE  stream'[e].index = position'[stream'[e].fd]
  BY <1>1, TellIsNext
<1>3. stream[e] # NULL /\ e \notin tainted /\ stream[e].fd \in Descriptors /\ stream[e].fd # fd
  BY <1>2, StreamFacts
<1> QED
  BY <1>2, <1>3, TellIs DEF DirInv

LEMMA ScanStartStep ==
    ASSUME DirInv, NEW fd \in Descriptors, ScanStart(fd)
    PROVE  DirInv'
<1>1. /\ position' = [position EXCEPT ![fd] = 0] /\ tainted' = tainted \cup Users(fd)
      /\ scanned' = NULL /\ UNCHANGED stream
  BY DEF ScanStart
<1>2. PICK S \in SUBSET (1 .. Entries) :
         scan' = [fd |-> fd, sel |-> S, names |-> <<>>, len |-> 0, broken |-> FALSE]
  BY DEF ScanStart
<1>3. /\ scan' \in Scan /\ scan'.fd = fd /\ scan'.sel = S /\ scan'.names = <<>> /\ scan'.len = 0
  BY <1>2 DEF Scan
<1>4. /\ position' \in [Descriptors -> Place] /\ position'[fd] = 0
      /\ \A g \in Descriptors \ {fd} : position'[g] = position[g]
  BY <1>1, DirFacts DEF Place
<1>5. /\ tainted' \subseteq Streams /\ tainted \subseteq tainted'
      /\ \A d \in Streams : stream[d] # NULL /\ stream[d].fd = fd => d \in tainted'
  BY <1>1, DirFacts DEF Users
<1>6. DirTypeOK'
  BY <1>1, <1>3, <1>4, <1>5, DirFacts DEF DirTypeOK, Place
<1>7. SharedTainted' /\ TellIsPosition'
  BY <1>1, <1>4, <1>5, <1>6, HandleMoves
<1>8. Collected(<<>>, S, 0)
  BY CollectedNone
<1>9. ScanInv'
  BY <1>1, <1>3, <1>4, <1>5, <1>8, DirFacts DEF ScanInv
<1> QED
  BY <1>1, <1>6, <1>7, <1>9 DEF DirInv, ScannedInv

(* After a turn the names fit, and are what was selected of one entry more. *)
LEMMA ScanTurnStep ==
    ASSUME DirInv, ScanTurn
    PROVE  DirInv'
<1>1. /\ scan # NULL /\ NextEntry(scan.fd) <= Entries
      /\ position' = [position EXCEPT ![scan.fd] = position[scan.fd] + 1]
      /\ scan' = IF NextEntry(scan.fd) \in scan.sel
                   THEN [scan EXCEPT !.names = Append(scan.names, NextEntry(scan.fd)),
                                     !.len = Room(scan.len, Len(scan.names))]
                   ELSE scan
      /\ UNCHANGED <<stream, tainted, scanned>>
  BY DEF ScanTurn, Scanning
<1>2. PICK p \in Nat : p = position[scan.fd]
  BY <1>1, ScanFacts
<1>3. p + 1 \in 1 .. Entries /\ NextEntry(scan.fd) = p + 1
  BY <1>1, <1>2, DirFacts DEF NextEntry
<1>4. /\ position' \in [Descriptors -> Place] /\ position'[scan.fd] = p + 1
      /\ \A g \in Descriptors \ {scan.fd} : position'[g] = position[g]
  BY <1>1, <1>2, <1>3, ScanFacts, DirFacts DEF Place
<1>5. PICK ns : ns = scan.names
  OBVIOUS
<1>6. PICK sel : sel = scan.sel
  OBVIOUS
<1>7. ns \in Seq(1 .. Entries) /\ Collected(ns, sel, p)
  BY <1>1, <1>2, <1>5, <1>6, ScanFacts
<1>8. /\ p + 1 \notin sel => Collected(ns, sel, p + 1)
      /\ p + 1 \in sel => Collected(Append(ns, p + 1), sel, p + 1)
  BY <1>7, CollectedNext
<1>9. /\ scan' \in Scan /\ scan'.fd = scan.fd /\ Len(scan'.names) <= scan'.len
      /\ Collected(scan'.names, scan'.sel, p + 1)
  <2>1. CASE p + 1 \notin sel
    BY <1>1, <1>3, <1>5, <1>6, <1>8, <2>1, ScanFacts
  <2>2. CASE p + 1 \in sel
    <3>1. PICK len \in Nat : len = Room(scan.len, Len(ns)) /\ Len(ns) + 1 <= len
      BY <1>1, <1>5, <1>7, ScanFacts DEF Room
    <3>2. PICK ms : ms = Append(ns, p + 1)
      OBVIOUS
    <3>3. ms \in Seq(1 .. Entries) /\ Len(ms) = Len(ns) + 1
      BY <1>3, <1>7, <3>2
    <3>4. scan' = [scan EXCEPT !.names = ms, !.len = len]
      BY <1>1, <1>3, <1>5, <1>6, <2>2, <3>1, <3>2
    <3>5. /\ scan' \in Scan /\ scan'.fd = scan.fd /\ scan'.names = ms /\ scan'.len = len
          /\ scan'.sel = sel
      BY <1>1, <1>6, <3>3, <3>4, ScanFacts DEF Scan
    <3> QED
      BY <1>8, <2>2, <3>1, <3>2, <3>3, <3>5
  <2> QED
    BY <2>1, <2>2
<1>10. DirTypeOK'
  BY <1>1, <1>4, <1>9, DirFacts DEF DirTypeOK, Place
<1>11. \A d \in Streams : stream[d] # NULL /\ stream[d].fd = scan.fd => d \in tainted'
  BY <1>1 DEF DirInv, ScanInv
<1>12. PICK fd \in Descriptors : fd = scan.fd
  BY <1>1, ScanFacts
<1>13. SharedTainted' /\ TellIsPosition'
  BY <1>1, <1>4, <1>10, <1>11, <1>12, HandleMoves
<1>14. ScanInv'
  BY <1>1, <1>2, <1>4, <1>9, <1>11, DirFacts DEF ScanInv
<1> QED
  BY <1>1, <1>10, <1>13, <1>14 DEF DirInv, ScannedInv

LEMMA ScanBreakStep ==
    ASSUME DirInv, ScanBreak
    PROVE  DirInv'
<1>1. /\ scan # NULL /\ scan' = [scan EXCEPT !.broken = TRUE]
      /\ UNCHANGED <<position, stream, tainted, scanned>>
  BY DEF ScanBreak, Scanning
<1>2. /\ scan' \in Scan /\ scan'.fd = scan.fd /\ scan'.sel = scan.sel
      /\ scan'.names = scan.names /\ scan'.len = scan.len
  BY <1>1, ScanFacts DEF Scan
<1>3. DirTypeOK'
  BY <1>1, <1>2, DirFacts DEF DirTypeOK, Place
<1>4. SharedTainted' /\ ScannedInv'
  BY <1>1 DEF DirInv, SharedTainted, ScannedInv
<1>5. TellIsPosition'
  BY <1>1, <1>3, TellIs, TellIsNext DEF DirInv
<1>6. ScanInv'
  BY <1>1, <1>2 DEF DirInv, ScanInv
<1> QED
  BY <1>3, <1>4, <1>5, <1>6 DEF DirInv

(* A loop that was not broken off has read every entry.                     *)
LEMMA ScanEndStep ==
    ASSUME DirInv, NEW closeFails \in BOOLEAN, ScanEnd(closeFails)
    PROVE  DirInv'
<1>1. /\ scan # NULL /\ scan' = NULL /\ UNCHANGED <<stream, tainted>>
      /\ scan.broken \/ NextEntry(scan.fd) > Entries
      /\ position' = IF scan.fd = 0 THEN position ELSE [position EXCEPT ![scan.fd] = NULL]
      /\ scanned' = NULL \/ scanned' = scan
  BY DEF ScanEnd
<1>2. PICK fd \in Descriptors : fd = scan.fd
  BY <1>1, ScanFacts
<1>3. /\ position' \in [Descriptors -> Place]
      /\ \A g \in Descriptors \ {fd} : position'[g] = position[g]
  BY <1>1, <1>2, DirFacts DEF Place
<1>4. DirTypeOK'
  BY <1>1, <1>3, DirFacts DEF DirTypeOK, Place
<1>5. \A d \in Streams : stream[d] # NULL /\ stream[d].fd = fd => d \in tainted'
  BY <1>1, <1>2 DEF DirInv, ScanInv
<1>6. SharedTainted' /\ TellIsPosition'
  BY <1>1, <1>3, <1>4, <1>5, HandleMoves
<1>7. PICK p \in 0 .. Entries : p = position[scan.fd]
  BY <1>1, ScanFacts
<1>8. /\ {scan.names[i] : i \in DOMAIN scan.names} \subseteq scan.sel
      /\ Ascending(scan.names)
  BY <1>1, ScanFacts DEF Collected
<1>9. ASSUME ~scan.broken
      PROVE  Len(scan.names) = Cardinality(scan.sel)
  <2>1. p = Entries
    BY <1>1, <1>7, <1>9, DirFacts DEF NextEntry
  <2>2. PICK sel : sel = scan.sel
    OBVIOUS
  <2>3. PICK ns : ns = scan.names
    OBVIOUS
  <2>4. p \in Nat /\ sel \subseteq 1 .. p /\ Collected(ns, sel, p)
    BY <1>1, <1>7, <2>1, <2>2, <2>3, ScanFacts
  <2>5. Len(ns) = Cardinality(sel)
    BY <2>4, CollectedAll
  <2> QED
    BY <2>2, <2>3, <2>5
<1>10. ScannedInv'
  BY <1>1, <1>8, <1>9 DEF ScannedInv
<1> QED
  BY <1>1, <1>4, <1>6, <1>10 DEF DirInv, ScanInv

-----------------------------------------------------------------------------
(* The results.                                                             *)

LEMMA DirInitInv == DirInit => DirInv
<1>1. SUFFICES ASSUME DirInit
               PROVE  DirInv
  OBVIOUS
<1>2. DirTypeOK
  BY <1>1, DirAssumption DEF DirInit, DirTypeOK
<1>3. TellIsPosition
  BY <1>1, <1>2, TellIs DEF DirInit
<1> QED
  BY <1>1, <1>2, <1>3 DEF DirInit, DirInv, SharedTainted, ScanInv, ScannedInv

LEMMA DirNextInv ==
    ASSUME DirInv, [DirNext]_dirVars
    PROVE  DirInv'
<1>1. CASE UNCHANGED dirVars
  <2>1. DirTypeOK' /\ SharedTainted' /\ ScanInv' /\ ScannedInv'
    BY <1>1 DEF dirVars, DirInv, DirTypeOK, SharedTainted, ScanInv, ScannedInv
  <2>2. TellIsPosition'
    BY <1>1, <2>1, TellIs, TellIsNext DEF dirVars, DirInv
  <2> QED
    BY <2>1, <2>2 DEF DirInv
<1>2. CASE \E d \in Streams, fd \in Descriptors : opendir(d, fd) \/ fdopendir(d, fd)
  BY <1>2, opendirStep, fdopendirStep
<1>3. CASE \E d \in Streams : readdir(d) \/ rewinddir(d) \/ closedir(d)
  BY <1>3, readdirStep, rewinddirStep, closedirStep
<1>4. CASE \E d \in Streams, k \in 0 .. MaxIndex : SeekForward(d, k) \/ SeekBack(d, k)
  BY <1>4, SeekForwardStep, SeekBackStep
<1>5. CASE \E fd \in Descriptors : ScanStart(fd)
  BY <1>5, ScanStartStep
<1>6. CASE ScanTurn \/ ScanBreak
  BY <1>6, ScanTurnStep, ScanBreakStep
<1>7. CASE \E closeFails \in BOOLEAN : ScanEnd(closeFails)
  BY <1>7, ScanEndStep
<1> QED
  BY <1>1, <1>2, <1>3, <1>4, <1>5, <1>6, <1>7 DEF DirNext

LEMMA DirInvariance == DirSpec => []DirInv
<1>1. DirInv /\ [DirNext]_dirVars => DirInv'
  BY DirNextInv
<1> QED
  BY <1>1, DirInitInv, PTL DEF DirSpec

(* telldir tells the truth: the index of every stream that has its handle   *)
(* for itself is the number of entries read from that handle, whatever      *)
(* reads, rewinds, seeks and closes of dirent/ came before.                 *)
THEOREM TellCorrect == DirSpec => []TellIsPosition
<1>1. DirInv => TellIsPosition
  BY DEF DirInv
<1> QED
  BY <1>1, DirInvariance, PTL

(* scandir never stores past the capacity it allocated, and the list it     *)
(* returns holds the selected entries, each once, in order, and all of them *)
(* unless its loop was broken off.                                          *)
THEOREM ScanCorrect == DirSpec => []ScanWhole
<1>1. DirInv => ScanWhole
  BY DEF DirInv, ScanInv, ScannedInv, ScanWhole
<1> QED
  BY <1>1, DirInvariance, PTL

-----------------------------------------------------------------------------
(* A step of the library is one of each part, or leaves it alone.           *)
LEMMA LibraryStep ==
    ASSUME [LibraryNext]_libVars
    PROVE  /\ [NetNext]_netVars
           /\ [GaiNext]_<<netVars, gaiVars>> \/ UNCHANGED gaiVars
           /\ [EnvNext]_envVars
           /\ [SigNext]_sigVars
           /\ [RndNext]_rndVars
           /\ [DirNext]_dirVars
           /\ [PathNext]_pathVars
           /\ [InetNext]_inetVars
           /\ [PollNext]_pollVars
<1>1. CASE UNCHANGED libVars
  BY <1>1 DEF libVars
<1>2. CASE LibraryNext
  <2>1. CASE GaiNext /\ UNCHANGED <<envVars, sigVars, rndVars, dirVars, pathVars, inetVars, pollVars>>
    BY <2>1, GaiStepIsNet
  <2> QED
    BY <1>2, <2>1 DEF LibraryNext
<1> QED
  BY <1>1, <1>2

(* Composed, every part still implements its own specification: no part     *)
(* writes to the state of another, but for the resolver, whose steps are    *)
(* ones that the network initialisation allows its clients.                 *)
THEOREM LibraryImplementsParts ==
    LibrarySpec =>
        NetSpec /\ EnvSpec /\ SigSpec /\ RndSpec /\ DirSpec /\ PathSpec /\ InetSpec /\ PollSpec
<1>1. LibraryInit => /\ NetStart /\ GaiStart /\ EnvInit /\ SigInit /\ RndInit /\ DirInit
                     /\ PathInit /\ InetInit /\ PollInit
  BY DEF LibraryInit
<1>2. [LibraryNext]_libVars =>
         /\ [NetNext]_netVars /\ [EnvNext]_envVars /\ [SigNext]_sigVars /\ [RndNext]_rndVars
         /\ [DirNext]_dirVars /\ [PathNext]_pathVars /\ [InetNext]_inetVars /\ [PollNext]_pollVars
  BY LibraryStep
<1> QED
  BY <1>1, <1>2, PTL DEF LibrarySpec, NetSpec, EnvSpec, SigSpec, RndSpec, DirSpec, PathSpec, InetSpec, PollSpec

-----------------------------------------------------------------------------
(* What poll and select answer.                                             *)

LEMMA DisjointUnion ==
    ASSUME NEW S, NEW T, IsFiniteSet(S), IsFiniteSet(T), S \cap T = {}
    PROVE  IsFiniteSet(S \cup T) /\ Cardinality(S \cup T) = Cardinality(S) + Cardinality(T)
<1>1. PICK I : I = S \cap T
  OBVIOUS
<1>2. Cardinality(S) \in Nat /\ Cardinality(T) \in Nat
  BY FS_CardinalityType
<1>3. Cardinality(I) = 0
  BY <1>1, FS_EmptySet
<1>4. PICK U : U = S \cup T
  OBVIOUS
<1>5. IsFiniteSet(U) /\ Cardinality(U) = Cardinality(S) + Cardinality(T) - Cardinality(I)
  BY <1>1, <1>4, FS_Union
<1>6. Cardinality(U) = Cardinality(S) + Cardinality(T)
  BY <1>2, <1>3, <1>5
<1> QED
  BY <1>4, <1>5, <1>6

(* Bits of one set, as pairs.                                               *)
LEMMA PairsWith ==
    ASSUME NEW x, NEW S, IsFiniteSet(S)
    PROVE  IsFiniteSet({x} \X S) /\ Cardinality({x} \X S) = Cardinality(S)
<1>1. PICK X : X = {x}
  OBVIOUS
<1>2. IsFiniteSet(X) /\ Cardinality(X) = 1
  BY <1>1, FS_Singleton
<1>3. Cardinality(S) \in Nat
  BY FS_CardinalityType
<1>4. IsFiniteSet(X \X S) /\ Cardinality(X \X S) = Cardinality(X) * Cardinality(S)
  BY <1>2, FS_Product
<1> QED
  BY <1>1, <1>2, <1>3, <1>4

(* The elements that report are regular files and sockets, none both.       *)
LEMMA PollCounts ==
    ASSUME NEW array \in Arrays, NEW wanted, NEW things,
           things = [i \in DOMAIN array |-> array[i].fd],
           NEW events \in EpollReports(Registered(things, wanted), wanted)
    PROVE  PollRes(array, events)
              = Cardinality({i \in DOMAIN array : PollRevents(array, events)[i] # {}})
<1>1. PICK n \in Nat : DOMAIN array = 1 .. n
  BY PollAssumption DEF Arrays
<1>2. IsFiniteSet(1 .. n)
  BY FS_Interval
<1>3. DOMAIN events = Registered(things, wanted)
  BY DEF EpollReports
<1>4. \A i \in DOMAIN events : i \in DOMAIN array /\ array[i].fd \in Sockets
  BY <1>3 DEF Registered
<1>5. PICK F : F = FilesReady(array)
  OBVIOUS
<1>6. PICK E : E = {i \in DOMAIN events : events[i] # {}}
  OBVIOUS
<1>7. F \subseteq 1 .. n /\ E \subseteq 1 .. n
  BY <1>1, <1>4, <1>5, <1>6 DEF FilesReady
<1>8. IsFiniteSet(F) /\ IsFiniteSet(E)
  BY <1>2, <1>7, FS_Subset
<1>9. \A i \in DOMAIN events : i \notin F
  BY <1>4, <1>5, PollAssumption DEF FilesReady
<1>10. {i \in DOMAIN array : PollRevents(array, events)[i] # {}} = F \cup E
  <2>1. ASSUME NEW i \in DOMAIN array
        PROVE  PollRevents(array, events)[i] # {} <=> i \in F \cup E
    <3>1. CASE i \in DOMAIN events
      <4>1. i \in DOMAIN events /\ i \notin FilesReady(array)
        BY <1>5, <1>9, <3>1
      <4>2. PollRevents(array, events)[i] = events[i]
        BY <4>1, Zenon DEF PollRevents
      <4> QED
        BY <1>6, <1>9, <3>1, <4>2
    <3>2. CASE i \notin DOMAIN events /\ i \in F
      <4>1. array[i].events # {}
        BY <1>5, <3>2 DEF FilesReady
      <4>2. i \notin DOMAIN events /\ i \in FilesReady(array)
        BY <1>5, <3>2
      <4>3. PollRevents(array, events)[i] = array[i].events
        BY <4>2, Zenon DEF PollRevents
      <4> QED
        BY <3>2, <4>1, <4>3
    <3>3. CASE i \notin DOMAIN events /\ i \notin F
      BY <1>5, <1>6, <3>3 DEF PollRevents
    <3> QED
      BY <3>1, <3>2, <3>3
  <2> QED
    BY <1>1, <1>7, <2>1
<1>11. F \cap E = {}
  BY <1>6, <1>9
<1>12. Cardinality(F \cup E) = Cardinality(F) + Cardinality(E)
  BY <1>8, <1>11, DisjointUnion
<1> QED
  BY <1>5, <1>6, <1>10, <1>12 DEF PollRes

(* The bits of the sets, counted as pairs of a set and a descriptor.        *)
LEMMA SelectCounts ==
    ASSUME NEW sets \in FdSets, NEW events, DOMAIN events \subseteq Fds, ~SelectFaults(sets, events)
    PROVE  SelectRes(events)
              = Cardinality({b \in Selectable \X Fds :
                    b[1] \in DOMAIN sets /\ b[2] \in SelectSets(sets, events)[b[1]]})
<1>1. IsFiniteSet(Fds)
  BY PollAssumption, FS_Interval DEF Fds
<1>2. PICK I : I = SelectBits(events, "IN")
  OBVIOUS
<1>3. PICK O : O = SelectBits(events, "OUT")
  OBVIOUS
<1>4. PICK R : R = SelectBits(events, "ERR")
  OBVIOUS
<1>5. I \subseteq Fds /\ O \subseteq Fds /\ R \subseteq Fds
  BY <1>2, <1>3, <1>4 DEF SelectBits
<1>6. IsFiniteSet(I) /\ IsFiniteSet(O) /\ IsFiniteSet(R)
  BY <1>1, <1>5, FS_Subset
<1>7. PICK PI : PI = {"IN"} \X I
  OBVIOUS
<1>8. PICK PO : PO = {"OUT"} \X O
  OBVIOUS
<1>9. PICK PR : PR = {"ERR"} \X R
  OBVIOUS
<1>10. /\ IsFiniteSet(PI) /\ Cardinality(PI) = Cardinality(I)
       /\ IsFiniteSet(PO) /\ Cardinality(PO) = Cardinality(O)
       /\ IsFiniteSet(PR) /\ Cardinality(PR) = Cardinality(R)
  BY <1>6, <1>7, <1>8, <1>9, PairsWith
<1>11. PI \cap PO = {} /\ (PI \cup PO) \cap PR = {}
  BY <1>7, <1>8, <1>9
<1>12. IsFiniteSet(PI \cup PO) /\ Cardinality(PI \cup PO) = Cardinality(I) + Cardinality(O)
  BY <1>10, <1>11, DisjointUnion
<1>13. Cardinality((PI \cup PO) \cup PR) = Cardinality(I) + Cardinality(O) + Cardinality(R)
  BY <1>10, <1>11, <1>12, DisjointUnion
<1>14. PICK B : B = {b \in Selectable \X Fds :
                       b[1] \in DOMAIN sets /\ b[2] \in SelectSets(sets, events)[b[1]]}
  OBVIOUS
<1>15. DOMAIN sets \subseteq Selectable
  BY DEF FdSets
<1>16. \A e \in Selectable : e \notin DOMAIN sets => SelectBits(events, e) = {}
  BY DEF SelectFaults
<1>17. ASSUME NEW e \in Selectable, NEW fd \in Fds
       PROVE  <<e, fd>> \in B <=> fd \in SelectBits(events, e)
  <2>1. CASE e \in DOMAIN sets
    BY <1>14, <2>1 DEF SelectSets
  <2>2. CASE e \notin DOMAIN sets
    BY <1>14, <1>16, <2>2
  <2> QED
    BY <2>1, <2>2
<1>18. \A b \in B : b \in Selectable \X Fds /\ b = <<b[1], b[2]>>
  BY <1>14
<1>19. B = (PI \cup PO) \cup PR
  <2>1. ASSUME NEW b \in B
        PROVE  b \in (PI \cup PO) \cup PR
    BY <1>2, <1>3, <1>4, <1>7, <1>8, <1>9, <1>17, <1>18 DEF Selectable
  <2>2. ASSUME NEW b \in (PI \cup PO) \cup PR
        PROVE  b \in B
    BY <1>2, <1>3, <1>4, <1>5, <1>7, <1>8, <1>9, <1>17 DEF Selectable
  <2> QED
    BY <2>1, <2>2
<1> QED
  BY <1>2, <1>3, <1>4, <1>13, <1>14, <1>19 DEF SelectRes

PolledRight ==
    (polled # NULL /\ polled.res # -1) =>
        polled.res = Cardinality({i \in DOMAIN polled.array : polled.revents[i] # {}})

SelectedRight(r) ==
    /\ r.faulted => "ERR" \notin DOMAIN r.given
    /\ (r.res # -1 /\ ~r.faulted) =>
           /\ r.res = Cardinality({b \in Selectable \X Fds :
                                       b[1] \in DOMAIN r.sets /\ b[2] \in r.sets[b[1]]})
           /\ \A e \in (DOMAIN r.given) \ {"ERR"} : r.sets[e] \subseteq r.given[e]

LEMMA ReadyIs == ReadyCounted <=> PolledRight /\ (selected # NULL => SelectedRight(selected))
BY DEF ReadyCounted, PolledRight, SelectedRight

LEMMA PollStep ==
    ASSUME ReadyCounted, NEW array \in Arrays, Poll(array)
    PROVE  ReadyCounted'
<1>1. PICK things : things = [i \in DOMAIN array |-> array[i].fd]
  OBVIOUS
<1>2. PICK wanted : wanted = [i \in DOMAIN array |-> array[i].events]
  OBVIOUS
<1>3. /\ \/ \E events \in EpollReports(Registered(things, wanted), wanted) :
               polled' = [array |-> array, revents |-> PollRevents(array, events),
                          res |-> PollRes(array, events)]
         \/ polled' = [array |-> array, revents |-> PollRevents(array, <<>>), res |-> -1]
      /\ selected' = selected
  BY <1>1, <1>2 DEF Poll
<1>4. PolledRight'
  <2>1. CASE polled' = [array |-> array, revents |-> PollRevents(array, <<>>), res |-> -1]
    BY <2>1 DEF PolledRight
  <2>2. ASSUME NEW events \in EpollReports(Registered(things, wanted), wanted),
               polled' = [array |-> array, revents |-> PollRevents(array, events),
                          res |-> PollRes(array, events)]
        PROVE  PolledRight'
    <3>1. PollRes(array, events)
             = Cardinality({i \in DOMAIN array : PollRevents(array, events)[i] # {}})
      BY <1>1, PollCounts
    <3> QED
      BY <2>2, <3>1 DEF PolledRight
  <2> QED
    BY <1>3, <2>1, <2>2
<1> QED
  BY <1>3, <1>4, ReadyIs DEF ReadyCounted, PolledRight

(* An event nobody asked for is an error or a hangup.                       *)
LEMMA SelectStep ==
    ASSUME ReadyCounted, NEW sets \in FdSets, NEW things \in [Fds -> Things], Select(sets, things)
    PROVE  ReadyCounted'
<1>1. PICK wanted : wanted = [fd \in Fds |-> {e \in DOMAIN sets : fd \in sets[e]}]
  OBVIOUS
<1>2. /\ \/ \E events \in EpollReports(Registered(things, wanted), wanted) :
               selected' = [given |-> sets, sets |-> SelectSets(sets, events),
                            faulted |-> SelectFaults(sets, events), res |-> SelectRes(events)]
         \/ selected' = [given |-> sets, sets |-> sets, faulted |-> FALSE, res |-> -1]
      /\ polled' = polled
  BY <1>1 DEF Select
<1>3. PICK r : r = selected'
  OBVIOUS
<1>4. SelectedRight(r)
  <2>1. CASE selected' = [given |-> sets, sets |-> sets, faulted |-> FALSE, res |-> -1]
    BY <1>3, <2>1 DEF SelectedRight
  <2>2. ASSUME NEW events \in EpollReports(Registered(things, wanted), wanted),
               selected' = [given |-> sets, sets |-> SelectSets(sets, events),
                            faulted |-> SelectFaults(sets, events), res |-> SelectRes(events)]
        PROVE  SelectedRight(r)
    <3>1. /\ r.given = sets /\ r.sets = SelectSets(sets, events)
          /\ r.faulted = SelectFaults(sets, events) /\ r.res = SelectRes(events)
      BY <1>3, <2>2
    <3>2. DOMAIN events \subseteq Fds
      BY DEF EpollReports, Registered
    <3>3. \A fd \in DOMAIN events : events[fd] \subseteq wanted[fd] \cup {"ERR", "HUP"}
      BY DEF EpollReports
    <3>4. \A e \in Selectable \ {"ERR"} : \A fd \in SelectBits(events, e) : e \in DOMAIN sets /\ fd \in sets[e]
      BY <1>1, <3>2, <3>3 DEF Selectable, SelectBits
    <3>5. SelectFaults(sets, events) => "ERR" \notin DOMAIN sets
      BY <3>4 DEF SelectFaults
    <3>6. DOMAIN sets \subseteq Selectable
      BY DEF FdSets
    <3>7. \A e \in (DOMAIN sets) \ {"ERR"} : SelectSets(sets, events)[e] \subseteq sets[e]
      BY <3>4, <3>6 DEF SelectSets
    <3>8. DOMAIN SelectSets(sets, events) = DOMAIN sets
      BY DEF SelectSets
    <3>9. ~SelectFaults(sets, events) =>
             SelectRes(events)
                = Cardinality({b \in Selectable \X Fds :
                      b[1] \in DOMAIN sets /\ b[2] \in SelectSets(sets, events)[b[1]]})
      BY <3>2, SelectCounts
    <3> QED
      BY <3>1, <3>5, <3>7, <3>8, <3>9 DEF SelectedRight
  <2> QED
    BY <1>2, <2>1, <2>2
<1>5. PolledRight'
  BY <1>2, ReadyIs DEF PolledRight
<1> QED
  BY <1>3, <1>4, <1>5 DEF ReadyCounted, PolledRight, SelectedRight

(* poll returns the number of elements that report, regular files and       *)
(* sockets together; select the number of bits it leaves, and it writes     *)
(* through a NULL set only for an error nobody asked about.                 *)
THEOREM PollCorrect == PollSpec => []ReadyCounted
<1>1. PollInit => ReadyCounted
  BY DEF PollInit, ReadyCounted
<1>2. ReadyCounted /\ [PollNext]_pollVars => ReadyCounted'
  <2>1. SUFFICES ASSUME ReadyCounted, [PollNext]_pollVars
                 PROVE  ReadyCounted'
    OBVIOUS
  <2>2. CASE UNCHANGED pollVars
    BY <2>1, <2>2 DEF pollVars, ReadyCounted
  <2>3. CASE PollReturns
    BY <2>3 DEF PollReturns, ReadyCounted
  <2>4. CASE \E array \in Arrays : Poll(array)
    BY <2>1, <2>4, PollStep
  <2>5. CASE \E sets \in FdSets, things \in [Fds -> Things] : Select(sets, things)
    BY <2>1, <2>5, SelectStep
  <2> QED
    BY <2>1, <2>2, <2>3, <2>4, <2>5 DEF PollNext
<1> QED
  BY <1>1, <1>2, PTL DEF PollSpec

LEMMA CountWithin ==
    ASSUME NEW n \in Nat, NEW S, S \subseteq 1 .. n
    PROVE  Cardinality(S) \in Nat /\ Cardinality(S) <= n
<1>1. PICK T : T = 1 .. n
  OBVIOUS
<1>2. 1 \in Int /\ n \in Int
  OBVIOUS
<1>3. IsFiniteSet(T) /\ Cardinality(T) = IF 1 > n THEN 0 ELSE n - 1 + 1
  BY <1>1, <1>2, FS_Interval
<1>4. Cardinality(T) = n
  BY <1>3
<1>5. IsFiniteSet(S) /\ Cardinality(S) <= Cardinality(T)
  BY <1>1, <1>3, FS_Subset
<1> QED
  BY <1>4, <1>5, FS_CardinalityType

LEMMA CountBelow ==
    ASSUME NEW n \in Nat, NEW S, S \subseteq 0 .. n - 1
    PROVE  Cardinality(S) \in Nat /\ Cardinality(S) <= n
<1>1. PICK T : T = 0 .. n - 1
  OBVIOUS
<1>2. 0 \in Int /\ n - 1 \in Int
  OBVIOUS
<1>3. IsFiniteSet(T) /\ Cardinality(T) = IF 0 > n - 1 THEN 0 ELSE (n - 1) - 0 + 1
  BY <1>1, <1>2, FS_Interval
<1>4. Cardinality(T) = n
  BY <1>3
<1>5. IsFiniteSet(S) /\ Cardinality(S) <= Cardinality(T)
  BY <1>1, <1>3, FS_Subset
<1> QED
  BY <1>4, <1>5, FS_CardinalityType

LEMMA PollType ==
    ASSUME PollTypeOK, NEW array \in Arrays, Poll(array)
    PROVE  PollTypeOK'
<1>1. PICK things, wanted : /\ things = [i \in DOMAIN array |-> array[i].fd]
                            /\ wanted = [i \in DOMAIN array |-> array[i].events]
  OBVIOUS
<1>2. PICK n \in 1 .. MaxPolled : array \in [1 .. n -> Entry]
  BY DEF Arrays
<1>3. MaxPolled \in Nat /\ n \in Nat /\ n <= MaxPolled /\ DOMAIN array = 1 .. n
  BY <1>2, PollAssumption
<1>4. \A i \in DOMAIN array : array[i].events \in SUBSET Events
  BY <1>2 DEF Entry, Events
<1>5. ASSUME NEW events, \A i \in DOMAIN events : events[i] \in SUBSET Events
      PROVE  PollRevents(array, events) \in [DOMAIN array -> SUBSET Events]
  <2>1. ASSUME NEW i \in DOMAIN array
        PROVE  (CASE i \in DOMAIN events -> events[i]
                  [] i \in FilesReady(array) -> array[i].events
                  [] OTHER -> {}) \in SUBSET Events
    <3>1. CASE i \in DOMAIN events /\ i \notin FilesReady(array)
      BY <1>5, <3>1
    <3>2. CASE i \notin DOMAIN events /\ i \in FilesReady(array)
      BY <1>4, <3>2
    <3>3. CASE i \notin DOMAIN events /\ i \notin FilesReady(array)
      BY <3>3
    <3>4. CASE i \in DOMAIN events /\ i \in FilesReady(array)
      <4>1. events[i] \in SUBSET Events /\ array[i].events \in SUBSET Events
        BY <1>4, <1>5, <3>4
      <4> QED
        BY <3>4, <4>1
    <3> QED
      BY <3>1, <3>2, <3>3, <3>4
  <2> QED
    BY <2>1, Zenon DEF PollRevents
<1>6. \/ \E events \in EpollReports(Registered(things, wanted), wanted) :
            polled' = [array |-> array, revents |-> PollRevents(array, events),
                       res |-> PollRes(array, events)]
      \/ polled' = [array |-> array, revents |-> PollRevents(array, <<>>), res |-> -1]
  BY <1>1, Zenon DEF Poll
<1>7. polled'.array = array /\ polled'.revents \in [DOMAIN array -> SUBSET Events]
      /\ polled'.res \in -1 .. MaxPolled
  <2>1. ASSUME NEW events \in EpollReports(Registered(things, wanted), wanted),
               polled' = [array |-> array, revents |-> PollRevents(array, events),
                          res |-> PollRes(array, events)]
        PROVE  /\ polled'.array = array /\ polled'.revents \in [DOMAIN array -> SUBSET Events]
               /\ polled'.res \in -1 .. MaxPolled
    <3>1. \A i \in DOMAIN events : events[i] \in SUBSET Events
      BY DEF EpollReports
    <3>2. PollRevents(array, events) \in [DOMAIN array -> SUBSET Events]
      BY <1>5, <3>1
    <3>3. PICK S : S = {i \in DOMAIN array : PollRevents(array, events)[i] # {}}
      OBVIOUS
    <3>4. PollRes(array, events) = Cardinality(S)
      <4>1. PollRes(array, events)
               = Cardinality({i \in DOMAIN array : PollRevents(array, events)[i] # {}})
        BY <1>1, PollCounts
      <4> QED
        BY <3>3, <4>1, Zenon
    <3>5. S \subseteq 1 .. n
      BY <1>3, <3>3
    <3>6. Cardinality(S) \in Nat /\ Cardinality(S) <= n
      BY <1>3, <3>5, CountWithin
    <3>7. PollRes(array, events) \in -1 .. MaxPolled
      BY <1>3, <3>4, <3>6
    <3> QED
      BY <2>1, <3>2, <3>7
  <2>2. ASSUME polled' = [array |-> array, revents |-> PollRevents(array, <<>>), res |-> -1]
        PROVE  /\ polled'.array = array /\ polled'.revents \in [DOMAIN array -> SUBSET Events]
               /\ polled'.res \in -1 .. MaxPolled
    <3>1. PollRevents(array, <<>>) \in [DOMAIN array -> SUBSET Events]
      <4>1. \A i \in DOMAIN <<>> : <<>>[i] \in SUBSET Events
        OBVIOUS
      <4> QED
        BY <1>5, <4>1
    <3>2. -1 \in -1 .. MaxPolled
      BY <1>3
    <3> QED
      BY <2>2, <3>1, <3>2
  <2> QED
    BY <1>6, <2>1, <2>2
<1>8. UNCHANGED selected
  BY Zenon DEF Poll
<1> QED
  BY <1>7, <1>8 DEF PollTypeOK

LEMMA SelectType ==
    ASSUME PollTypeOK, NEW sets \in FdSets, NEW things \in [Fds -> Things], Select(sets, things)
    PROVE  PollTypeOK'
<1>1. PICK wanted : wanted = [fd \in Fds |-> {e \in DOMAIN sets : fd \in sets[e]}]
  OBVIOUS
<1>2. /\ \/ \E events \in EpollReports(Registered(things, wanted), wanted) :
               selected' = [given |-> sets, sets |-> SelectSets(sets, events),
                            faulted |-> SelectFaults(sets, events), res |-> SelectRes(events)]
         \/ selected' = [given |-> sets, sets |-> sets, faulted |-> FALSE, res |-> -1]
      /\ UNCHANGED polled
  BY <1>1, Zenon DEF Select
<1>3. MaxPolled \in Nat
  BY PollAssumption
<1>4. ASSUME NEW events \in EpollReports(Registered(things, wanted), wanted)
      PROVE  SelectRes(events) \in -1 .. 3 * MaxPolled
  <2>1. DOMAIN events \subseteq Fds
    BY DEF EpollReports, Registered
  <2>2. ASSUME NEW e
        PROVE  /\ Cardinality(SelectBits(events, e)) \in Nat
               /\ Cardinality(SelectBits(events, e)) <= MaxPolled
    <3>1. SelectBits(events, e) \subseteq 0 .. MaxPolled - 1
      BY <1>3, <2>1 DEF SelectBits, Fds
    <3> QED
      BY <1>3, <3>1, CountBelow
  <2>3. PICK x \in Nat, y \in Nat, z \in Nat :
           /\ x = Cardinality(SelectBits(events, "IN")) /\ x <= MaxPolled
           /\ y = Cardinality(SelectBits(events, "OUT")) /\ y <= MaxPolled
           /\ z = Cardinality(SelectBits(events, "ERR")) /\ z <= MaxPolled
    BY <2>2
  <2>4. x + y + z \in -1 .. 3 * MaxPolled
    BY <1>3, <2>3
  <2> QED
    BY <2>3, <2>4, Zenon DEF SelectRes
<1>5. selected'.res \in -1 .. 3 * MaxPolled
  <2>1. -1 \in -1 .. 3 * MaxPolled
    BY <1>3
  <2> QED
    BY <1>2, <1>4, <2>1
<1> QED
  BY <1>2, <1>5 DEF PollTypeOK

LEMMA PollTypeCorrect == PollSpec => []PollTypeOK
<1>1. PollInit => PollTypeOK
  BY DEF PollInit, PollTypeOK
<1>2. PollTypeOK /\ [PollNext]_pollVars => PollTypeOK'
  <2>1. SUFFICES ASSUME PollTypeOK, [PollNext]_pollVars
                 PROVE  PollTypeOK'
    OBVIOUS
  <2>2. CASE UNCHANGED pollVars
    BY <2>1, <2>2 DEF pollVars, PollTypeOK
  <2>3. CASE PollReturns
    BY <2>3 DEF PollReturns, PollTypeOK
  <2>4. CASE \E array \in Arrays : Poll(array)
    BY <2>4, <2>1, PollType
  <2>5. CASE \E sets \in FdSets, things \in [Fds -> Things] : Select(sets, things)
    BY <2>5, <2>1, SelectType
  <2> QED
    BY <2>1, <2>2, <2>3, <2>4, <2>5 DEF PollNext
<1> QED
  BY <1>1, <1>2, PTL DEF PollSpec

-----------------------------------------------------------------------------
(* The whole.                                                               *)

LEMMA LibraryGai == LibrarySpec => []GaiInv
<1>1. GaiInv /\ UNCHANGED gaiVars => GaiInv'
  BY DEF gaiVars, GaiInv, GaiTypeOK, NoLeak, InBuffer, Unanswered, Answered, Owns
<1>2. GaiInv /\ [LibraryNext]_libVars => GaiInv'
  BY <1>1, LibraryStep, GaiNextInv
<1>3. LibraryInit => GaiInv
  BY GaiInitInv DEF LibraryInit
<1> QED
  BY <1>2, <1>3, PTL DEF LibrarySpec

(* The types of all parts, of the pool of SceNet to the sets of select.     *)
THEOREM LibraryTypeCorrect == LibrarySpec => []LibraryTypeOK
<1>1. LibraryInit => part \in Parts
  BY DEF LibraryInit
<1>2. part \in Parts /\ [LibraryNext]_libVars => (part \in Parts)'
  BY DEF LibraryNext, libVars
<1>3. GaiInv => GaiTypeOK
  BY DEF GaiInv
<1>4. EnvInv => EnvTypeOK
  BY DEF EnvInv
<1>5. SigInv => SigTypeOK
  BY DEF SigInv
<1>6. RndInv => RndTypeOK
  BY DEF RndInv
<1>7. DirInv => DirTypeOK
  BY DEF DirInv
<1>8. (/\ part \in Parts /\ NetTypeOK /\ GaiTypeOK /\ EnvTypeOK /\ SigTypeOK /\ RndTypeOK
       /\ DirTypeOK /\ PathTypeOK /\ InetTypeOK /\ PollTypeOK) => LibraryTypeOK
  BY DEF LibraryTypeOK
<1> QED
  BY <1>1, <1>2, <1>3, <1>4, <1>5, <1>6, <1>7, <1>8, LibraryGai, LibraryImplementsParts,
     NetTypeCorrect, EnvInvariance, SigInvariance, RndInvariance, DirInvariance,
     ResolvedCorrect, InetTypeCorrect, PollTypeCorrect, PTL DEF LibrarySpec

(* What the parts promise holds of them together: the pool and the state of *)
(* SceNet under _net_init and the resolver, the lists and answers of        *)
(* getaddrinfo, the strings of environ, the handlers of signal, the indices *)
(* of random, the positions of streams, the list of scandir, the paths of   *)
(* __realpath, the texts of addresses and the counts of poll and select.    *)
THEOREM LibraryCorrect ==
    LibrarySpec => [](/\ PoolExact /\ ReadyUnlessFailed /\ ListsHeld /\ AnswersTheQuestion
                      /\ EnvStringsExact /\ HandlersKept /\ LagKept
                      /\ TellIsPosition /\ ScanWhole /\ ResolvedExact
                      /\ NtopExact /\ PtonExact /\ AtonExact /\ ReadyCounted)
<1>1. GaiInv => ListsHeld /\ AnswersTheQuestion
  BY DEF GaiInv, NoLeak, ListsHeld, Allocated, Owns, AnswersTheQuestion
<1> QED
  BY <1>1, LibraryGai, LibraryImplementsParts, PoolCorrect, ReadyCorrect, EnvStringsCorrect,
     HandlersCorrect, LagCorrect, TellCorrect, ScanCorrect, ResolvedCorrect,
     NtopCorrect, PtonCorrect, AtonCorrect, PollCorrect, PTL

(* Composed with the other parts the environment implements its map.        *)
THEOREM LibraryEnvRefines == LibrarySpec => EnvImplementsMap
BY LibraryImplementsParts, EnvRefinesMap, PTL

=============================================================================
