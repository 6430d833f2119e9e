------------------------------ MODULE NetInit ------------------------------
(***************************************************************************)
(* _net_init of internal/vitanet.c, called by the threads of one process    *)
(* from socket, gethostbyname, gethostbyaddr, gethostname, inet_ntop and    *)
(* inet_pton, all of which ignore its result and go on to use SceNet.  The  *)
(* application may also start SceNet and SceNetCtl itself, at any time.     *)
(* Each library call of the body is a step; external are SceSysmodule,      *)
(* SceNet, SceNetCtl and malloc.                                            *)
(***************************************************************************)
EXTENDS Naturals, LibcThreads

CONSTANT Blocks  \* addresses malloc may return

ASSUME NetAssumption == {NULL, "down", "app"} \cap Blocks = {}

VARIABLES
    net_initialized,   \* _net_initialized
    net_memory,        \* _net_memory
    allocated,         \* external: the blocks malloc gave and free did not take back
    loaded,            \* external: is SCE_SYSMODULE_NET loaded?
    net,               \* external: the pool SceNet runs on, "app" or "down"
    ctl,               \* external: is SceNetCtl initialised?
    net_pc,
    outcome            \* how the body of _net_init ended (ghost)

netVars == <<net_initialized, net_memory, allocated, loaded, net, ctl, net_pc, outcome>>

NetBody == {"load", "malloc", "net", "ctl", "term", "free"}
NetOutcomes == {"none", "ok", "error", "torn_down", "term_failed"}

NetStart ==
    /\ net_initialized = 0
    /\ net_memory = NULL
    /\ allocated = {}
    /\ loaded \in BOOLEAN
    /\ net = "down"
    /\ ctl = FALSE
    /\ net_pc = [t \in Threads |-> "idle"]
    /\ outcome = "none"

NetTypeOK ==
    /\ net_initialized \in {0, 1}
    /\ net_memory \in Blocks \cup {NULL}
    /\ allocated \subseteq Blocks
    /\ loaded \in BOOLEAN
    /\ net \in Blocks \cup {"down", "app"}
    /\ ctl \in BOOLEAN
    /\ net_pc \in [Threads -> {"idle", "client"} \cup NetBody]
    /\ outcome \in NetOutcomes

NetGoto(t, l) == net_pc' = [net_pc EXCEPT ![t] = l]

(* _net_init returns to the function that called it.                        *)
NetReturn(t, o) == NetGoto(t, "client") /\ outcome' = o

(* The compare-and-swap: the first caller runs the body, every other one    *)
(* returns at once.                                                         *)
Enter(t) ==
    /\ net_pc[t] = "idle"
    /\ net_initialized' = 1
    /\ NetGoto(t, IF net_initialized = 0 THEN "load" ELSE "client")
    /\ UNCHANGED <<net_memory, allocated, loaded, net, ctl, outcome>>

LoadModule(t) ==
    /\ net_pc[t] = "load"
    /\ loaded' = TRUE
    /\ NetGoto(t, "malloc")
    /\ UNCHANGED <<net_initialized, net_memory, allocated, net, ctl, outcome>>

LoadModuleFails(t) ==
    /\ net_pc[t] = "load" /\ ~loaded
    /\ NetReturn(t, "error")
    /\ UNCHANGED <<net_initialized, net_memory, allocated, loaded, net, ctl>>

Malloc(t) ==
    /\ net_pc[t] = "malloc"
    /\ \E b \in Blocks \ allocated :
          net_memory' = b /\ allocated' = allocated \cup {b}
    /\ NetGoto(t, "net")
    /\ UNCHANGED <<net_initialized, loaded, net, ctl, outcome>>

(* Mutant: the result of malloc is not tested.                              *)
MallocUntested(t) ==
    /\ net_pc[t] = "malloc"
    /\ net_memory' = NULL
    /\ NetGoto(t, "net")
    /\ UNCHANGED <<net_initialized, allocated, loaded, net, ctl, outcome>>

MallocFails(t) ==
    /\ net_pc[t] = "malloc"
    /\ net_memory' = NULL
    /\ NetReturn(t, "error")
    /\ UNCHANGED <<net_initialized, allocated, loaded, net, ctl>>

sceNetInit(t) ==
    /\ net_pc[t] = "net" /\ net = "down"
    /\ net' = net_memory
    /\ NetGoto(t, "ctl")
    /\ UNCHANGED <<net_initialized, net_memory, allocated, loaded, ctl, outcome>>

FreeMemory == allocated' = allocated \ {net_memory}

(* SCE_NET_ERROR_EBUSY: the application was first.  The block is not needed. *)
sceNetInitBusy(t) ==
    /\ net_pc[t] = "net" /\ net # "down"
    /\ FreeMemory /\ net_memory' = NULL
    /\ NetGoto(t, "ctl")
    /\ UNCHANGED <<net_initialized, loaded, net, ctl, outcome>>

(* Mutant: every error is taken for SCE_NET_ERROR_EBUSY.                    *)
FailsAsBusy(t) ==
    /\ net_pc[t] = "net" /\ net = "down"
    /\ FreeMemory /\ net_memory' = NULL
    /\ NetGoto(t, "ctl")
    /\ UNCHANGED <<net_initialized, loaded, net, ctl, outcome>>

sceNetInitFails(t) ==
    /\ net_pc[t] = "net" /\ net = "down"
    /\ FreeMemory /\ net_memory' = NULL
    /\ NetReturn(t, "error")
    /\ UNCHANGED <<net_initialized, loaded, net, ctl>>

(* SCE_NET_CTL_ERROR_NOT_TERMINATED, the answer if ctl is TRUE, is no error. *)
sceNetCtlInit(t) ==
    /\ net_pc[t] = "ctl"
    /\ ctl' = TRUE
    /\ NetReturn(t, "ok")
    /\ UNCHANGED <<net_initialized, net_memory, allocated, loaded, net>>

(* Mutant: the memory is freed without sceNetTerm.                          *)
CtlFailsNoTerm(t) ==
    /\ net_pc[t] = "ctl" /\ ~ctl
    /\ IF net_memory # NULL THEN NetGoto(t, "free") /\ UNCHANGED outcome
                            ELSE NetReturn(t, "error")
    /\ UNCHANGED <<net_initialized, net_memory, allocated, loaded, net, ctl>>

sceNetCtlInitFails(t) ==
    /\ net_pc[t] = "ctl" /\ ~ctl
    /\ IF net_memory # NULL THEN NetGoto(t, "term") /\ UNCHANGED outcome
                            ELSE NetReturn(t, "error")
    /\ UNCHANGED <<net_initialized, net_memory, allocated, loaded, net, ctl>>

sceNetTerm(t) ==
    /\ net_pc[t] = "term"
    /\ net' = "down"
    /\ NetGoto(t, "free")
    /\ UNCHANGED <<net_initialized, net_memory, allocated, loaded, ctl, outcome>>

(* The result of sceNetTerm is ignored: if it failed, SceNet goes on        *)
(* running on the block that is freed next.                                 *)
sceNetTermFails(t) ==
    /\ net_pc[t] = "term"
    /\ outcome' = "term_failed"
    /\ NetGoto(t, "free")
    /\ UNCHANGED <<net_initialized, net_memory, allocated, loaded, net, ctl>>

(* _net_memory keeps the address of the block that is freed here.           *)
NetFree(t) ==
    /\ net_pc[t] = "free"
    /\ FreeMemory
    /\ NetReturn(t, IF outcome = "term_failed" THEN outcome ELSE "torn_down")
    /\ UNCHANGED <<net_initialized, net_memory, loaded, net, ctl>>

(* The SceNet call of the function that called _net_init.                   *)
NetClient(t) ==
    /\ net_pc[t] = "client"
    /\ NetGoto(t, "idle")
    /\ UNCHANGED <<net_initialized, net_memory, allocated, loaded, net, ctl, outcome>>

(* External: the application starts the network itself, on its own memory.  *)
AppNetInit ==
    /\ net = "down"
    /\ loaded' = TRUE /\ net' = "app"
    /\ UNCHANGED <<net_initialized, net_memory, allocated, ctl, net_pc, outcome>>

AppNetCtlInit ==
    /\ net # "down" /\ ~ctl
    /\ ctl' = TRUE
    /\ UNCHANGED <<net_initialized, net_memory, allocated, loaded, net, net_pc, outcome>>

net_init(t) ==
    \/ Enter(t) \/ LoadModule(t) \/ LoadModuleFails(t) \/ Malloc(t) \/ MallocFails(t)
    \/ sceNetInit(t) \/ sceNetInitBusy(t) \/ sceNetInitFails(t)
    \/ sceNetCtlInit(t) \/ sceNetCtlInitFails(t) \/ sceNetTerm(t)
    \/ sceNetTermFails(t) \/ NetFree(t)

NetNext ==
    \/ \E t \in Threads : net_init(t) \/ NetClient(t)
    \/ AppNetInit \/ AppNetCtlInit

NetSpec == NetStart /\ [][NetNext]_netVars

-----------------------------------------------------------------------------
Initialising == \E t \in Threads : net_pc[t] \in NetBody

(* SceNet runs on a pool that _net_init has freed only if sceNetTerm failed *)
(* (internal/vitanet.c 83 does not look), and once _net_init is over, a     *)
(* block it allocated is the pool SceNet runs on: no failing path leaks it, *)
(* however the failing of its steps and the application's own               *)
(* initialisation fall.                                                     *)
PoolExact ==
    /\ net \in Blocks => net \in allocated \/ outcome = "term_failed"
    /\ ~Initialising => allocated \subseteq {net}

(* A client can find SceNet down only while another thread is still         *)
(* initialising it (the callers that lose the compare-and-swap do not       *)
(* wait), or after the initialisation failed.                               *)
ReadyUnlessFailed ==
    \A t \in Threads :
        net_pc[t] = "client" /\ net = "down"
            => Initialising \/ outcome \in {"error", "torn_down"}

(* The comment of the last error path: "something gone wrong, tear down     *)
(* completely, so it can be re-inited".  A later call runs the body only if *)
(* the flag is down again.                                                  *)
TornDownCanBeReinited == outcome = "torn_down" => net_initialized = 0

=============================================================================
