------------------------------ MODULE Signals ------------------------------
(***************************************************************************)
(* signal() of signal/signal.c: a table of handlers that the first call     *)
(* allocates and fills, without a lock.  Each access to the table or to the *)
(* pointer to it is a step.  Tables are never freed.                        *)
(***************************************************************************)
EXTENDS Naturals, LibcThreads

CONSTANTS
    NSIG,
    Handlers,
    Tables       \* addresses malloc may return

ASSUME SigAssumption ==
    /\ NSIG \in Nat \ {0}
    /\ NULL \notin Tables
    /\ "uninitialised" \notin Handlers   \* what an element holds that nobody wrote

VARIABLES
    sig_funcs,   \* __global_sig_funcs
    table,       \* the contents of the allocated tables, NULL for the others
    sig_pc,
    sig,         \* the arguments of the calls, and the counter i of _init_signal
    func,
    fill,
    stored,      \* the handler stored last for each signal (ghost)
    raced,       \* did a call overlap with _init_signal? (ghost)
    broken       \* was a NULL table used, or an element nobody wrote returned? (ghost)

sigVars == <<sig_funcs, table, sig_pc, sig, func, fill, stored, raced, broken>>

SigNumbers == 0 .. NSIG - 1
InitLabels == {"init", "alloc", "fill"}
Fresh == [s \in SigNumbers |-> "uninitialised"]

SigInit ==
    /\ sig_funcs = NULL
    /\ table = [b \in Tables |-> NULL]
    /\ sig_pc = [t \in Racers |-> "idle"]
    /\ sig = [t \in Racers |-> 0]
    /\ func = [t \in Racers |-> "SIG_DFL"]
    /\ fill = [t \in Racers |-> 0]
    /\ stored = [s \in SigNumbers |-> "SIG_DFL"]
    /\ raced = FALSE /\ broken = FALSE

SigTypeOK ==
    /\ sig_funcs \in Tables \cup {NULL}
    /\ table \in [Tables -> [SigNumbers -> Handlers \cup {"SIG_DFL", "uninitialised"}] \cup {NULL}]
    /\ sig_pc \in [Racers -> {"idle", "load", "store"} \cup InitLabels]
    /\ sig \in [Racers -> SigNumbers]
    /\ func \in [Racers -> Handlers \cup {"SIG_DFL"}]
    /\ fill \in [Racers -> 0 .. NSIG]
    /\ stored \in [SigNumbers -> Handlers \cup {"SIG_DFL"}]
    /\ raced \in BOOLEAN /\ broken \in BOOLEAN

(* A thread goes on; from now on the race is seen by everyone.              *)
SigGoto(t, l) ==
    /\ sig_pc' = [sig_pc EXCEPT ![t] = l]
    /\ raced' = (raced \/ \E u, w \in Racers :
                              u # w /\ sig_pc'[u] \in InitLabels /\ sig_pc'[w] # "idle")

(* The current table gets handler h for signal s; through NULL it crashes.  *)
Write(s, h) ==
    /\ table' = IF sig_funcs = NULL THEN table ELSE [table EXCEPT ![sig_funcs][s] = h]
    /\ broken' = (broken \/ sig_funcs = NULL)

SignalCall(t, s, f) ==
    /\ sig_pc[t] = "idle"
    /\ sig' = [sig EXCEPT ![t] = s] /\ func' = [func EXCEPT ![t] = f]
    /\ SigGoto(t, IF sig_funcs = NULL THEN "init" ELSE "load")
    /\ UNCHANGED <<sig_funcs, table, fill, stored, broken>>

InitCheck(t) ==
    /\ sig_pc[t] = "init"
    /\ SigGoto(t, IF sig_funcs = NULL THEN "alloc" ELSE "load")
    /\ UNCHANGED <<sig_funcs, table, sig, func, fill, stored, broken>>

(* The table is published before it is filled.                              *)
InitMalloc(t) ==
    /\ sig_pc[t] = "alloc"
    /\ \E b \in Tables :
          /\ table[b] = NULL
          /\ table' = [table EXCEPT ![b] = Fresh]
          /\ sig_funcs' = b
    /\ fill' = [fill EXCEPT ![t] = 0]
    /\ SigGoto(t, "fill")
    /\ UNCHANGED <<sig, func, stored, broken>>

(* The pointer is overwritten even if another thread has set it meanwhile.  *)
InitMallocFails(t) ==
    /\ sig_pc[t] = "alloc"
    /\ sig_funcs' = NULL
    /\ SigGoto(t, "idle")
    /\ UNCHANGED <<table, sig, func, fill, stored, broken>>

(* Mutant: the last signal is left out.                                     *)
InitFillShort(t) ==
    /\ sig_pc[t] = "fill" /\ fill[t] < NSIG
    /\ Write(fill[t], "SIG_DFL")
    /\ fill' = [fill EXCEPT ![t] = @ + 1]
    /\ SigGoto(t, IF fill[t] + 2 = NSIG THEN "load" ELSE "fill")
    /\ UNCHANGED <<sig_funcs, sig, func, stored>>

InitFill(t) ==
    /\ sig_pc[t] = "fill" /\ fill[t] < NSIG
    /\ Write(fill[t], "SIG_DFL")
    /\ fill' = [fill EXCEPT ![t] = @ + 1]
    /\ SigGoto(t, IF fill[t] + 1 = NSIG THEN "load" ELSE "fill")
    /\ UNCHANGED <<sig_funcs, sig, func, stored>>

(* old_func is read ...                                                     *)
Load(t) ==
    /\ sig_pc[t] = "load"
    /\ broken' = (broken \/ (IF sig_funcs = NULL THEN TRUE
                             ELSE table[sig_funcs][sig[t]] = "uninitialised"))
    /\ SigGoto(t, "store")
    /\ UNCHANGED <<sig_funcs, table, sig, func, fill, stored>>

(* ... and the new handler written.                                         *)
Store(t) ==
    /\ sig_pc[t] = "store"
    /\ Write(sig[t], func[t])
    /\ stored' = [stored EXCEPT ![sig[t]] = func[t]]
    /\ SigGoto(t, "idle")
    /\ UNCHANGED <<sig_funcs, sig, func, fill>>

signal(t) ==
    \/ \E s \in SigNumbers, f \in Handlers \cup {"SIG_DFL"} : SignalCall(t, s, f)
    \/ InitCheck(t) \/ InitMalloc(t) \/ InitMallocFails(t) \/ InitFill(t)
    \/ Load(t) \/ Store(t)

SigNext == \E t \in Racers : signal(t)

SigSpec == SigInit /\ [][SigNext]_sigVars

-----------------------------------------------------------------------------
Current(s) == IF sig_funcs = NULL THEN "SIG_DFL" ELSE table[sig_funcs][s]

(* As long as no call overlaps with the first one's _init_signal, the table *)
(* holds for each signal what was stored last, by whichever thread, or      *)
(* SIG_DFL: failed and repeated initialisations lose nothing.  Only such an *)
(* overlap makes signal() use a NULL table or return an element that nobody *)
(* has written.                                                             *)
HandlersKept ==
    ~raced =>
        /\ ~broken
        /\ (\A t \in Racers : sig_pc[t] \notin InitLabels)
                => \A s \in SigNumbers : Current(s) = stored[s]

=============================================================================
