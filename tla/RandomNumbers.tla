--------------------------- MODULE RandomNumbers ---------------------------
(***************************************************************************)
(* The indices of random(), prng/random.c, which all threads share without  *)
(* a lock.  ++i is a load and a store, and the wrap-around a second store.  *)
(* The numbers themselves, 31 words of 32 bits, are left out; so is the     *)
(* branch for n = 0, since nothing changes n.                               *)
(***************************************************************************)
EXTENDS Naturals, LibcThreads

CONSTANTS
    N,           \* the length n of the table x
    Lag,         \* the distance of the two indices, 3 at the start
    MaxRandom    \* bound of the model on an index that has passed the end

ASSUME RandomAssumption ==
    N \in Nat /\ Lag \in 0 .. N - 1 /\ MaxRandom \in Nat /\ MaxRandom >= N

VARIABLES
    index,       \* index["i"] and index["j"]
    rnd_pc,      \* the next access of a thread
    loaded_index,\* the value it loaded
    overlapped   \* were two calls ever under way together? (ghost)

rndVars == <<index, rnd_pc, loaded_index, overlapped>>

RndInit ==
    /\ index = [i |-> Lag, j |-> 0]
    /\ rnd_pc = [t \in Racers |-> <<"i", "load">>]
    /\ loaded_index = [t \in Racers |-> 0]
    /\ overlapped = FALSE

RndTypeOK ==
    /\ index \in [{"i", "j"} -> 0 .. MaxRandom]
    /\ rnd_pc \in [Racers -> {"i", "j"} \X {"load", "store", "wrap"}]
    /\ loaded_index \in [Racers -> 0 .. MaxRandom]
    /\ overlapped \in BOOLEAN

Outside(t) == rnd_pc[t] = <<"i", "load">>

RndGoto(t, l) ==
    /\ rnd_pc' = [rnd_pc EXCEPT ![t] = l]
    /\ overlapped' = (overlapped \/ \E u \in Racers \ {t} : ~Outside(u))

LoadIndex(t, x) ==
    /\ rnd_pc[t] = <<x, "load">>
    /\ loaded_index' = [loaded_index EXCEPT ![t] = index[x]]
    /\ RndGoto(t, <<x, "store">>)
    /\ UNCHANGED index

StoreIndex(t, x) ==
    /\ rnd_pc[t] = <<x, "store">>
    /\ index' = [index EXCEPT ![x] = IF loaded_index[t] < MaxRandom THEN loaded_index[t] + 1 ELSE @]
    /\ RndGoto(t, <<x, "wrap">>)
    /\ UNCHANGED loaded_index

After(x) == IF x = "i" THEN <<"j", "load">> ELSE <<"i", "load">>

(* Mutant: the index goes one too far.                                      *)
WrapIndexLate(t, x) ==
    /\ rnd_pc[t] = <<x, "wrap">>
    /\ index' = IF loaded_index[t] = N THEN [index EXCEPT ![x] = 0] ELSE index
    /\ RndGoto(t, After(x))
    /\ UNCHANGED loaded_index

WrapIndex(t, x) ==
    /\ rnd_pc[t] = <<x, "wrap">>
    /\ index' = IF loaded_index[t] + 1 = N THEN [index EXCEPT ![x] = 0] ELSE index
    /\ RndGoto(t, After(x))
    /\ UNCHANGED loaded_index

random(t, x) == LoadIndex(t, x) \/ StoreIndex(t, x) \/ WrapIndex(t, x)

RndNext == \E t \in Racers, x \in {"i", "j"} : random(t, x)

RndSpec == RndInit /\ [][RndNext]_rndVars

-----------------------------------------------------------------------------
(* Unless two calls of random() ever overlapped, both indices stay inside   *)
(* the table and keep their distance, on which the generator rests, each    *)
(* wrapping around on its own.                                              *)
LagKept ==
    ~overlapped /\ (\A t \in Racers : Outside(t))
        => /\ index["i"] < N /\ index["j"] < N
           /\ (index["i"] + N - index["j"]) % N = Lag

=============================================================================
