----------------------------- MODULE MCFdCalls -----------------------------
(* Values of the constants of FdCalls for TLC.                              *)
EXTENDS FdCalls, TLC

MCStdUid == 0 :> 101
SmallStdUid == 0 :> 1     \* a handle that is also a descriptor number

(* SCE_NET_ERROR_EBADF ends in 0x09, which the switch translates; of the    *)
(* other codes used below one ends in a byte it has no case for.            *)
MCNetErrno == 9 :> 9
MCBadHandle == -2147418103      \* 0x80010009

(* A device error that translates, and one whose low byte is zero (such as  *)
(* SCE_FIOS_ERROR_UNIMPLEMENTED, 0x80820000).                               *)
DeviceError == -2147418107
ZeroByte    == -2138963968
EachTable == [k \in Kinds |-> IF k \in {"io", "net", "fh"} THEN {DeviceError, ZeroByte} ELSE {}]
Masked    == [k \in Kinds |-> IF k = "io" THEN {ZeroByte} ELSE {}]
DirPipeErrors == [k \in Kinds |-> IF k \in {"dh", "msgpipe"} THEN {DeviceError} ELSE {}]
NoErrors  == [k \in Kinds |-> {}]
NoStd     == <<>>

OneArray == {<<1>>}
Arrays == {<<1, 2>>, <<-1, 1>>}
AllCalls == FdUsers
NoArrays == {}

Symmetry == Permutations(Threads)
=============================================================================
