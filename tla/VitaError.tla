----------------------------- MODULE VitaError -----------------------------
(***************************************************************************)
(* Error codes of the Sce backends and their translation to errno          *)
(* (internal/vitaerror.c).  A code is the signed 32-bit value a backend     *)
(* call returns: negative on failure, 0 or a handle or a count otherwise.   *)
(* The descriptor table negates what these operators return and tests the   *)
(* sign of the result, so the sign is what matters here.                    *)
(***************************************************************************)
EXTENDS Integers

CONSTANT NetErrno   \* the switch of __scenet_errno_to_errno: low byte -> errno

SCE_ERRNO_MASK == 256   \* "& 0xFF" is the remainder modulo 2^8

(* Every case of the switch returns one of the E... constants, which are    *)
(* positive; which bytes have a case is fixed by the SDK's SCE_NET_E...     *)
ASSUME NetErrnoAssumption ==
    /\ DOMAIN NetErrno \subseteq 0 .. SCE_ERRNO_MASK - 1
    /\ \A b \in DOMAIN NetErrno : NetErrno[b] \in Nat \ {0}

(* A byte without a case is not translated: the whole code comes back.      *)
scenet_errno_to_errno(code) ==
    LET b == code % SCE_ERRNO_MASK
    IN  IF b \in DOMAIN NetErrno THEN NetErrno[b] ELSE code

(* type = ERROR_GENERIC: the low byte, whatever the subsystem.              *)
sce_errno_to_errno(code) == code % SCE_ERRNO_MASK

=============================================================================
