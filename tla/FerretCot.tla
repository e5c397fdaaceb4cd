----------------------------- MODULE FerretCot -----------------------------
(***************************************************************************)
(* YaclFerretOtAdapter (mosac/cr/utils/ot_adapter.cc): the OT twin of the  *)
(* Wolverine adapter.  OneTimeSetup, Bootstrap, BootstrapInplace and rcot  *)
(* follow the same plan as OneTimeSetup, Bootstrap, BootstrapInplaceSend / *)
(* Recv and rsend / rrecv, with the same cursors; they differ in the two   *)
(* points below.  BaseNum is reserve_num_, VoleNum lpn_param_.n, SetupNum  *)
(* pre_lpn_param_.n.                                                       *)
(***************************************************************************)
EXTENDS Integers, Sequences

CONSTANTS BaseNum, VoleNum, SetupNum, MaxRequest, MaxCalls

ASSUME FerretSizes ==
  /\ BaseNum \in Nat \ {0}
  /\ VoleNum \in Nat /\ 2 * BaseNum <= VoleNum
  /\ SetupNum \in BaseNum .. VoleNum
  /\ MaxRequest \in Nat \ {0} /\ MaxCalls \in Nat

VARIABLES requests, pc, calls, isSetup, buf, used, upper, out, offset, need,
          rounds, seeds, given

\* while (require_num >= lpn_param_.n): a request of exactly one extension
\* already runs in place.
InplaceFrom == VoleNum

\* bootstrap_inplace_counter is declared and tested but never incremented:
\* the memcpy that would refresh the reserve in ot_buff_ is not reached.
RefreshReserve == FALSE

INSTANCE ExtensionBuffer
=============================================================================
