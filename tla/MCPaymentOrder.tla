--------------------------- MODULE MCPaymentOrder ---------------------------
(***************************************************************************)
(* One key paid by a code and one of a merchant.  The Authorize of a key   *)
(* is sent again while the one before is still running: for a code, two    *)
(* orders may be created at once; for a merchant, one order is registered  *)
(* twice at once.  Other calls of one payment follow one another here.     *)
(***************************************************************************)
EXTENDS PaymentOrder

MCKeys == {"code", "hosted"}
MCHosted == {"hosted"}
MCCrossing ==
  {{<<"code", p, "authorize">>, <<"code", q, "authorize">>} : p, q \in Ids \cup {0}}
    \cup {{<<"hosted", p, "authorize">>} : p \in Ids}
=============================================================================
