--------------------------- MODULE AbstractObject ---------------------------
(***************************************************************************)
(* The part of AbstractObject (Multipler/AbstractObject.cpp) that both     *)
(* CPacketResult and CBoxResult inherit: the sampling of the objects whose *)
(* images are reported to the policy store.  A rate of r > 0 selects one   *)
(* object in r, a rate <= 0 selects none.                                  *)
(***************************************************************************)
EXTENDS Integers

(* orginalReport() / binningReport(): does the next object get selected? *)
ReportDue(rate, index) == rate > 0 /\ index + 1 >= rate

(* Fault: the index wraps one object late. *)
NextReportIndexLate(rate, index) ==
  IF rate <= 0 THEN index ELSE IF index >= rate THEN 0 ELSE index + 1

(* ... and the value of m_originalReportIndex / m_binningReportIndex after
   the call. *)
NextReportIndex(rate, index) ==
  IF rate <= 0 THEN index
  ELSE IF index + 1 >= rate THEN 0
  ELSE index + 1

=============================================================================
