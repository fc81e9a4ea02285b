--------------------------- MODULE ReportConstants ---------------------------
(* The constants of the channel of reports, for the channel and its session. *)
EXTENDS Integers, FiniteSets

CONSTANTS
  Producers,   \* threads that report images
  Hosts,       \* media servers
  NoHost,      \* model value: no server named yet
  QueueSize    \* MAX_IMG_REPORT_QUEUE_SIZE

ASSUME ConstantsOK ==
  /\ IsFiniteSet(Producers) /\ Producers # {}
  /\ NoHost \notin Hosts
  /\ QueueSize \in Nat \ {0}
=============================================================================
