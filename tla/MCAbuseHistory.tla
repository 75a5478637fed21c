--------------------------- MODULE MCAbuseHistory ---------------------------
(* A small instance of AbuseHistory for TLC. *)
EXTENDS MCAbuseTracker, AbuseHistory

=============================================================================
