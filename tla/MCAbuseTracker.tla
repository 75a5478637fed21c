--------------------------- MODULE MCAbuseTracker ---------------------------
(* Small instances of AbuseTracker for TLC. *)
EXTENDS AbuseTracker, TLC

CONSTANTS a1, a2, t1, t2, t3

TaskSymmetry == Permutations(Tasks)

(* backoff_multiplier.powi(n) for n = 0, 1, ...                            *)
Powi(m) == [n \in BanCounts |-> m ^ n]

Base ==
    [enabled |-> TRUE, max_failures |-> 2, find_time |-> 1, ban_time |-> 2,
     max_ban_time |-> 3, scale |-> Powi(2), persist_state |-> TRUE,
     state_path |-> "main", whitelist |-> {}]

(* One configuration that never changes.                                   *)
OneSettings == {Base}

(* Reloads between a first configuration, one with a stricter threshold,   *)
(* a shorter cap and a backoff that overflows a Duration on the second     *)
(* ban, and one that ignores a1 and keeps its state in another file.       *)
Varied ==
    {Base,
     [Base EXCEPT !.max_failures = 1, !.ban_time = 1, !.max_ban_time = 1,
                  !.scale = Powi(5)],
     [Base EXCEPT !.whitelist = {a1}, !.state_path = "other"]}

(* A multiplier large enough for the third ban to overflow a Duration.     *)
Eager == {[Base EXCEPT !.max_failures = 1, !.ban_time = 1, !.max_ban_time = 2]}

=============================================================================
