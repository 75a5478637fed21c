---------------------------- MODULE AbuseHistory ----------------------------
(***************************************************************************)
(* AbuseTracker and what it has itself no room for: the failures of each   *)
(* address since its last success.  A history variable, it changes with    *)
(* the calls of the tracker and restricts none of them.                    *)
(***************************************************************************)
EXTENDS AbuseTracker

VARIABLE since      \* history: when they failed, of every address

(* A failure that record_failure does not ignore.                          *)
Failed(ip) ==
    \E t \in Tasks :
        RecordFailure(t) /\ task[t].ip = ip /\ Tracked(task[t].settings, ip)

(* A success that finds no ban.  During a ban, of which the attempt was in *)
(* flight when another was banned, record_success clears nothing.          *)
Succeeded(ip) ==
    /\ \E t \in Tasks :
          RecordSuccess(t) /\ task[t].ip = ip /\ Tracked(task[t].settings, ip)
    /\ ~Banned(entries[ip], now)

HistoryInit == Init /\ since = [ip \in IPs |-> << >>]

HistoryNext ==
    /\ Next
    /\ since' = [ip \in IPs |->
          IF Failed(ip) THEN Append(since[ip], now)
          ELSE IF Succeeded(ip) THEN << >>
          ELSE since[ip]]

HistorySpec == HistoryInit /\ [][HistoryNext]_<<vars, since>>

-----------------------------------------------------------------------------

(* max_failures of these failures, up to the last, within find_time.       *)
Burst(failures, s) ==
    /\ Len(failures) >= s.max_failures
    /\ failures[Len(failures) - s.max_failures + 1] + s.find_time >= now

BanSet(ip) ==
    /\ up
    /\ Banned(entries'[ip], now)
    /\ \/ entries'[ip].ban_until # entries[ip].ban_until
       \/ entries'[ip].ban_count # entries[ip].ban_count

(***************************************************************************)
(* README.md:356: a ban, or a longer one, is set only after max_failures   *)
(* failures of the address within find_time, all of them since its last    *)
(* success that found it not banned.  Neither the attempts in flight nor a *)
(* stop and a start, which reads the window back from the file, bring      *)
(* failures back that record_success cleared.                              *)
(***************************************************************************)
BansNeedBurst ==
    [][\A ip \in IPs : BanSet(ip) => Burst(since'[ip], settings)]_<<vars, since>>

=============================================================================
