---------------------------- MODULE BanRegister ----------------------------
(***************************************************************************)
(* What the fail2ban tracker promises of one configuration: a register of  *)
(* when each banned address is let in again.  A ban lasts until its time   *)
(* comes; until then it can only be made longer, and never longer than     *)
(* MaxBan from now.  There is no crash, no file and no task here.          *)
(***************************************************************************)
EXTENDS Naturals

CONSTANTS IPs, MaxBan

VARIABLES
    now,        \* the clock
    until       \* when the ban of each address ends, 0 for no ban

Still(u, t) == IF u > t THEN u ELSE 0

Init ==
    /\ now = 0
    /\ until = [ip \in IPs |-> 0]

Ban(ip) ==
    /\ \E u \in now + 1 .. now + MaxBan :
          /\ u >= until[ip]
          /\ until' = [until EXCEPT ![ip] = u]
    /\ UNCHANGED now

Tick ==
    /\ now' = now + 1
    /\ until' = [ip \in IPs |-> Still(until[ip], now')]

Next == Tick \/ \E ip \in IPs : Ban(ip)

Spec == Init /\ [][Next]_<<now, until>>

=============================================================================
