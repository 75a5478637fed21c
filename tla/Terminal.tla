------------------------------ MODULE Terminal ------------------------------
(***************************************************************************)
(* What ProxySession promises to the client of each session channel: one   *)
(* party at a time writes to it.  First a target does; when it is through, *)
(* and only if the channel has a shell and the settings drop to the menu,  *)
(* the menu does; and from the menu the channel goes on to a target that   *)
(* is not an earlier one.  There are no bridges here, no tables, no        *)
(* callbacks that wait and no other channels.                              *)
(***************************************************************************)
EXTENDS Integers

CONSTANTS
    Channels,
    Targets,        \* the targets of the connection, numbered in their order
    DropToMenu

VARIABLES
    request,        \* what the client asked for on each channel
    writer,         \* who writes to it
    served          \* the targets that have written to it

Init ==
    /\ request = [c \in Channels |-> "gone"]
    /\ writer = [c \in Channels |-> "nobody"]
    /\ served = [c \in Channels |-> {}]

(* A channel in the menu is not forgotten when the client closes it.       *)
Ask(c) ==
    /\ \/ served[c] = {} /\ request' = [request EXCEPT ![c] = "none"]
       \/ /\ served[c] # {} /\ request[c] # "gone"
          /\ \E kind \in {"shell", "exec"} : request' = [request EXCEPT ![c] = kind]
       \/ writer[c] # "menu" /\ request' = [request EXCEPT ![c] = "gone"]
    /\ UNCHANGED <<writer, served>>

Attach(c, n) ==
    /\ \/ writer[c] = "nobody" /\ served[c] = {} /\ request[c] = "none"
       \/ writer[c] = "menu" /\ \A m \in served[c] : m <= n
    /\ writer' = [writer EXCEPT ![c] = "target"]
    /\ served' = [served EXCEPT ![c] = @ \cup {n}]
    /\ UNCHANGED request

(* The target is through, or the choice made in the menu came to nothing.  *)
Leave(c) ==
    /\ writer[c] \in {"target", "menu"}
    /\ writer' = [writer EXCEPT ![c] = "nobody"]
    /\ UNCHANGED <<request, served>>

EnterMenu(c) ==
    /\ writer[c] = "nobody" /\ served[c] # {}
    /\ DropToMenu /\ request[c] = "shell"
    /\ writer' = [writer EXCEPT ![c] = "menu"]
    /\ UNCHANGED <<request, served>>

Next ==
    \E c \in Channels :
        Ask(c) \/ Leave(c) \/ EnterMenu(c) \/ \E n \in Targets : Attach(c, n)

Spec == Init /\ [][Next]_<<request, writer, served>>

=============================================================================
