---------------------------- MODULE ProxySession ----------------------------
(***************************************************************************)
(* One authenticated connection of src/ssh/proxy.rs and the channel        *)
(* callbacks of src/ssh/mod.rs that use it: the client's requests and data *)
(* go to the target from the callbacks, the target's come back by a task   *)
(* of its own for each channel, its bridge.  A shell that has finished can *)
(* drop to a menu on its channel, from which another target is chosen:     *)
(* that replaces the ProxySession, and dropping the old one disconnects    *)
(* its target.                                                             *)
(*                                                                         *)
(* russh runs one callback at a time, to its end; bridges and the tasks of *)
(* Drop run between any two of its awaits.  A callback is cut where it     *)
(* takes another lock or waits for the target.  What is sent is only told  *)
(* apart as far as a step depends on it, and forwarding what changes       *)
(* nothing here is no step.  The library hands on no data of a channel     *)
(* that the gateway has closed.                                            *)
(***************************************************************************)
EXTENDS Integers, FiniteSets

CONSTANTS
    Channels,       \* session channels of the client
    RawChannels,    \* direct-tcpip, forwarded-tcpip and X11 channels
    MaxSessions,    \* bound on the ProxySessions of the connection
    DropToMenu,     \* settings.drop_to_menu
    Signals,        \* whether the client sends env, pty or signal requests
    TargetsMayFail, \* whether a target may break the connection or refuse
    MaxReloads      \* bound on the reloads that change the user's servers

ASSUME SessionAssumption ==
    /\ MaxSessions \in Nat \ {0}
    /\ Channels \cap RawChannels = {}
    /\ {DropToMenu, Signals, TargetsMayFail} \subseteq BOOLEAN
    /\ MaxReloads \in Nat

Sessions == 1 .. MaxSessions

(* A bridge is named by its session, or Again for the one that is opened   *)
(* on the old session when the new target could not be reached.            *)
Again == 0
Bridges == Sessions \cup {Again}

AllChannels == Channels \cup RawChannels

-----------------------------------------------------------------------------
VARIABLES
    conn,               \* the client's connection: open, ending (a task has
                        \* asked for its end), leaving (the callback has), over
    offers,             \* the served snapshot has a server for the user
    reloads,            \* how often that changed
    proxy_session,      \* GatewayHandler.proxy_session
    target,             \* the connection to the target of each session
    last_error,         \* whether the session has recorded an error
    drop,               \* what Drop of each session has done
    session_channels,   \* of each session
    raw_channels,       \* of each session
    channel_state,      \* session_channel_state of the handler
    frontend,           \* each channel as the client and russh see it
    bridge,             \* where the task of each bridge and channel is
    call,               \* the callback that runs
    told                \* history: channels whose target's exit was relayed, or
                        \* whose client has asked again after it was withheld

handler == <<proxy_session, channel_state, call>>
peers == <<target, last_error, drop>>
tables == <<session_channels, raw_channels>>
world == <<offers, reloads>>

vars == <<conn, world, handler, peers, tables, frontend, bridge, told>>

Gone == [request |-> "gone", menu_active |-> FALSE]     \* no entry

SessionChannelState ==
    [request : {"none", "shell", "exec"}, menu_active : BOOLEAN] \cup {Gone}

IdleCall == [pc |-> "idle"]

Calls ==
    {IdleCall}
    \cup [pc : {"open", "request", "menu", "connect", "reopen", "replay"}, ch : Channels]
    \cup [pc : {"data", "relay", "close"}, ch : AllChannels]

TypeOK ==
    /\ conn \in {"open", "ending", "leaving", "over"}
    /\ offers \in BOOLEAN
    /\ reloads \in 0 .. MaxReloads
    /\ proxy_session \in Sessions
    /\ target \in [Sessions -> {"none", "up", "down"}]
    /\ last_error \in [Sessions -> BOOLEAN]
    /\ drop \in [Sessions -> {"none", "held", "dropped", "disconnected", "success", "failure"}]
    /\ session_channels \in [Sessions -> SUBSET Channels]
    /\ raw_channels \in [Sessions -> SUBSET RawChannels]
    /\ channel_state \in [Channels -> SessionChannelState]
    /\ frontend \in [AllChannels -> {"unused", "open", "closed", "gone"}]
    /\ bridge \in [Bridges -> [AllChannels ->
                    {"none", "opening", "relay", "exited", "removed", "menu", "close", "done"}]]
    /\ call \in Calls
    /\ told \subseteq Channels

(* auth_succeeded has connected to the first target.                       *)
Init ==
    /\ conn = "open"
    /\ offers = TRUE
    /\ reloads = 0
    /\ proxy_session = 1
    /\ target = [n \in Sessions |-> IF n = 1 THEN "up" ELSE "none"]
    /\ last_error = [n \in Sessions |-> FALSE]
    /\ drop = [n \in Sessions |-> IF n = 1 THEN "held" ELSE "none"]
    /\ session_channels = [n \in Sessions |-> {}]
    /\ raw_channels = [n \in Sessions |-> {}]
    /\ channel_state = [c \in Channels |-> Gone]
    /\ frontend = [c \in AllChannels |-> "unused"]
    /\ bridge = [n \in Bridges |-> [c \in AllChannels |-> "none"]]
    /\ call = IdleCall
    /\ told = {}

-----------------------------------------------------------------------------
(* The parts of several steps.                                             *)

Go(next, c) == call' = [pc |-> next, ch |-> c]
Return == call' = IdleCall

SetBridge(n, c, pc) == bridge' = [bridge EXCEPT ![n][c] = pc]

SessionOf(n) == IF n = Again THEN proxy_session ELSE n

(* backend_channel                                                         *)
HasBackend(n, c) == c \in session_channels[n] \cup raw_channels[n]

(* A write to the target fails once its connection is down.                *)
Relays(n, c) == HasBackend(n, c) /\ target[n] = "up"

(* abort_proxy_session: the first error is kept, the client and the target *)
(* are disconnected.  The library gets to the client's once the callback   *)
(* that runs is through.                                                   *)
AbortProxySession(n) ==
    /\ last_error' = [last_error EXCEPT ![n] = TRUE]
    /\ conn' = IF conn = "open" THEN "ending" ELSE conn
    /\ target' = [target EXCEPT ![n] = "down"]
    /\ UNCHANGED drop

(* session.close or server_handle.close on a channel of the client         *)
CloseFrontend(c) ==
    frontend' = [frontend EXCEPT ![c] = IF @ = "open" THEN "closed" ELSE @]

(* The library drops the GatewayHandler and with it the ProxySession.      *)
End ==
    /\ conn' = "over"
    /\ call' = IdleCall
    /\ drop' = [drop EXCEPT ![proxy_session] = "dropped"]
    /\ UNCHANGED <<target, last_error>>

-----------------------------------------------------------------------------
(* The connection.                                                         *)

Takes == conn \in {"open", "ending"} /\ call = IdleCall

Ready(c) == Takes /\ frontend[c] = "open"

EndConnection ==
    /\ conn \in {"ending", "leaving"} /\ call = IdleCall
    /\ End
    /\ UNCHANGED <<world, proxy_session, channel_state, tables, frontend, bridge, told>>

HangUp ==
    /\ conn = "open" /\ call = IdleCall
    /\ End
    /\ UNCHANGED <<world, proxy_session, channel_state, tables, frontend, bridge, told>>

Reload ==
    /\ reloads < MaxReloads
    /\ reloads' = reloads + 1
    /\ offers' = ~offers
    /\ UNCHANGED <<conn, handler, peers, tables, frontend, bridge, told>>

TargetFails(n) ==
    /\ TargetsMayFail /\ target[n] = "up"
    /\ target' = [target EXCEPT ![n] = "down"]
    /\ UNCHANGED <<conn, world, handler, last_error, drop, tables, frontend, bridge, told>>

(* Fault: the target is not disconnected.                                  *)
DropKeepingTarget(n) ==
    /\ drop[n] = "dropped"
    /\ drop' = [drop EXCEPT ![n] = "disconnected"]
    /\ UNCHANGED <<conn, world, handler, target, last_error, tables, frontend, bridge, told>>

(* The task of Drop: disconnect the target, then log proxy_end.            *)
DropDisconnect(n) ==
    /\ drop[n] = "dropped"
    /\ drop' = [drop EXCEPT ![n] = "disconnected"]
    /\ target' = [target EXCEPT ![n] = "down"]
    /\ UNCHANGED <<conn, world, handler, last_error, tables, frontend, bridge, told>>

DropLog(n) ==
    /\ drop[n] = "disconnected"
    /\ drop' = [drop EXCEPT ![n] = IF last_error[n] THEN "failure" ELSE "success"]
    /\ UNCHANGED <<conn, world, handler, target, last_error, tables, frontend, bridge, told>>

-----------------------------------------------------------------------------
(* The callbacks that open channels and send requests.                     *)

(* channel_open_session: the entry is made first and stays if the target   *)
(* does not open its channel.                                              *)
ChannelOpenSession(c) ==
    /\ Takes /\ frontend[c] = "unused" /\ c \in Channels
    /\ channel_state' = [channel_state EXCEPT ![c] = [request |-> "none", menu_active |-> FALSE]]
    /\ Go("open", c)
    /\ UNCHANGED <<conn, world, proxy_session, peers, tables, frontend, bridge, told>>

(* open_session_channel_by_id                                              *)
OpensSessionChannel(c) ==
    /\ target[proxy_session] = "up"
    /\ session_channels' = [session_channels EXCEPT ![proxy_session] = @ \cup {c}]
    /\ SetBridge(IF bridge[proxy_session][c] = "none" THEN proxy_session ELSE Again, c, "relay")
    /\ UNCHANGED raw_channels

DoesNotOpen ==
    /\ target[proxy_session] = "down" \/ TargetsMayFail
    /\ UNCHANGED <<tables, bridge>>

FinishOpen ==
    /\ call.pc = "open"
    /\ \/ OpensSessionChannel(call.ch) /\ frontend' = [frontend EXCEPT ![call.ch] = "open"]
       \/ DoesNotOpen /\ frontend' = [frontend EXCEPT ![call.ch] = "gone"]
    /\ Return
    /\ UNCHANGED <<conn, world, proxy_session, channel_state, peers, told>>

(* shell_request, exec_request, subsystem_request: the one made last is    *)
(* kept, although RFC 4254 lets a client make only one on a channel.  A    *)
(* request the policy denies is told an exit status and ends the           *)
(* connection.                                                             *)
SessionRequest(c) ==
    /\ Ready(c) /\ c \in Channels
    /\ \E kind \in {"shell", "exec"} :
          channel_state' = [channel_state EXCEPT ![c].request = kind]
    /\ told' = IF \E n \in Bridges : bridge[n][c] = "exited" THEN told \cup {c} ELSE told
    /\ Go("request", c)
    /\ UNCHANGED <<conn, world, proxy_session, peers, tables, frontend, bridge>>

(* Fault: a request that cannot be relayed leaves the channel open.        *)
RelayRequestLeavingOpen ==
    /\ call.pc = "request"
    /\ \/ UNCHANGED <<conn, told>>
       \/ /\ channel_state[call.ch].request = "exec"
          /\ conn' = "leaving"
          /\ told' = told \cup {call.ch}
    /\ Return
    /\ UNCHANGED <<world, proxy_session, channel_state, peers, tables, frontend, bridge>>

RelayRequest ==
    /\ call.pc = "request"
    /\ \/ /\ Relays(proxy_session, call.ch)
          /\ UNCHANGED <<conn, frontend, told>>
       \/ /\ ~Relays(proxy_session, call.ch)
          /\ CloseFrontend(call.ch)     \* fail_channel_request
          /\ UNCHANGED <<conn, told>>
       \/ /\ channel_state[call.ch].request = "exec"
          /\ conn' = "leaving"          \* deny_protocol_and_disconnect
          /\ told' = told \cup {call.ch}
          /\ UNCHANGED frontend
    /\ Return
    /\ UNCHANGED <<world, proxy_session, channel_state, peers, tables, bridge>>

(* Fault: the channel is entered with the session channels.                *)
ChannelOpenDirectTcpipAsSession(c) ==
    /\ Takes /\ frontend[c] = "unused" /\ c \in RawChannels
    /\ target[proxy_session] = "up"
    /\ session_channels' = [session_channels EXCEPT ![proxy_session] = @ \cup {c}]
    /\ SetBridge(proxy_session, c, "relay")
    /\ frontend' = [frontend EXCEPT ![c] = "open"]
    /\ UNCHANGED <<conn, world, handler, peers, raw_channels, told>>

(* channel_open_direct_tcpip, when the policy lets it                      *)
ChannelOpenDirectTcpip(c) ==
    /\ Takes /\ frontend[c] = "unused" /\ c \in RawChannels
    /\ \/ /\ target[proxy_session] = "up"
          /\ raw_channels' = [raw_channels EXCEPT ![proxy_session] = @ \cup {c}]
          /\ SetBridge(proxy_session, c, "relay")
          /\ frontend' = [frontend EXCEPT ![c] = "open"]
       \/ /\ DoesNotOpen
          /\ frontend' = [frontend EXCEPT ![c] = "gone"]
          /\ UNCHANGED raw_channels
    /\ UNCHANGED <<conn, world, handler, peers, session_channels, told>>

(* server_channel_open_forwarded_tcpip and server_channel_open_x11: the    *)
(* client has its channel before the table has the target's.               *)
ServerChannelOpen(n, c) ==
    /\ target[n] = "up" /\ conn # "over" /\ frontend[c] = "unused" /\ c \in RawChannels
    /\ frontend' = [frontend EXCEPT ![c] = "open"]
    /\ SetBridge(n, c, "opening")
    /\ UNCHANGED <<conn, world, handler, peers, tables, told>>

SpawnRawBackendBridge(n, c) ==
    /\ bridge[n][c] = "opening"
    /\ raw_channels' = [raw_channels EXCEPT ![n] = @ \cup {c}]
    /\ SetBridge(n, c, "relay")
    /\ UNCHANGED <<conn, world, handler, peers, session_channels, frontend, told>>

-----------------------------------------------------------------------------
(* The callbacks for what comes on an open channel.                        *)

(* data, up to the lock of the state: a line for the menu or data.         *)
Data(c) ==
    /\ Ready(c)
    /\ \/ c \in Channels /\ channel_state[c].menu_active /\ Go("menu", c)
       \/ (c \in Channels => ~channel_state[c].menu_active) /\ Go("relay", c)
    /\ UNCHANGED <<conn, world, proxy_session, channel_state, peers, tables, frontend, bridge, told>>

(* env_request, pty_request, signal and extended_data do not ask whether   *)
(* there is a menu.                                                        *)
OtherRequest(c) ==
    /\ Ready(c) /\ Signals
    /\ Go("relay", c)
    /\ UNCHANGED <<conn, world, proxy_session, channel_state, peers, tables, frontend, bridge, told>>

RelayData ==
    /\ call.pc = "relay"
    /\ IF Relays(proxy_session, call.ch)
       THEN UNCHANGED <<conn, peers>>
       ELSE AbortProxySession(proxy_session)
    /\ Return
    /\ UNCHANGED <<world, proxy_session, channel_state, tables, frontend, bridge, told>>

(* channel_eof: nothing to do without a backend.                           *)
ChannelEof(c) ==
    /\ Ready(c)
    /\ HasBackend(proxy_session, c) /\ target[proxy_session] = "down"
    /\ AbortProxySession(proxy_session)
    /\ UNCHANGED <<world, handler, tables, frontend, bridge, told>>

(* channel_close: the state is kept when the menu is active.               *)
ChannelClose(c) ==
    /\ Takes /\ frontend[c] \in {"open", "closed"}
    /\ frontend' = [frontend EXCEPT ![c] = "gone"]
    /\ channel_state' = [d \in Channels |->
          IF d = c /\ ~channel_state[d].menu_active THEN Gone ELSE channel_state[d]]
    /\ Go("close", c)
    /\ UNCHANGED <<conn, world, proxy_session, peers, tables, bridge, told>>

(* The target answers the close, or its bridge learns that it is down.     *)
CloseBackend ==
    /\ call.pc = "close"
    /\ LET n == proxy_session IN
          /\ session_channels' = [session_channels EXCEPT ![n] = @ \ {call.ch}]
          /\ raw_channels' = [raw_channels EXCEPT ![n] = @ \ {call.ch}]
          /\ IF HasBackend(n, call.ch) /\ target[n] = "down"
             THEN AbortProxySession(n)
             ELSE UNCHANGED <<conn, peers>>
    /\ Return
    /\ UNCHANGED <<world, proxy_session, channel_state, frontend, bridge, told>>

-----------------------------------------------------------------------------
(* handle_menu_channel_input, once a line is complete.                     *)

MenuSelect ==
    /\ call.pc = "menu"
    /\ LET c == call.ch IN
          \/ /\ conn' = "leaving"           \* q
             /\ Return
             /\ UNCHANGED <<channel_state, peers>>
          \/ /\ ~offers                     \* no menu to show: an error
             /\ End
             /\ UNCHANGED channel_state
          \/ /\ offers                      \* an invalid choice
             /\ Return
             /\ UNCHANGED <<conn, channel_state, peers>>
          \/ /\ offers
             /\ channel_state' = [channel_state EXCEPT ![c].menu_active = FALSE]
             /\ Go("connect", c)
             /\ UNCHANGED <<conn, peers>>
    /\ UNCHANGED <<world, proxy_session, tables, frontend, bridge, told>>

(* connect_selected_target: without a policy it is an error.  A target     *)
(* that cannot be reached asks for the end of the connection, but the      *)
(* callback goes on with the old session.                                  *)
ConnectSelectedTarget ==
    /\ call.pc = "connect"
    /\ \/ /\ ~offers
          /\ End
          /\ UNCHANGED proxy_session
       \/ /\ proxy_session < MaxSessions
          /\ LET n == proxy_session + 1 IN
                /\ proxy_session' = n
                /\ target' = [target EXCEPT ![n] = "up"]
                /\ drop' = [drop EXCEPT ![n] = "held", ![n - 1] = "dropped"]
          /\ Go("reopen", call.ch)
          /\ UNCHANGED <<conn, last_error>>
       \/ /\ conn' = "leaving"
          /\ Go("reopen", call.ch)
          /\ UNCHANGED <<proxy_session, peers>>
    /\ UNCHANGED <<world, channel_state, tables, frontend, bridge, told>>

Reopen ==
    /\ call.pc = "reopen"
    /\ \/ /\ OpensSessionChannel(call.ch)
          /\ Go("replay", call.ch)
          /\ UNCHANGED <<conn, peers>>
       \/ /\ DoesNotOpen
          /\ End
    /\ UNCHANGED <<world, proxy_session, channel_state, frontend, told>>

(* The PTY and the shell are asked for again; an error ends the callback   *)
(* and the connection.                                                     *)
Replay ==
    /\ call.pc = "replay"
    /\ IF Relays(proxy_session, call.ch) \/ channel_state[call.ch] = Gone
       THEN Return /\ UNCHANGED <<conn, peers>>
       ELSE End
    /\ UNCHANGED <<world, proxy_session, channel_state, tables, frontend, bridge, told>>

-----------------------------------------------------------------------------
(* relay_backend_session, the bridge of a session channel.  It still has   *)
(* the messages that came before its target's connection broke.            *)

Running(n, c) == bridge[n][c] \in {"relay", "exited"}

(* Fault: what was requested on the channel is not asked.                  *)
ReusesMenuForAll(c) == DropToMenu

(* channel_should_reuse_menu                                               *)
ShouldReuseMenu(c) == DropToMenu /\ channel_state[c].request = "shell"

(* Fault: the exit is withheld whatever was requested.                     *)
RelayExitWithheld(n, c) ==
    /\ bridge[n][c] = "relay" /\ c \in Channels
    /\ channel_state[c].request \in {"shell", "exec", "gone"}
    /\ SetBridge(n, c, "exited")
    /\ DropToMenu
    /\ UNCHANGED <<conn, world, handler, peers, tables, frontend, told>>

(* ExitStatus, ExitSignal, Eof: the last but Close.                        *)
RelayExit(n, c) ==
    /\ bridge[n][c] = "relay" /\ c \in Channels
    /\ channel_state[c].request \in {"shell", "exec", "gone"}
    /\ \/ /\ ShouldReuseMenu(c)
          /\ SetBridge(n, c, "exited")
          /\ UNCHANGED told
       \/ /\ ~ShouldReuseMenu(c) /\ conn # "over"
          /\ SetBridge(n, c, "exited")
          /\ told' = told \cup {c}
    /\ UNCHANGED <<conn, world, handler, peers, tables, frontend>>

(* A message that cannot be relayed, or that no target should send.        *)
RelayFails(n, c) ==
    /\ Running(n, c) /\ c \in Channels
    /\ conn = "over" \/ TargetsMayFail
    /\ SetBridge(n, c, "close")
    /\ AbortProxySession(SessionOf(n))
    /\ UNCHANGED <<world, handler, tables, frontend, told>>

(* Fault: the menu is activated before the backend is removed.             *)
RelayCloseKeepingBackend(n, c) ==
    /\ Running(n, c) /\ c \in Channels
    /\ bridge[n][c] = "exited" \/ frontend[c] = "gone" \/ TargetsMayFail
    /\ SetBridge(n, c, "removed")
    /\ IF ShouldReuseMenu(c) THEN UNCHANGED frontend ELSE CloseFrontend(c)
    /\ UNCHANGED <<conn, world, handler, peers, tables, told>>

(* A target closes a channel after its exit or the client's close.         *)
MayClose(n, c) == bridge[n][c] = "exited" \/ frontend[c] = "gone" \/ TargetsMayFail

(* Close: passed on, unless the channel is kept for the menu.              *)
RelayClose(n, c) ==
    /\ Running(n, c) /\ c \in Channels
    /\ MayClose(n, c)
    /\ ShouldReuseMenu(c) \/ conn # "over"
    /\ SetBridge(n, c, "removed")
    /\ session_channels' = [session_channels EXCEPT ![SessionOf(n)] = @ \ {c}]
    /\ told' = told \ {c}
    /\ IF ShouldReuseMenu(c) THEN UNCHANGED frontend ELSE CloseFrontend(c)
    /\ UNCHANGED <<conn, world, handler, peers, raw_channels>>

(* None: the connection to the target is gone.                             *)
RelayEnd(n, c) ==
    /\ Running(n, c) /\ c \in Channels /\ target[SessionOf(n)] = "down"
    /\ SetBridge(n, c, "removed")
    /\ session_channels' = [session_channels EXCEPT ![SessionOf(n)] = @ \ {c}]
    /\ told' = told \ {c}
    /\ UNCHANGED <<conn, world, handler, peers, raw_channels, frontend>>

(* Fault: a channel without a menu is left as it is.                       *)
ActivateMenuOrLeave(n, c) ==
    /\ bridge[n][c] = "removed"
    /\ \/ /\ ~ShouldReuseMenu(c)
          /\ SetBridge(n, c, "done")
          /\ UNCHANGED channel_state
       \/ /\ ShouldReuseMenu(c)
          /\ channel_state' = [channel_state EXCEPT ![c].menu_active = TRUE]
          /\ SetBridge(n, c, "menu")
    /\ UNCHANGED <<conn, world, proxy_session, call, peers, tables, frontend, told>>

(* activate_menu_after_disconnect, up to the unlock of the state           *)
ActivateMenuAfterDisconnect(n, c) ==
    /\ bridge[n][c] = "removed"
    /\ \/ /\ ~ShouldReuseMenu(c)
          /\ SetBridge(n, c, "close")
          /\ UNCHANGED channel_state
       \/ /\ ShouldReuseMenu(c)
          /\ channel_state' = [channel_state EXCEPT ![c].menu_active = TRUE]
          /\ SetBridge(n, c, "menu")
    /\ UNCHANGED <<conn, world, proxy_session, call, peers, tables, frontend, told>>

(* The rest of it: no server to offer and a client that is gone both leave *)
(* menu_active set.                                                        *)
ShowMenu(n, c) ==
    /\ bridge[n][c] = "menu"
    /\ SetBridge(n, c, IF offers /\ conn # "over" THEN "done" ELSE "close")
    /\ UNCHANGED <<conn, world, handler, peers, tables, frontend, told>>

(* The end of the task of spawn_session_bridge                             *)
BridgeCloses(n, c) ==
    /\ bridge[n][c] = "close"
    /\ SetBridge(n, c, "done")
    /\ CloseFrontend(c)
    /\ UNCHANGED <<conn, world, handler, peers, tables, told>>

-----------------------------------------------------------------------------
(* spawn_raw_backend_bridge                                                *)

(* Close, an unexpected message, or no connection; the table keeps its     *)
(* entry.                                                                  *)
RawClose(n, c) ==
    /\ bridge[n][c] = "relay" /\ c \in RawChannels
    /\ \/ UNCHANGED last_error
       \/ /\ TargetsMayFail /\ target[n] = "up"
          /\ last_error' = [last_error EXCEPT ![n] = TRUE]
    /\ SetBridge(n, c, "done")
    /\ CloseFrontend(c)
    /\ UNCHANGED <<conn, world, handler, target, drop, tables, told>>

(* What cannot be relayed is an error, but neither side is closed.         *)
RawFails(n, c) ==
    /\ bridge[n][c] = "relay" /\ c \in RawChannels
    /\ conn = "over"
    /\ last_error' = [last_error EXCEPT ![n] = TRUE]
    /\ SetBridge(n, c, "done")
    /\ UNCHANGED <<conn, world, handler, target, drop, tables, frontend, told>>

-----------------------------------------------------------------------------

(* What the connection task goes on with.  It waits here for what the      *)
(* target answers, and nothing limits that wait.                           *)
Callback ==
    \/ EndConnection
    \/ FinishOpen \/ RelayRequest \/ RelayData \/ CloseBackend
    \/ MenuSelect \/ ConnectSelectedTarget \/ Reopen \/ Replay

DropTask(n) == DropDisconnect(n) \/ DropLog(n)

(* What a bridge does without a message.                                   *)
BridgeTask(n, c) ==
    \/ RelayEnd(n, c) \/ ActivateMenuAfterDisconnect(n, c) \/ ShowMenu(n, c)
    \/ BridgeCloses(n, c)

RawTask(n, c) ==
    \/ SpawnRawBackendBridge(n, c)
    \/ target[n] = "down" /\ RawClose(n, c)

Next ==
    \/ HangUp \/ Reload \/ Callback
    \/ \E c \in Channels : ChannelOpenSession(c) \/ SessionRequest(c)
    \/ \E c \in RawChannels : ChannelOpenDirectTcpip(c)
    \/ \E c \in AllChannels :
          Data(c) \/ OtherRequest(c) \/ ChannelEof(c) \/ ChannelClose(c)
    \/ \E n \in Sessions : TargetFails(n) \/ DropTask(n)
    \/ \E n \in Sessions, c \in RawChannels :
          ServerChannelOpen(n, c) \/ RawTask(n, c) \/ RawClose(n, c) \/ RawFails(n, c)
    \/ \E n \in Bridges, c \in Channels :
          \/ RelayExit(n, c) \/ RelayFails(n, c) \/ RelayClose(n, c)
          \/ BridgeTask(n, c)

Spec == Init /\ [][Next]_vars

(* The runtime runs every task that is ready.  A callback may wait for its *)
(* target for ever, so nothing is assumed of the connection task.          *)
Fairness ==
    /\ \A n \in Sessions : WF_vars(DropTask(n))
    /\ \A n \in Sessions, c \in RawChannels : WF_vars(RawTask(n, c))
    /\ \A n \in Bridges, c \in Channels : WF_vars(BridgeTask(n, c))

FairSpec == Spec /\ Fairness

-----------------------------------------------------------------------------
(* Properties.                                                             *)

(***************************************************************************)
(* README.md:284: the menu is on the channel of a completed shell.  What   *)
(* the client types goes to the menu or to a target, never to a menu while *)
(* the session still has a target channel for it.                          *)
(***************************************************************************)
MenuExclusive ==
    \A c \in Channels :
        channel_state[c].menu_active => ~HasBackend(proxy_session, c)

(***************************************************************************)
(* Through every change of the target, at most one bridge relays to a      *)
(* channel of the client: no two targets' output is mixed.                 *)
(***************************************************************************)
OneWriter ==
    \A c \in Channels :
        \A m, n \in Bridges : Running(m, c) /\ Running(n, c) => m = n

(***************************************************************************)
(* disection.md:542: only a shell that leaves its channel to the menu has  *)
(* its end withheld.  A channel that is closed because the target closed   *)
(* it was told the exit before, unless a second request has replaced the   *)
(* one its exit was withheld for.                                          *)
(***************************************************************************)
ExitTold ==
    [][\A n \in Bridges, c \in Channels :
          (/\ bridge[n][c] = "exited" /\ bridge'[n][c] = "removed"
           /\ frontend[c] = "open" /\ frontend'[c] = "closed")
              => c \in told]_vars

(***************************************************************************)
(* mod.rs:1441: a target chosen in the menu is sent the request stored for *)
(* the channel, and its policy is not asked.  That is never a command or a *)
(* subsystem, even if the client makes more than one request.              *)
(***************************************************************************)
ReplayIsShell ==
    call.pc \in {"connect", "reopen", "replay"} =>
        channel_state[call.ch].request = "shell"

(***************************************************************************)
(* Once the client's connection is over, every target connection it ever   *)
(* had is ended, proxy_end is logged for each, and no task is left.        *)
(***************************************************************************)
Finished ==
    /\ \A n \in Sessions :
          target[n] # "up" /\ drop[n] \in {"none", "success", "failure"}
    /\ \A n \in Bridges, c \in AllChannels : bridge[n][c] \in {"none", "done"}

SessionsEnd == (conn = "over") ~> Finished

(***************************************************************************)
(* When the target of a channel is gone, the channel of an open connection *)
(* gets a menu that is shown or is closed.  Only a callback that waits for *)
(* a target leaves the channel it is for with neither.                     *)
(***************************************************************************)
Waits(c) == call.pc \in {"connect", "reopen"} /\ call.ch = c

MenuShown(c) ==
    /\ channel_state[c].menu_active
    /\ \A n \in Bridges : bridge[n][c] \in {"none", "done"}

Limbo(c) ==
    /\ conn = "open" /\ frontend[c] = "open"
    /\ \A n \in Bridges : ~Running(n, c)
    /\ ~Waits(c) /\ ~MenuShown(c)

NoLimbo == \A c \in Channels : Limbo(c) ~> ~Limbo(c)

(***************************************************************************)
(* disection.md:558: "a clean backend-driven close does not create a false *)
(* proxy failure".  A session records an error only when its target or the *)
(* client's connection is gone.                                            *)
(***************************************************************************)
FailureHasCause ==
    [][\A n \in Sessions :
          last_error'[n] /\ ~last_error[n] => conn = "over" \/ target[n] = "down"]_vars

-----------------------------------------------------------------------------
(* Refinement.                                                             *)

Serves(c) == \E n \in Bridges : Running(n, c)

(* The menu has the channel until another target has it.                   *)
InMenu(c) ==
    \/ channel_state[c].menu_active
    \/ Waits(c)

Writer(c) == IF Serves(c) THEN "target" ELSE IF InMenu(c) THEN "menu" ELSE "nobody"

ServedBy(c) == {n \in Sessions : bridge[n][c] # "none"}

Screen ==
    INSTANCE Terminal WITH
        Targets <- Sessions,
        request <- [c \in Channels |-> channel_state[c].request],
        writer <- [c \in Channels |-> Writer(c)],
        served <- [c \in Channels |-> ServedBy(c)]

(***************************************************************************)
(* README.md:284 and disection.md:542: for the client a channel is a       *)
(* terminal that a target has, then the menu if it was a shell, then a     *)
(* later target.  No order of callbacks, bridges and replaced sessions     *)
(* gives the menu to a command's channel, hands a channel straight from    *)
(* one target to another, or brings it back to an earlier one.             *)
(***************************************************************************)
ImplementsTerminal == Screen!Spec

=============================================================================
