-------------------------- MODULE ProxySessionProofs --------------------------
(***************************************************************************)
(* Proofs about ProxySession for any channels and any number of targets    *)
(* that one connection goes through.                                       *)
(***************************************************************************)
EXTENDS ProxySession, TLAPS

(* A bridge that has not yet left its channel to the menu, nor closed it.  *)
Live(n, c) == bridge[n][c] \in {"relay", "exited", "removed"}

Quiet(c) == \A n \in Bridges : ~Live(n, c)

(* A session channel has one live bridge at most; the menu takes it over   *)
(* only without one.  A live bridge whose session was replaced belongs to  *)
(* a channel the new session does not have, so that whichever session it   *)
(* removes the channel from, the current one is without it.                *)
Channel(c) ==
    /\ frontend[c] = "unused" => \A n \in Bridges : bridge[n][c] = "none"
    /\ \A m, n \in Bridges : Live(m, c) /\ Live(n, c) => m = n
    /\ channel_state[c].menu_active => Quiet(c) /\ c \notin session_channels[proxy_session]
    /\ c \in session_channels[proxy_session] =>
          \A n \in Bridges : Live(n, c) => Running(n, c) /\ n \in {proxy_session, Again}
    /\ \A n \in Bridges :
          bridge[n][c] = "exited" /\ frontend[c] = "open" => c \in told \/ ShouldReuseMenu(c)

(* A callback that opens a channel on the target finds it without a bridge *)
(* and without a menu, whatever the bridges did since it was called.       *)
CallbackInv ==
    /\ call.pc = "open" =>
          frontend[call.ch] = "unused" /\ ~channel_state[call.ch].menu_active
    /\ call.pc = "menu" =>
          frontend[call.ch] # "unused" /\ channel_state[call.ch].menu_active
    /\ call.pc \in {"connect", "reopen"} =>
          /\ frontend[call.ch] # "unused"
          /\ Quiet(call.ch) /\ ~channel_state[call.ch].menu_active

(* A session that is not connected yet has no channels.                    *)
Fresh == \A n \in Sessions : n > proxy_session => session_channels[n] = {}

ProxyInv ==
    /\ TypeOK
    /\ \A c \in Channels : Channel(c)
    /\ CallbackInv
    /\ Fresh

-----------------------------------------------------------------------------
(* Shapes.                                                                 *)

Phases == {"none", "opening", "relay", "exited", "removed", "menu", "close", "done"}

LEMMA Disjoint ==
    /\ \A c \in Channels : c \in AllChannels /\ c \notin RawChannels
    /\ \A c \in RawChannels : c \in AllChannels /\ c \notin Channels
    /\ Sessions \subseteq Bridges /\ Again \in Bridges
    /\ 1 \in Sessions /\ Sessions \subseteq Nat
  BY SessionAssumption DEF AllChannels, Bridges, Sessions

LEMMA SessionOfTyped ==
    ASSUME TypeOK, NEW n \in Bridges
    PROVE  SessionOf(n) \in Sessions
  BY DEF SessionOf, Bridges, Again, TypeOK

LEMMA CallShape ==
    ASSUME NEW k \in Calls
    PROVE  /\ k.pc \in {"idle", "open", "request", "menu", "connect", "reopen", "replay",
                        "data", "relay", "close"}
           /\ k.pc \in {"open", "request", "menu", "connect", "reopen", "replay"}
                 => k.ch \in Channels
           /\ k.pc \in {"data", "relay", "close"} => k.ch \in AllChannels
  BY DEF Calls, IdleCall

LEMMA CallIntro ==
    /\ IdleCall \in Calls /\ IdleCall.pc = "idle"
    /\ \A c \in Channels, p \in {"open", "request", "menu", "connect", "reopen", "replay"} :
          [pc |-> p, ch |-> c] \in Calls
    /\ \A c \in AllChannels, p \in {"data", "relay", "close"} : [pc |-> p, ch |-> c] \in Calls
  BY DEF Calls, IdleCall

LEMMA StateShape ==
    ASSUME NEW x \in SessionChannelState
    PROVE  /\ x.request \in {"none", "shell", "exec", "gone"} /\ x.menu_active \in BOOLEAN
           /\ [x EXCEPT !.menu_active = FALSE] \in SessionChannelState
           /\ [x EXCEPT !.menu_active = FALSE].menu_active = FALSE
           /\ [x EXCEPT !.menu_active = FALSE].request = x.request
           /\ x.request = "shell" =>
                 /\ [x EXCEPT !.menu_active = TRUE] \in SessionChannelState
                 /\ [x EXCEPT !.menu_active = TRUE].request = "shell"
  <1>1. CASE x = Gone
    <2>1. x.request = "gone" /\ x.menu_active = FALSE
      BY <1>1 DEF Gone
    <2>2. [x EXCEPT !.menu_active = FALSE] = x
      <3>. DEFINE y == [x EXCEPT !.menu_active = FALSE]
      <3>1. x \in [request : {"gone"}, menu_active : {FALSE}]
        BY <1>1 DEF Gone
      <3>2. y \in [request : {"gone"}, menu_active : {FALSE}]
        BY <3>1
      <3>. HIDE DEF y
      <3>3. y = [request |-> "gone", menu_active |-> FALSE]
        BY <3>2
      <3>. QED  BY <1>1, <3>3 DEF Gone, y
    <2>. QED  BY <2>1, <2>2
  <1>2. CASE x \in [request : {"none", "shell", "exec"}, menu_active : BOOLEAN]
    <2>1. x.request \in {"none", "shell", "exec"} /\ x.menu_active \in BOOLEAN
      BY <1>2
    <2>2. /\ [x EXCEPT !.menu_active = FALSE] \in
                [request : {"none", "shell", "exec"}, menu_active : BOOLEAN]
          /\ [x EXCEPT !.menu_active = FALSE].menu_active = FALSE
          /\ [x EXCEPT !.menu_active = FALSE].request = x.request
      BY <1>2
    <2>3. /\ [x EXCEPT !.menu_active = TRUE] \in
                [request : {"none", "shell", "exec"}, menu_active : BOOLEAN]
          /\ [x EXCEPT !.menu_active = TRUE].request = x.request
      BY <1>2
    <2>. QED  BY <2>1, <2>2, <2>3 DEF SessionChannelState
  <1>. QED  BY <1>1, <1>2 DEF SessionChannelState

(* The entry of a channel after a request, also if there was none before.  *)
LEMMA RequestStored ==
    ASSUME NEW x \in SessionChannelState, NEW kind \in {"shell", "exec"}
    PROVE  /\ [x EXCEPT !.request = kind] \in SessionChannelState
           /\ [x EXCEPT !.request = kind].menu_active = x.menu_active
           /\ [x EXCEPT !.request = kind].request = kind
  <1>1. x \in [request : {"none", "shell", "exec", "gone"}, menu_active : BOOLEAN]
    <2>1. Gone \in [request : {"none", "shell", "exec", "gone"}, menu_active : BOOLEAN]
      BY DEF Gone
    <2>. QED  BY <2>1 DEF SessionChannelState
  <1>2. [x EXCEPT !.request = kind] \in [request : {"none", "shell", "exec"}, menu_active : BOOLEAN]
    BY <1>1
  <1>. QED  BY <1>1, <1>2 DEF SessionChannelState

LEMMA BridgeShape ==
    ASSUME NEW b \in [Bridges -> [AllChannels -> Phases]],
           NEW n \in Bridges, NEW c \in AllChannels, NEW p \in Phases
    PROVE  LET a == [b EXCEPT ![n][c] = p] IN
           /\ a \in [Bridges -> [AllChannels -> Phases]]
           /\ a[n][c] = p
           /\ \A m \in Bridges, d \in AllChannels : m # n \/ d # c => a[m][d] = b[m][d]
  OBVIOUS

-----------------------------------------------------------------------------
(* Type correctness.                                                       *)

LEMMA AbortTyped ==
    ASSUME TypeOK, NEW n \in Sessions, AbortProxySession(n)
    PROVE  /\ last_error' \in [Sessions -> BOOLEAN]
           /\ conn' \in {"open", "ending", "leaving", "over"}
           /\ target' \in [Sessions -> {"none", "up", "down"}]
           /\ UNCHANGED drop
  BY DEF TypeOK, AbortProxySession

LEMMA EndTyped ==
    ASSUME TypeOK, End
    PROVE  /\ conn' \in {"open", "ending", "leaving", "over"}
           /\ call' \in Calls
           /\ drop' \in
                 [Sessions -> {"none", "held", "dropped", "disconnected", "success", "failure"}]
           /\ UNCHANGED <<target, last_error>>
  BY CallIntro DEF TypeOK, End

LEMMA CloseFrontendTyped ==
    ASSUME TypeOK, NEW c \in AllChannels, CloseFrontend(c)
    PROVE  frontend' \in [AllChannels -> {"unused", "open", "closed", "gone"}]
  BY DEF TypeOK, CloseFrontend

LEMMA SetBridgeTyped ==
    ASSUME TypeOK, NEW n \in Bridges, NEW c \in AllChannels, NEW p \in Phases, SetBridge(n, c, p)
    PROVE  bridge' \in [Bridges -> [AllChannels -> Phases]]
  BY BridgeShape DEF TypeOK, SetBridge, Phases

LEMMA OpensTyped ==
    ASSUME TypeOK, NEW c \in Channels, OpensSessionChannel(c)
    PROVE  /\ session_channels' \in [Sessions -> SUBSET Channels]
           /\ bridge' \in [Bridges -> [AllChannels -> Phases]]
           /\ UNCHANGED raw_channels
  <1>1. proxy_session \in Bridges /\ Again \in Bridges /\ c \in AllChannels
    BY Disjoint DEF TypeOK
  <1>2. session_channels' \in [Sessions -> SUBSET Channels] /\ UNCHANGED raw_channels
    BY DEF OpensSessionChannel, TypeOK
  <1>. QED  BY <1>1, <1>2, SetBridgeTyped DEF OpensSessionChannel, Phases

LEMMA TypeConnection ==
    ASSUME TypeOK,
           \/ EndConnection \/ HangUp \/ Reload
           \/ \E n \in Sessions : TargetFails(n) \/ DropTask(n)
    PROVE  TypeOK'
  <1>1. CASE EndConnection \/ HangUp
    <2>1. /\ End
          /\ UNCHANGED <<world, proxy_session, channel_state, tables, frontend, bridge, told>>
      BY <1>1 DEF EndConnection, HangUp
    <2>. QED  BY <2>1, EndTyped DEF TypeOK, world, tables
  <1>2. CASE Reload
    <2>1. reloads' \in 0 .. MaxReloads
      BY <1>2, SessionAssumption DEF Reload, TypeOK
    <2>2. offers' \in BOOLEAN
      BY <1>2 DEF Reload, TypeOK
    <2>3. UNCHANGED <<conn, handler, peers, tables, frontend, bridge, told>>
      BY <1>2 DEF Reload
    <2>. QED  BY <2>1, <2>2, <2>3 DEF TypeOK, handler, peers, tables
  <1>3. ASSUME NEW n \in Sessions, TargetFails(n)
        PROVE  TypeOK'
    BY <1>3 DEF TargetFails, TypeOK, world, handler, tables
  <1>4. ASSUME NEW n \in Sessions, DropDisconnect(n)
        PROVE  TypeOK'
    BY <1>4 DEF DropDisconnect, TypeOK, world, handler, tables
  <1>5. ASSUME NEW n \in Sessions, DropLog(n)
        PROVE  TypeOK'
    BY <1>5 DEF DropLog, TypeOK, world, handler, tables
  <1>. QED  BY <1>1, <1>2, <1>3, <1>4, <1>5 DEF DropTask

LEMMA TypeCallbacks ==
    ASSUME TypeOK,
           \/ FinishOpen \/ RelayRequest \/ RelayData \/ CloseBackend
           \/ MenuSelect \/ ConnectSelectedTarget \/ Reopen \/ Replay
    PROVE  TypeOK'
  <1>0. /\ call \in Calls /\ IdleCall \in Calls /\ proxy_session \in Sessions
        /\ target \in [Sessions -> {"none", "up", "down"}]
        /\ last_error \in [Sessions -> BOOLEAN]
        /\ drop \in [Sessions -> {"none", "held", "dropped", "disconnected", "success", "failure"}]
    BY CallIntro DEF TypeOK
  <1>1. CASE FinishOpen
    <2>1. call.ch \in Channels /\ call.ch \in AllChannels
      BY <1>0, <1>1, CallShape, Disjoint DEF FinishOpen
    <2>2. /\ session_channels' \in [Sessions -> SUBSET Channels]
          /\ bridge' \in [Bridges -> [AllChannels -> Phases]]
          /\ UNCHANGED raw_channels
          /\ frontend' \in [AllChannels -> {"unused", "open", "closed", "gone"}]
      <3>1. CASE OpensSessionChannel(call.ch)
        BY <1>1, <2>1, <3>1, OpensTyped DEF FinishOpen, TypeOK
      <3>2. CASE DoesNotOpen
        BY <1>1, <2>1, <3>2 DEF FinishOpen, DoesNotOpen, TypeOK, tables, Phases
      <3>. QED  BY <1>1, <3>1, <3>2 DEF FinishOpen
    <2>3. /\ call' = IdleCall
          /\ UNCHANGED <<conn, world, proxy_session, channel_state, peers, told>>
      BY <1>1 DEF FinishOpen, Return
    <2>. QED  BY <1>0, <2>2, <2>3 DEF TypeOK, world, peers, Phases
  <1>2. CASE RelayRequest
    <2>1. call.ch \in Channels /\ call.ch \in AllChannels
      BY <1>0, <1>2, CallShape, Disjoint DEF RelayRequest
    <2>2. /\ conn' \in {"open", "ending", "leaving", "over"}
          /\ told' \subseteq Channels
          /\ frontend' \in [AllChannels -> {"unused", "open", "closed", "gone"}]
      BY <1>2, <2>1, CloseFrontendTyped DEF RelayRequest, TypeOK
    <2>3. /\ call' = IdleCall
          /\ UNCHANGED <<world, proxy_session, channel_state, peers, tables, bridge>>
      BY <1>2 DEF RelayRequest, Return
    <2>. QED  BY <1>0, <2>2, <2>3 DEF TypeOK, world, peers, tables
  <1>3. CASE RelayData
    <2>1. /\ last_error' \in [Sessions -> BOOLEAN]
          /\ conn' \in {"open", "ending", "leaving", "over"}
          /\ target' \in [Sessions -> {"none", "up", "down"}]
          /\ UNCHANGED drop
      BY <1>0, <1>3, AbortTyped DEF RelayData, TypeOK, peers
    <2>2. /\ call' = IdleCall
          /\ UNCHANGED <<world, proxy_session, channel_state, tables, frontend, bridge, told>>
      BY <1>3 DEF RelayData, Return
    <2>. QED  BY <1>0, <2>1, <2>2 DEF TypeOK, world, tables
  <1>4. CASE CloseBackend
    <2>1. /\ last_error' \in [Sessions -> BOOLEAN]
          /\ conn' \in {"open", "ending", "leaving", "over"}
          /\ target' \in [Sessions -> {"none", "up", "down"}]
          /\ UNCHANGED drop
      BY <1>0, <1>4, AbortTyped DEF CloseBackend, TypeOK, peers
    <2>2. /\ session_channels' \in [Sessions -> SUBSET Channels]
          /\ raw_channels' \in [Sessions -> SUBSET RawChannels]
      BY <1>4 DEF CloseBackend, TypeOK
    <2>3. /\ call' = IdleCall
          /\ UNCHANGED <<world, proxy_session, channel_state, frontend, bridge, told>>
      BY <1>4 DEF CloseBackend, Return
    <2>. QED  BY <1>0, <2>1, <2>2, <2>3 DEF TypeOK, world
  <1>5. CASE MenuSelect
    <2>1. call.ch \in Channels /\ channel_state[call.ch] \in SessionChannelState
      BY <1>0, <1>5, CallShape DEF MenuSelect, TypeOK
    <2>2. UNCHANGED <<world, proxy_session, tables, frontend, bridge, told>>
      BY <1>5 DEF MenuSelect
    <2>3. CASE End /\ UNCHANGED channel_state
      BY <2>2, <2>3, EndTyped DEF TypeOK, world, tables
    <2>4. CASE /\ conn' \in {conn, "leaving"} /\ call' = IdleCall
               /\ UNCHANGED <<channel_state, peers>>
      BY <1>0, <2>2, <2>4 DEF TypeOK, world, tables, peers
    <2>5. CASE /\ channel_state' = [channel_state EXCEPT ![call.ch].menu_active = FALSE]
               /\ Go("connect", call.ch)
               /\ UNCHANGED <<conn, peers>>
      <3>1. channel_state' \in [Channels -> SessionChannelState]
        BY <2>1, <2>5, StateShape DEF TypeOK
      <3>2. call' \in Calls
        BY <2>1, <2>5, CallIntro DEF Go
      <3>. QED  BY <2>2, <2>5, <3>1, <3>2 DEF TypeOK, world, tables, peers
    <2>. QED  BY <1>5, <2>3, <2>4, <2>5 DEF MenuSelect, Return
  <1>6. CASE ConnectSelectedTarget
    <2>1. call.ch \in Channels
      BY <1>0, <1>6, CallShape DEF ConnectSelectedTarget
    <2>2. UNCHANGED <<world, channel_state, tables, frontend, bridge, told>>
      BY <1>6 DEF ConnectSelectedTarget
    <2>3. CASE End /\ UNCHANGED proxy_session
      BY <2>2, <2>3, EndTyped DEF TypeOK, world, tables
    <2>4. CASE /\ proxy_session < MaxSessions
               /\ LET n == proxy_session + 1 IN
                     /\ proxy_session' = n
                     /\ target' = [target EXCEPT ![n] = "up"]
                     /\ drop' = [drop EXCEPT ![n] = "held", ![n - 1] = "dropped"]
               /\ Go("reopen", call.ch)
               /\ UNCHANGED <<conn, last_error>>
      <3>1. proxy_session + 1 \in Sessions
        BY <1>0, <2>4, SessionAssumption DEF Sessions
      <3>2. call' \in Calls
        BY <2>1, <2>4, CallIntro DEF Go
      <3>3. /\ proxy_session' \in Sessions
            /\ target' \in [Sessions -> {"none", "up", "down"}]
            /\ drop' \in
                  [Sessions -> {"none", "held", "dropped", "disconnected", "success", "failure"}]
        BY <1>0, <2>4, <3>1
      <3>. QED  BY <2>2, <2>4, <3>2, <3>3 DEF TypeOK, world, tables
    <2>5. CASE /\ conn' = "leaving"
               /\ Go("reopen", call.ch)
               /\ UNCHANGED <<proxy_session, peers>>
      <3>1. call' \in Calls
        BY <2>1, <2>5, CallIntro DEF Go
      <3>. QED  BY <2>2, <2>5, <3>1 DEF TypeOK, world, tables, peers
    <2>. QED  BY <1>6, <2>3, <2>4, <2>5 DEF ConnectSelectedTarget
  <1>7. CASE Reopen
    <2>1. call.ch \in Channels
      BY <1>0, <1>7, CallShape DEF Reopen
    <2>2. UNCHANGED <<world, proxy_session, channel_state, frontend, told>>
      BY <1>7 DEF Reopen
    <2>3. CASE OpensSessionChannel(call.ch) /\ Go("replay", call.ch) /\ UNCHANGED <<conn, peers>>
      <3>1. call' \in Calls
        BY <2>1, <2>3, CallIntro DEF Go
      <3>. QED  BY <2>1, <2>2, <2>3, <3>1, OpensTyped DEF TypeOK, world, peers, Phases
    <2>4. CASE DoesNotOpen /\ End
      BY <2>2, <2>4, EndTyped DEF DoesNotOpen, TypeOK, world, tables
    <2>. QED  BY <1>7, <2>3, <2>4 DEF Reopen
  <1>8. CASE Replay
    <2>1. UNCHANGED <<world, proxy_session, channel_state, tables, frontend, bridge, told>>
      BY <1>8 DEF Replay
    <2>2. CASE call' = IdleCall /\ UNCHANGED <<conn, peers>>
      BY <1>0, <2>1, <2>2 DEF TypeOK, world, tables, peers
    <2>3. CASE End
      BY <2>1, <2>3, EndTyped DEF TypeOK, world, tables
    <2>. QED  BY <1>8, <2>2, <2>3 DEF Replay, Return
  <1>. QED  BY <1>1, <1>2, <1>3, <1>4, <1>5, <1>6, <1>7, <1>8

LEMMA TypeChannels ==
    ASSUME TypeOK,
           \/ \E c \in Channels : ChannelOpenSession(c) \/ SessionRequest(c)
           \/ \E c \in AllChannels :
                 Data(c) \/ OtherRequest(c) \/ ChannelEof(c) \/ ChannelClose(c)
    PROVE  TypeOK'
  <1>1. ASSUME NEW c \in Channels, ChannelOpenSession(c)
        PROVE  TypeOK'
    <2>. DEFINE x == [request |-> "none", menu_active |-> FALSE]
    <2>1. x \in SessionChannelState
      BY DEF SessionChannelState
    <2>. HIDE DEF x
    <2>2. channel_state' = [channel_state EXCEPT ![c] = x]
      BY <1>1 DEF ChannelOpenSession, x
    <2>3. call' \in Calls
      BY <1>1, CallIntro DEF ChannelOpenSession, Go
    <2>4. UNCHANGED <<conn, world, proxy_session, peers, tables, frontend, bridge, told>>
      BY <1>1 DEF ChannelOpenSession
    <2>. QED  BY <2>1, <2>2, <2>3, <2>4 DEF TypeOK, world, peers, tables
  <1>2. ASSUME NEW c \in Channels, SessionRequest(c)
        PROVE  TypeOK'
    <2>0. channel_state \in [Channels -> SessionChannelState]
      BY DEF TypeOK
    <2>1. channel_state' \in [Channels -> SessionChannelState]
      <3>1. PICK kind \in {"shell", "exec"} :
               channel_state' = [channel_state EXCEPT ![c] = [@ EXCEPT !.request = kind]]
        BY <1>2 DEF SessionRequest
      <3>2. [channel_state[c] EXCEPT !.request = kind] \in SessionChannelState
        BY <2>0, RequestStored
      <3>. QED  BY <2>0, <3>1, <3>2
    <2>2. call' \in Calls
      BY <1>2, CallIntro DEF SessionRequest, Go
    <2>3. UNCHANGED <<conn, world, proxy_session, peers, tables, frontend, bridge>>
      BY <1>2 DEF SessionRequest
    <2>4. told' \subseteq Channels
      BY <1>2 DEF SessionRequest, TypeOK
    <2>. QED  BY <2>1, <2>2, <2>3, <2>4 DEF TypeOK, world, peers, tables
  <1>3. ASSUME NEW c \in AllChannels, Data(c) \/ OtherRequest(c)
        PROVE  TypeOK'
    <2>1. call' \in Calls
      BY <1>3, CallIntro DEF Data, OtherRequest, Go
    <2>2. UNCHANGED <<conn, world, proxy_session, channel_state, peers, tables, frontend, bridge,
                      told>>
      BY <1>3 DEF Data, OtherRequest
    <2>. QED  BY <2>1, <2>2 DEF TypeOK, world, peers, tables
  <1>4. ASSUME NEW c \in AllChannels, ChannelEof(c)
        PROVE  TypeOK'
    <2>1. /\ last_error' \in [Sessions -> BOOLEAN]
          /\ conn' \in {"open", "ending", "leaving", "over"}
          /\ target' \in [Sessions -> {"none", "up", "down"}]
          /\ UNCHANGED drop
      BY <1>4, AbortTyped DEF ChannelEof, TypeOK
    <2>2. UNCHANGED <<world, handler, tables, frontend, bridge, told>>
      BY <1>4 DEF ChannelEof
    <2>. QED  BY <2>1, <2>2 DEF TypeOK, world, handler, tables
  <1>5. ASSUME NEW c \in AllChannels, ChannelClose(c)
        PROVE  TypeOK'
    <2>1. Gone \in SessionChannelState
      BY DEF SessionChannelState
    <2>2. /\ channel_state' \in [Channels -> SessionChannelState]
          /\ frontend' \in [AllChannels -> {"unused", "open", "closed", "gone"}]
      BY <1>5, <2>1 DEF ChannelClose, TypeOK
    <2>3. call' \in Calls
      BY <1>5, CallIntro DEF ChannelClose, Go
    <2>4. UNCHANGED <<conn, world, proxy_session, peers, tables, bridge, told>>
      BY <1>5 DEF ChannelClose
    <2>. QED  BY <2>2, <2>3, <2>4 DEF TypeOK, world, peers, tables
  <1>. QED  BY <1>1, <1>2, <1>3, <1>4, <1>5

LEMMA TypeRaw ==
    ASSUME TypeOK, NEW c \in RawChannels,
           \/ ChannelOpenDirectTcpip(c)
           \/ \E n \in Sessions :
                 ServerChannelOpen(n, c) \/ RawTask(n, c) \/ RawClose(n, c) \/ RawFails(n, c)
    PROVE  TypeOK'
  <1>0. /\ c \in AllChannels /\ Sessions \subseteq Bridges /\ proxy_session \in Sessions
        /\ {"opening", "relay", "done"} \subseteq Phases
    BY Disjoint DEF TypeOK, Phases
  <1>1. CASE ChannelOpenDirectTcpip(c)
    <2>1. bridge' \in [Bridges -> [AllChannels -> Phases]]
      BY <1>0, <1>1, SetBridgeTyped DEF ChannelOpenDirectTcpip, DoesNotOpen, TypeOK, Phases
    <2>2. /\ raw_channels' \in [Sessions -> SUBSET RawChannels]
          /\ frontend' \in [AllChannels -> {"unused", "open", "closed", "gone"}]
      <3>1. /\ raw_channels \in [Sessions -> SUBSET RawChannels]
            /\ frontend \in [AllChannels -> {"unused", "open", "closed", "gone"}]
        BY DEF TypeOK
      <3>2. raw_channels' \in
               {raw_channels, [raw_channels EXCEPT ![proxy_session] = @ \cup {c}]}
        BY <1>1 DEF ChannelOpenDirectTcpip
      <3>3. \E k \in {"open", "gone"} : frontend' = [frontend EXCEPT ![c] = k]
        BY <1>1 DEF ChannelOpenDirectTcpip
      <3>. QED  BY <3>1, <3>2, <3>3
    <2>3. UNCHANGED <<conn, world, handler, peers, session_channels, told>>
      BY <1>1 DEF ChannelOpenDirectTcpip
    <2>. QED  BY <2>1, <2>2, <2>3 DEF TypeOK, world, peers, handler, Phases
  <1>2. ASSUME NEW n \in Sessions, ServerChannelOpen(n, c)
        PROVE  TypeOK'
    <2>1. bridge' \in [Bridges -> [AllChannels -> Phases]]
      BY <1>0, <1>2, SetBridgeTyped DEF ServerChannelOpen
    <2>2. frontend' \in [AllChannels -> {"unused", "open", "closed", "gone"}]
      BY <1>0, <1>2 DEF ServerChannelOpen, TypeOK
    <2>3. UNCHANGED <<conn, world, handler, peers, tables, told>>
      BY <1>2 DEF ServerChannelOpen
    <2>. QED  BY <2>1, <2>2, <2>3 DEF TypeOK, world, peers, handler, tables, Phases
  <1>3. ASSUME NEW n \in Sessions, SpawnRawBackendBridge(n, c)
        PROVE  TypeOK'
    <2>1. bridge' \in [Bridges -> [AllChannels -> Phases]]
      BY <1>0, <1>3, SetBridgeTyped DEF SpawnRawBackendBridge
    <2>2. raw_channels' \in [Sessions -> SUBSET RawChannels]
      BY <1>0, <1>3 DEF SpawnRawBackendBridge, TypeOK
    <2>3. UNCHANGED <<conn, world, handler, peers, session_channels, frontend, told>>
      BY <1>3 DEF SpawnRawBackendBridge
    <2>. QED  BY <2>1, <2>2, <2>3 DEF TypeOK, world, peers, handler, Phases
  <1>4. ASSUME NEW n \in Sessions, RawClose(n, c) \/ RawFails(n, c)
        PROVE  TypeOK'
    <2>1. bridge' \in [Bridges -> [AllChannels -> Phases]]
      BY <1>0, <1>4, SetBridgeTyped DEF RawClose, RawFails
    <2>2. frontend' \in [AllChannels -> {"unused", "open", "closed", "gone"}]
      BY <1>0, <1>4, CloseFrontendTyped DEF RawClose, RawFails, TypeOK
    <2>3. last_error' \in [Sessions -> BOOLEAN]
      BY <1>4 DEF RawClose, RawFails, TypeOK
    <2>4. UNCHANGED <<conn, world, handler, target, drop, tables, told>>
      BY <1>4 DEF RawClose, RawFails
    <2>. QED  BY <2>1, <2>2, <2>3, <2>4 DEF TypeOK, world, handler, tables, Phases
  <1>. QED  BY <1>1, <1>2, <1>3, <1>4 DEF RawTask

LEMMA TypeBridges ==
    ASSUME TypeOK, NEW n \in Bridges, NEW c \in Channels,
           \/ RelayExit(n, c) \/ RelayFails(n, c) \/ RelayClose(n, c)
           \/ BridgeTask(n, c)
    PROVE  TypeOK'
  <1>0. /\ c \in AllChannels /\ SessionOf(n) \in Sessions
        /\ {"exited", "removed", "menu", "close", "done"} \subseteq Phases
    BY Disjoint, SessionOfTyped DEF Phases
  <1>1. CASE RelayExit(n, c)
    <2>1. bridge' \in [Bridges -> [AllChannels -> Phases]]
      BY <1>0, <1>1, SetBridgeTyped DEF RelayExit
    <2>2. told' \subseteq Channels
      BY <1>1 DEF RelayExit, TypeOK
    <2>3. UNCHANGED <<conn, world, handler, peers, tables, frontend>>
      BY <1>1 DEF RelayExit
    <2>. QED  BY <2>1, <2>2, <2>3 DEF TypeOK, world, peers, handler, tables, Phases
  <1>2. CASE RelayFails(n, c)
    <2>1. bridge' \in [Bridges -> [AllChannels -> Phases]]
      BY <1>0, <1>2, SetBridgeTyped DEF RelayFails
    <2>2. /\ last_error' \in [Sessions -> BOOLEAN]
          /\ conn' \in {"open", "ending", "leaving", "over"}
          /\ target' \in [Sessions -> {"none", "up", "down"}]
          /\ UNCHANGED drop
      BY <1>0, <1>2, AbortTyped DEF RelayFails
    <2>3. UNCHANGED <<world, handler, tables, frontend, told>>
      BY <1>2 DEF RelayFails
    <2>. QED  BY <2>1, <2>2, <2>3 DEF TypeOK, world, handler, tables, Phases
  <1>3. CASE RelayClose(n, c) \/ RelayEnd(n, c)
    <2>1. bridge' \in [Bridges -> [AllChannels -> Phases]]
      BY <1>0, <1>3, SetBridgeTyped DEF RelayClose, RelayEnd
    <2>2. session_channels' \in [Sessions -> SUBSET Channels]
      BY <1>0, <1>3 DEF RelayClose, RelayEnd, TypeOK
    <2>3. frontend' \in [AllChannels -> {"unused", "open", "closed", "gone"}]
      BY <1>0, <1>3, CloseFrontendTyped DEF RelayClose, RelayEnd, TypeOK
    <2>4. UNCHANGED <<conn, world, handler, peers, raw_channels>>
      BY <1>3 DEF RelayClose, RelayEnd
    <2>5. told' \subseteq Channels
      BY <1>3 DEF RelayClose, RelayEnd, TypeOK
    <2>. QED  BY <2>1, <2>2, <2>3, <2>4, <2>5 DEF TypeOK, world, peers, handler, Phases
  <1>4. CASE ActivateMenuAfterDisconnect(n, c)
    <2>1. bridge' \in [Bridges -> [AllChannels -> Phases]]
      BY <1>0, <1>4, SetBridgeTyped DEF ActivateMenuAfterDisconnect
    <2>2. channel_state' \in [Channels -> SessionChannelState]
      <3>0. channel_state \in [Channels -> SessionChannelState]
        BY DEF TypeOK
      <3>1. CASE UNCHANGED channel_state
        BY <3>0, <3>1
      <3>2. CASE /\ channel_state[c].request = "shell"
                 /\ channel_state' = [channel_state EXCEPT ![c] = [@ EXCEPT !.menu_active = TRUE]]
        <4>1. [channel_state[c] EXCEPT !.menu_active = TRUE] \in SessionChannelState
          BY <3>0, <3>2, StateShape
        <4>. QED  BY <3>0, <3>2, <4>1
      <3>. QED  BY <1>4, <3>1, <3>2 DEF ActivateMenuAfterDisconnect, ShouldReuseMenu
    <2>3. UNCHANGED <<conn, world, proxy_session, call, peers, tables, frontend, told>>
      BY <1>4 DEF ActivateMenuAfterDisconnect
    <2>. QED  BY <2>1, <2>2, <2>3 DEF TypeOK, world, peers, tables, Phases
  <1>5. CASE ShowMenu(n, c) \/ BridgeCloses(n, c)
    <2>1. bridge' \in [Bridges -> [AllChannels -> Phases]]
      BY <1>0, <1>5, SetBridgeTyped DEF ShowMenu, BridgeCloses
    <2>2. frontend' \in [AllChannels -> {"unused", "open", "closed", "gone"}]
      BY <1>0, <1>5, CloseFrontendTyped DEF ShowMenu, BridgeCloses, TypeOK
    <2>3. UNCHANGED <<conn, world, handler, peers, tables, told>>
      BY <1>5 DEF ShowMenu, BridgeCloses
    <2>. QED  BY <2>1, <2>2, <2>3 DEF TypeOK, world, peers, handler, tables, Phases
  <1>. QED  BY <1>1, <1>2, <1>3, <1>4, <1>5 DEF BridgeTask

LEMMA TypeNext == TypeOK /\ [Next]_vars => TypeOK'
  <1>. SUFFICES ASSUME TypeOK, [Next]_vars PROVE TypeOK'
    OBVIOUS
  <1>1. CASE UNCHANGED vars
    BY <1>1 DEF vars, TypeOK, world, handler, peers, tables
  <1>. QED
    BY <1>1, TypeConnection, TypeCallbacks, TypeChannels, TypeRaw, TypeBridges DEF Next, Callback

LEMMA TypeInit == Init => TypeOK
  <1>. SUFFICES ASSUME Init PROVE TypeOK
    OBVIOUS
  <1>1. Gone \in SessionChannelState /\ IdleCall \in Calls /\ 1 \in Sessions
    BY CallIntro, Disjoint DEF SessionChannelState
  <1>2. 0 \in 0 .. MaxReloads
    BY SessionAssumption
  <1>3. conn = "open" /\ offers = TRUE /\ reloads = 0 /\ proxy_session = 1 /\ call = IdleCall
    BY DEF Init
  <1>4. /\ target \in [Sessions -> {"none", "up", "down"}]
        /\ last_error \in [Sessions -> BOOLEAN]
        /\ drop \in
              [Sessions -> {"none", "held", "dropped", "disconnected", "success", "failure"}]
    BY DEF Init
  <1>5. /\ session_channels \in [Sessions -> SUBSET Channels]
        /\ raw_channels \in [Sessions -> SUBSET RawChannels]
        /\ told \subseteq Channels
    BY DEF Init
  <1>6. /\ channel_state \in [Channels -> SessionChannelState]
        /\ frontend \in [AllChannels -> {"unused", "open", "closed", "gone"}]
        /\ bridge \in [Bridges -> [AllChannels -> Phases]]
    BY <1>1 DEF Init, Phases
  <1>. QED  BY <1>1, <1>2, <1>3, <1>4, <1>5, <1>6 DEF TypeOK, Phases

-----------------------------------------------------------------------------
(* What leaves a channel, the running callback and the tables in order.    *)

(* Bridges only go on, menus only end, and the current session only loses  *)
(* channels.                                                               *)
LEMMA ChannelKept ==
    ASSUME NEW c \in Channels, Channel(c),
           frontend'[c] = "unused" =>
              frontend[c] = "unused" /\ \A n \in Bridges : bridge'[n][c] = bridge[n][c],
           \A n \in Bridges : Live(n, c)' => Live(n, c),
           channel_state'[c].menu_active => channel_state[c].menu_active,
           c \in session_channels'[proxy_session'] =>
              /\ proxy_session' = proxy_session /\ c \in session_channels[proxy_session]
              /\ \A n \in Bridges : Running(n, c) /\ Live(n, c)' => Running(n, c)',
           \A n \in Bridges : bridge'[n][c] = "exited" /\ frontend'[c] = "open" =>
              c \in told' \/ ShouldReuseMenu(c)'
    PROVE  Channel(c)'
  <1>1. (frontend[c] = "unused" => \A n \in Bridges : bridge[n][c] = "none")'
    BY DEF Channel
  <1>2. (\A m, n \in Bridges : Live(m, c) /\ Live(n, c) => m = n)'
    BY DEF Channel
  <1>3. c \in session_channels'[proxy_session'] => c \in session_channels[proxy_session]
    OBVIOUS
  <1>4. (channel_state[c].menu_active => Quiet(c) /\ c \notin session_channels[proxy_session])'
    BY <1>3 DEF Channel, Quiet
  <1>5. (c \in session_channels[proxy_session] =>
          \A n \in Bridges : Live(n, c) => Running(n, c) /\ n \in {proxy_session, Again})'
    BY DEF Channel
  <1>. QED  BY <1>1, <1>2, <1>4, <1>5 DEF Channel

LEMMA ChannelSame ==
    ASSUME NEW c \in Channels, Channel(c),
           frontend'[c] = "unused" => frontend[c] = "unused",
           \A n \in Bridges : bridge'[n][c] = bridge[n][c],
           channel_state'[c].menu_active => channel_state[c].menu_active,
           frontend'[c] = "open" =>
              frontend[c] = "open" /\ (ShouldReuseMenu(c) => ShouldReuseMenu(c)'),
           c \in session_channels'[proxy_session'] =>
              proxy_session' = proxy_session /\ c \in session_channels[proxy_session],
           c \in told => c \in told'
    PROVE  Channel(c)'
  <1>1. \A n \in Bridges : Live(n, c)' = Live(n, c) /\ Running(n, c)' = Running(n, c)
    BY DEF Live, Running
  <1>2. \A n \in Bridges : bridge'[n][c] = "exited" /\ frontend'[c] = "open" =>
              c \in told' \/ ShouldReuseMenu(c)'
    BY DEF Channel
  <1>. QED  BY <1>1, <1>2, ChannelKept

(* While a callback waits, a menu appears on its channel only if a bridge  *)
(* is live there.                                                          *)
LEMMA CallbackSame ==
    ASSUME call \in Calls, \A c \in Channels : Channel(c), CallbackInv, call' = call,
           \A c \in Channels :
              /\ frontend'[c] = "unused" <=> frontend[c] = "unused"
              /\ channel_state[c].menu_active => channel_state'[c].menu_active
              /\ channel_state'[c].menu_active =>
                    channel_state[c].menu_active \/ ~Quiet(c)
              /\ \A n \in Bridges : Live(n, c)' => Live(n, c)
    PROVE  CallbackInv'
  <1>1. \A c \in Channels : Quiet(c) => Quiet(c)'
    BY DEF Quiet
  <1>2. \A c \in Channels : frontend[c] = "unused" => Quiet(c)
    BY DEF Channel, Quiet, Live
  <1>3. CASE call.pc = "open"
    <2>1. call.ch \in Channels
      BY <1>3, CallShape
    <2>2. frontend'[call.ch] = "unused" /\ ~channel_state'[call.ch].menu_active
      BY <1>2, <1>3, <2>1 DEF CallbackInv
    <2>. QED  BY <1>3, <2>2 DEF CallbackInv
  <1>4. CASE call.pc = "menu"
    <2>1. call.ch \in Channels
      BY <1>4, CallShape
    <2>2. frontend'[call.ch] # "unused" /\ channel_state'[call.ch].menu_active
      BY <1>4, <2>1 DEF CallbackInv
    <2>. QED  BY <1>4, <2>2 DEF CallbackInv
  <1>5. CASE call.pc \in {"connect", "reopen"}
    <2>1. call.ch \in Channels
      BY <1>5, CallShape
    <2>2. /\ frontend'[call.ch] # "unused" /\ ~channel_state'[call.ch].menu_active
          /\ Quiet(call.ch)'
      BY <1>1, <1>5, <2>1 DEF CallbackInv
    <2>. QED  BY <1>5, <2>2 DEF CallbackInv
  <1>6. CASE call.pc \notin {"open", "menu", "connect", "reopen"}
    BY <1>6 DEF CallbackInv
  <1>. QED  BY <1>3, <1>4, <1>5, <1>6

(* The other callbacks expect nothing of their channel.                    *)
LEMMA CallbackElse ==
    ASSUME call'.pc \notin {"open", "menu", "connect", "reopen"}
    PROVE  CallbackInv'
  BY DEF CallbackInv

LEMMA FreshSame ==
    ASSUME Fresh,
           \A n \in Sessions : n > proxy_session' =>
              n > proxy_session /\ session_channels'[n] \subseteq session_channels[n]
    PROVE  Fresh'
  BY DEF Fresh

LEMMA CloseFrontendKeeps ==
    ASSUME TypeOK, NEW c \in AllChannels, CloseFrontend(c), NEW d \in AllChannels
    PROVE  /\ frontend'[d] = "unused" <=> frontend[d] = "unused"
           /\ frontend'[d] = "open" => frontend[d] = "open"
           /\ d # c => frontend'[d] = frontend[d]
  BY DEF TypeOK, CloseFrontend

(* All of the invariant but the types.                                     *)
Rest == (\A c \in Channels : Channel(c)) /\ CallbackInv /\ Fresh

(* A step that leaves the bridges of session channels and the menus alone. *)
LEMMA Untouched ==
    ASSUME ProxyInv,
           UNCHANGED <<channel_state, proxy_session>>,
           told \subseteq told',
           \A c \in Channels :
              /\ frontend'[c] = "unused" <=> frontend[c] = "unused"
              /\ frontend'[c] = "open" => frontend[c] = "open"
              /\ \A n \in Bridges : bridge'[n][c] = bridge[n][c],
           \A n \in Sessions : session_channels'[n] \subseteq session_channels[n],
           call' = call \/ call'.pc \notin {"open", "menu", "connect", "reopen"}
    PROVE  Rest'
  <1>0. call \in Calls /\ proxy_session \in Sessions
    BY DEF ProxyInv, TypeOK
  <1>1. ASSUME NEW c \in Channels
        PROVE  Channel(c)'
    <2>1. ShouldReuseMenu(c) => ShouldReuseMenu(c)'
      BY DEF ShouldReuseMenu
    <2>. QED  BY <1>0, <2>1, ChannelSame DEF ProxyInv
  <1>2. CASE call' = call
    <2>1. \A c \in Channels, n \in Bridges : Live(n, c)' => Live(n, c)
      BY DEF Live
    <2>2. CallbackInv'
      BY <1>0, <1>2, <2>1, CallbackSame DEF ProxyInv
    <2>. QED  BY <1>0, <1>1, <2>2, FreshSame DEF ProxyInv, Rest
  <1>3. CASE call'.pc \notin {"open", "menu", "connect", "reopen"}
    BY <1>0, <1>1, <1>3, CallbackElse, FreshSame DEF ProxyInv, Rest
  <1>. QED  BY <1>2, <1>3

LEMMA IdlePC == IdleCall.pc = "idle" /\ \A p, c : [pc |-> p, ch |-> c].pc = p
  BY DEF IdleCall

LEMMA StepConnection ==
    ASSUME ProxyInv,
           \/ EndConnection \/ HangUp \/ Reload
           \/ \E n \in Sessions : TargetFails(n) \/ DropTask(n)
    PROVE  Rest'
  <1>1. /\ UNCHANGED <<channel_state, proxy_session, session_channels, frontend, bridge, told>>
        /\ call' \in {call, IdleCall}
    BY DEF EndConnection, HangUp, Reload, TargetFails, DropTask, DropDisconnect, DropLog,
           End, handler, tables
  <1>. QED  BY <1>1, Untouched, IdlePC

(* The callbacks that only relay.                                          *)
LEMMA StepRelay ==
    ASSUME ProxyInv,
           \/ RelayRequest \/ RelayData \/ CloseBackend \/ Replay
           \/ \E c \in AllChannels : OtherRequest(c) \/ ChannelEof(c)
    PROVE  Rest'
  <1>0. TypeOK /\ call \in Calls /\ Channels \subseteq AllChannels
    BY DEF ProxyInv, TypeOK, AllChannels
  <1>1. CASE RelayRequest
    <2>1. call.ch \in AllChannels
      BY <1>0, <1>1, CallShape DEF RelayRequest
    <2>2. \A c \in Channels :
              /\ frontend'[c] = "unused" <=> frontend[c] = "unused"
              /\ frontend'[c] = "open" => frontend[c] = "open"
      <3>1. CASE UNCHANGED frontend
        BY <3>1
      <3>2. CASE CloseFrontend(call.ch)
        BY <1>0, <2>1, <3>2, CloseFrontendKeeps
      <3>. QED  BY <1>1, <3>1, <3>2 DEF RelayRequest
    <2>3. /\ UNCHANGED <<channel_state, proxy_session, session_channels, bridge>>
          /\ told \subseteq told' /\ call' = IdleCall
      BY <1>1 DEF RelayRequest, Return, tables
    <2>. QED  BY <2>2, <2>3, Untouched, IdlePC
  <1>2. CASE CloseBackend
    <2>1. UNCHANGED <<channel_state, proxy_session, frontend, bridge, told>> /\ call' = IdleCall
      BY <1>2 DEF CloseBackend, Return
    <2>2. \A n \in Sessions : session_channels'[n] \subseteq session_channels[n]
      BY <1>0, <1>2 DEF CloseBackend, TypeOK
    <2>. QED  BY <2>1, <2>2, Untouched, IdlePC
  <1>3. CASE \/ RelayData \/ Replay
             \/ \E c \in AllChannels : OtherRequest(c) \/ ChannelEof(c)
    <2>1. /\ UNCHANGED <<channel_state, proxy_session, session_channels, frontend, bridge, told>>
          /\ \/ call' \in {call, IdleCall}
             \/ \E c \in AllChannels : call' = [pc |-> "relay", ch |-> c]
      BY <1>3 DEF RelayData, Replay, OtherRequest, ChannelEof, Return, End, Go, handler, tables
    <2>. QED  BY <2>1, Untouched, IdlePC
  <1>. QED  BY <1>1, <1>2, <1>3

(* The raw channels leave the session channels alone.                      *)
LEMMA RawFrame ==
    ASSUME ProxyInv, NEW c \in RawChannels,
           \/ ChannelOpenDirectTcpip(c)
           \/ \E n \in Sessions :
                 ServerChannelOpen(n, c) \/ RawTask(n, c) \/ RawClose(n, c) \/ RawFails(n, c)
    PROVE  \A d \in Channels :
              frontend'[d] = frontend[d] /\ \A n \in Bridges : bridge'[n][d] = bridge[n][d]
  <1>0. /\ TypeOK /\ c \in AllChannels /\ Sessions \subseteq Bridges
        /\ proxy_session \in Sessions /\ proxy_session \in Bridges
        /\ \A d \in Channels : d \in AllChannels /\ d # c
    BY Disjoint DEF ProxyInv, TypeOK
  <1>1. \A d \in Channels : frontend'[d] = frontend[d]
    <2>1. CASE UNCHANGED frontend
      BY <2>1
    <2>2. CASE \E k \in {"open", "gone"} : frontend' = [frontend EXCEPT ![c] = k]
      BY <1>0, <2>2 DEF TypeOK
    <2>3. CASE CloseFrontend(c)
      BY <1>0, <2>3, CloseFrontendKeeps
    <2>. QED  BY <2>1, <2>2, <2>3 DEF ChannelOpenDirectTcpip, ServerChannelOpen,
                RawTask, SpawnRawBackendBridge, RawClose, RawFails
  <1>2. UNCHANGED bridge \/ \E n \in Bridges, p \in Phases : SetBridge(n, c, p)
    BY <1>0 DEF ChannelOpenDirectTcpip, DoesNotOpen, ServerChannelOpen, RawTask,
                SpawnRawBackendBridge, RawClose, RawFails, Phases
  <1>3. \A d \in Channels, n \in Bridges : bridge'[n][d] = bridge[n][d]
    BY <1>0, <1>2 DEF SetBridge, TypeOK, Phases
  <1>. QED  BY <1>1, <1>3

LEMMA StepRaw ==
    ASSUME ProxyInv, NEW c \in RawChannels,
           \/ ChannelOpenDirectTcpip(c)
           \/ \E n \in Sessions :
                 ServerChannelOpen(n, c) \/ RawTask(n, c) \/ RawClose(n, c) \/ RawFails(n, c)
    PROVE  Rest'
  <1>1. UNCHANGED <<channel_state, proxy_session, session_channels, told, call>>
    BY DEF ChannelOpenDirectTcpip, DoesNotOpen, ServerChannelOpen, RawTask,
           SpawnRawBackendBridge, RawClose, RawFails, handler, tables
  <1>. QED  BY <1>1, RawFrame, Untouched

(* The callbacks that write the state of a channel: none starts a menu.    *)
LEMMA StepChannels ==
    ASSUME ProxyInv,
           \/ \E c \in Channels : ChannelOpenSession(c) \/ SessionRequest(c)
           \/ \E c \in AllChannels : Data(c) \/ ChannelClose(c)
    PROVE  Rest'
  <1>0. /\ TypeOK /\ proxy_session \in Sessions /\ Channels \subseteq AllChannels
        /\ channel_state \in [Channels -> SessionChannelState]
        /\ frontend \in [AllChannels -> {"unused", "open", "closed", "gone"}]
    BY DEF ProxyInv, TypeOK, AllChannels
  <1>1. ASSUME NEW c \in Channels, ChannelOpenSession(c)
        PROVE  Rest'
    <2>. DEFINE x == [request |-> "none", menu_active |-> FALSE]
    <2>0. x.menu_active = FALSE
      OBVIOUS
    <2>. HIDE DEF x
    <2>1. /\ channel_state' = [channel_state EXCEPT ![c] = x]
          /\ frontend[c] = "unused" /\ call' = [pc |-> "open", ch |-> c]
          /\ UNCHANGED <<proxy_session, session_channels, frontend, bridge, told>>
      BY <1>1 DEF ChannelOpenSession, Go, tables, x
    <2>2. ASSUME NEW d \in Channels
          PROVE  Channel(d)'
      <3>1. /\ channel_state'[d].menu_active => channel_state[d].menu_active
            /\ frontend'[d] = "open" => channel_state'[d] = channel_state[d]
        BY <1>0, <2>0, <2>1
      <3>2. frontend'[d] = "open" => (ShouldReuseMenu(d) => ShouldReuseMenu(d)')
        BY <3>1 DEF ShouldReuseMenu
      <3>. QED  BY <2>1, <3>1, <3>2, ChannelSame DEF ProxyInv
    <2>3. call'.pc = "open" /\ call'.ch = c
      BY <2>1
    <2>4. frontend'[c] = "unused" /\ ~channel_state'[c].menu_active
      BY <1>0, <2>0, <2>1
    <2>5. CallbackInv'
      BY <2>3, <2>4 DEF CallbackInv
    <2>. QED  BY <1>0, <2>1, <2>2, <2>5, FreshSame DEF ProxyInv, Rest
  <1>2. ASSUME NEW c \in Channels, SessionRequest(c)
        PROVE  Rest'
    <2>0. /\ call' = [pc |-> "request", ch |-> c]
          /\ told \subseteq told'
          /\ \A n \in Bridges : bridge[n][c] = "exited" => c \in told'
          /\ UNCHANGED <<proxy_session, session_channels, frontend, bridge>>
      BY <1>2 DEF SessionRequest, Go, tables
    <2>1. PICK kind \in {"shell", "exec"} :
             channel_state' = [channel_state EXCEPT ![c] = [@ EXCEPT !.request = kind]]
      BY <1>2 DEF SessionRequest
    <2>2. [channel_state[c] EXCEPT !.request = kind].menu_active = channel_state[c].menu_active
      BY <1>0, RequestStored
    <2>3. ASSUME NEW d \in Channels
          PROVE  Channel(d)'
      <3>1. CASE d = c
        <4>1. channel_state'[d].menu_active = channel_state[d].menu_active
          BY <1>0, <2>1, <2>2, <3>1
        <4>2. \A n \in Bridges : Live(n, d)' = Live(n, d) /\ Running(n, d)' = Running(n, d)
          BY <2>0 DEF Live, Running
        <4>. QED  BY <2>0, <3>1, <4>1, <4>2, ChannelKept DEF ProxyInv
      <3>2. CASE d # c
        <4>1. channel_state'[d] = channel_state[d]
          BY <1>0, <2>1, <3>2
        <4>2. ShouldReuseMenu(d) => ShouldReuseMenu(d)'
          BY <4>1 DEF ShouldReuseMenu
        <4>. QED  BY <2>0, <4>1, <4>2, ChannelSame DEF ProxyInv
      <3>. QED  BY <3>1, <3>2
    <2>4. CallbackInv'
      BY <2>0, CallbackElse
    <2>. QED  BY <1>0, <2>0, <2>3, <2>4, FreshSame DEF ProxyInv, Rest
  <1>3. ASSUME NEW c \in AllChannels, Data(c)
        PROVE  Rest'
    <2>1. UNCHANGED <<channel_state, proxy_session, session_channels, frontend, bridge, told>>
      BY <1>3 DEF Data, tables
    <2>2. CASE call' = [pc |-> "relay", ch |-> c]
      BY <2>1, <2>2, Untouched, IdlePC
    <2>3. CASE /\ c \in Channels /\ channel_state[c].menu_active
               /\ call' = [pc |-> "menu", ch |-> c] /\ frontend[c] = "open"
      <3>1. ASSUME NEW d \in Channels
            PROVE  Channel(d)'
        <4>1. ShouldReuseMenu(d) => ShouldReuseMenu(d)'
          BY <2>1 DEF ShouldReuseMenu
        <4>. QED  BY <2>1, <4>1, ChannelSame DEF ProxyInv
      <3>2. call'.pc = "menu" /\ call'.ch = c
        BY <2>3
      <3>3. frontend'[c] # "unused" /\ channel_state'[c].menu_active
        BY <2>1, <2>3
      <3>4. CallbackInv'
        BY <3>2, <3>3 DEF CallbackInv
      <3>. QED  BY <1>0, <2>1, <3>1, <3>4, FreshSame DEF ProxyInv, Rest
    <2>. QED  BY <1>3, <2>2, <2>3 DEF Data, Ready, Go
  <1>4. ASSUME NEW c \in AllChannels, ChannelClose(c)
        PROVE  Rest'
    <2>1. /\ UNCHANGED <<proxy_session, session_channels, bridge, told>>
          /\ call' = [pc |-> "close", ch |-> c]
          /\ frontend' = [frontend EXCEPT ![c] = "gone"]
      BY <1>4 DEF ChannelClose, Go, tables
    <2>2. channel_state' = [d \in Channels |->
             IF d = c /\ ~channel_state[d].menu_active THEN Gone ELSE channel_state[d]]
      BY <1>4 DEF ChannelClose
    <2>3. Gone.menu_active = FALSE
      BY DEF Gone
    <2>4. ASSUME NEW d \in Channels
          PROVE  Channel(d)'
      <3>1. channel_state'[d].menu_active => channel_state[d].menu_active
        BY <2>2, <2>3
      <3>2. CASE d = c
        <4>1. frontend'[d] = "gone"
          BY <1>0, <2>1, <3>2
        <4>. QED  BY <2>1, <3>1, <4>1, ChannelSame DEF ProxyInv
      <3>3. CASE d # c
        <4>1. channel_state'[d] = channel_state[d] /\ frontend'[d] = frontend[d]
          BY <1>0, <2>1, <2>2, <3>3
        <4>2. ShouldReuseMenu(d) => ShouldReuseMenu(d)'
          BY <4>1 DEF ShouldReuseMenu
        <4>. QED  BY <2>1, <3>1, <4>1, <4>2, ChannelSame DEF ProxyInv
      <3>. QED  BY <3>2, <3>3
    <2>5. CallbackInv'
      BY <2>1, CallbackElse
    <2>. QED  BY <1>0, <2>1, <2>4, <2>5, FreshSame DEF ProxyInv, Rest
  <1>. QED  BY <1>1, <1>2, <1>3, <1>4

(* A target's channel is opened for a channel without a bridge or menu.    *)
LEMMA OpensOne ==
    ASSUME TypeOK, NEW c \in Channels, Quiet(c), OpensSessionChannel(c),
           UNCHANGED proxy_session
    PROVE  \E k \in Bridges :
              /\ k \in {proxy_session, Again} /\ bridge'[k][c] = "relay"
              /\ \A m \in Bridges, d \in Channels :
                    m # k \/ d # c => bridge'[m][d] = bridge[m][d]
              /\ \A d \in Channels \ {c} :
                    d \in session_channels'[proxy_session'] => d \in session_channels[proxy_session]
              /\ \A n \in Sessions \ {proxy_session} : session_channels'[n] = session_channels[n]
  <1>0. /\ proxy_session \in Sessions /\ proxy_session \in Bridges /\ Again \in Bridges
        /\ Channels \subseteq AllChannels
        /\ session_channels \in [Sessions -> SUBSET Channels]
    BY Disjoint DEF TypeOK
  <1>. DEFINE k == IF bridge[proxy_session][c] = "none" THEN proxy_session ELSE Again
  <1>1. k \in Bridges /\ k \in {proxy_session, Again}
    BY <1>0
  <1>2. bridge' = [bridge EXCEPT ![k][c] = "relay"]
    BY DEF OpensSessionChannel, SetBridge
  <1>. HIDE DEF k
  <1>3. /\ bridge'[k][c] = "relay"
        /\ \A m \in Bridges, d \in Channels : m # k \/ d # c => bridge'[m][d] = bridge[m][d]
    BY <1>0, <1>1, <1>2 DEF TypeOK
  <1>4. /\ \A d \in Channels \ {c} :
              d \in session_channels'[proxy_session'] => d \in session_channels[proxy_session]
        /\ \A n \in Sessions \ {proxy_session} : session_channels'[n] = session_channels[n]
    BY <1>0 DEF OpensSessionChannel
  <1>. QED  BY <1>1, <1>3, <1>4

LEMMA OpenedChannels ==
    ASSUME ProxyInv, NEW c \in Channels, Quiet(c), OpensSessionChannel(c),
           UNCHANGED <<proxy_session, channel_state, told>>,
           ~channel_state[c].menu_active, frontend'[c] # "unused",
           \A d \in Channels \ {c} : frontend'[d] = frontend[d]
    PROVE  (\A d \in Channels : Channel(d)') /\ Fresh'
  <1>0. TypeOK /\ proxy_session \in Sessions /\ Sessions \subseteq Nat
    BY Disjoint DEF ProxyInv, TypeOK
  <1>1. PICK k \in Bridges :
              /\ k \in {proxy_session, Again} /\ bridge'[k][c] = "relay"
              /\ \A m \in Bridges, d \in Channels :
                    m # k \/ d # c => bridge'[m][d] = bridge[m][d]
              /\ \A d \in Channels \ {c} :
                    d \in session_channels'[proxy_session'] => d \in session_channels[proxy_session]
              /\ \A n \in Sessions \ {proxy_session} : session_channels'[n] = session_channels[n]
    BY <1>0, OpensOne
  <1>2. \A m \in Bridges : m # k => ~Live(m, c)' /\ bridge'[m][c] # "exited"
    BY <1>1 DEF Quiet, Live
  <1>3. Live(k, c)' /\ Running(k, c)' /\ bridge'[k][c] # "exited"
    BY <1>1 DEF Live, Running
  <1>4. Channel(c)'
    <2>1. (\A m, n \in Bridges : Live(m, c) /\ Live(n, c) => m = n)'
      BY <1>2
    <2>2. (c \in session_channels[proxy_session] =>
             \A n \in Bridges : Live(n, c) => Running(n, c) /\ n \in {proxy_session, Again})'
      BY <1>1, <1>2, <1>3
    <2>. QED  BY <1>2, <1>3, <2>1, <2>2 DEF Channel
  <1>5. ASSUME NEW d \in Channels, d # c
        PROVE  Channel(d)'
    <2>1. ShouldReuseMenu(d) => ShouldReuseMenu(d)'
      BY DEF ShouldReuseMenu
    <2>. QED  BY <1>1, <1>5, <2>1, ChannelSame DEF ProxyInv
  <1>6. \A n \in Sessions : n > proxy_session => n # proxy_session
    BY <1>0
  <1>. QED  BY <1>0, <1>1, <1>4, <1>5, <1>6, FreshSame DEF ProxyInv

LEMMA StepOpens ==
    ASSUME ProxyInv, FinishOpen \/ Reopen
    PROVE  Rest'
  <1>0. /\ TypeOK /\ Channels \subseteq AllChannels /\ call \in Calls /\ CallbackInv
        /\ proxy_session \in Sessions
        /\ frontend \in [AllChannels -> {"unused", "open", "closed", "gone"}]
    BY DEF ProxyInv, TypeOK, AllChannels
  <1>. DEFINE c == call.ch
  <1>1. CASE FinishOpen
    <2>1. c \in Channels
      BY <1>0, <1>1, CallShape DEF FinishOpen
    <2>2. /\ call.pc = "open" /\ call' = IdleCall
          /\ UNCHANGED <<channel_state, proxy_session, told>>
      BY <1>1 DEF FinishOpen, Return
    <2>3. frontend[c] = "unused" /\ ~channel_state[c].menu_active
      BY <1>0, <2>2 DEF CallbackInv
    <2>4. CallbackInv'
      BY <2>2, CallbackElse, IdlePC
    <2>. HIDE DEF c
    <2>5. CASE OpensSessionChannel(c) /\ frontend' = [frontend EXCEPT ![c] = "open"]
      <3>1. Quiet(c)
        BY <2>1, <2>3 DEF ProxyInv, Channel, Quiet, Live
      <3>2. frontend'[c] # "unused" /\ \A d \in Channels \ {c} : frontend'[d] = frontend[d]
        BY <1>0, <2>1, <2>5
      <3>3. (\A d \in Channels : Channel(d)') /\ Fresh'
        BY <2>1, <2>2, <2>3, <2>5, <3>1, <3>2, OpenedChannels
      <3>. QED  BY <2>4, <3>3 DEF Rest
    <2>6. CASE /\ frontend' = [frontend EXCEPT ![c] = "gone"]
               /\ UNCHANGED <<session_channels, bridge>>
      <3>1. ASSUME NEW d \in Channels
            PROVE  Channel(d)'
        <4>1. ShouldReuseMenu(d) => ShouldReuseMenu(d)'
          BY <2>2 DEF ShouldReuseMenu
        <4>2. /\ frontend'[d] = "unused" => frontend[d] = "unused"
              /\ frontend'[d] = "open" => frontend[d] = "open"
          BY <1>0, <2>1, <2>6
        <4>. QED  BY <2>2, <2>6, <4>1, <4>2, ChannelSame DEF ProxyInv
      <3>2. Fresh'
        BY <1>0, <2>2, <2>6, FreshSame DEF ProxyInv
      <3>. QED  BY <2>4, <3>1, <3>2 DEF Rest
    <2>. QED  BY <1>1, <2>5, <2>6 DEF FinishOpen, DoesNotOpen, tables, c
  <1>2. CASE Reopen
    <2>1. c \in Channels
      BY <1>0, <1>2, CallShape DEF Reopen
    <2>2. call.pc = "reopen" /\ UNCHANGED <<channel_state, proxy_session, frontend, told>>
      BY <1>2 DEF Reopen
    <2>3. frontend[c] # "unused" /\ Quiet(c) /\ ~channel_state[c].menu_active
      BY <1>0, <2>2 DEF CallbackInv
    <2>4. CASE OpensSessionChannel(c) /\ call' = [pc |-> "replay", ch |-> c]
      <3>1. (\A d \in Channels : Channel(d)') /\ Fresh'
        BY <2>1, <2>2, <2>3, <2>4, OpenedChannels
      <3>2. CallbackInv'
        BY <2>4, CallbackElse
      <3>. QED  BY <3>1, <3>2 DEF Rest
    <2>5. CASE DoesNotOpen /\ End
      BY <2>2, <2>5, Untouched, IdlePC DEF DoesNotOpen, End, tables
    <2>. QED  BY <1>2, <2>4, <2>5 DEF Reopen, Go
  <1>. QED  BY <1>1, <1>2

(* A choice takes the menu off the channel; connecting starts a session    *)
(* without channels.                                                       *)
LEMMA StepMenu ==
    ASSUME ProxyInv, MenuSelect \/ ConnectSelectedTarget
    PROVE  Rest'
  <1>0. /\ TypeOK /\ call \in Calls /\ CallbackInv
        /\ proxy_session \in Sessions /\ Sessions \subseteq Nat
        /\ channel_state \in [Channels -> SessionChannelState]
        /\ \A c \in Channels : Channel(c)
    BY Disjoint DEF ProxyInv, TypeOK
  <1>1. CASE MenuSelect
    <2>1. PICK c \in Channels : c = call.ch
      BY <1>0, <1>1, CallShape DEF MenuSelect
    <2>2. /\ call.pc = "menu"
          /\ UNCHANGED <<proxy_session, session_channels, frontend, bridge, told>>
      BY <1>1 DEF MenuSelect, tables
    <2>3. CASE call' = IdleCall /\ UNCHANGED channel_state
      BY <2>2, <2>3, Untouched, IdlePC
    <2>4. CASE /\ channel_state' = [channel_state EXCEPT ![c] = [@ EXCEPT !.menu_active = FALSE]]
               /\ call' = [pc |-> "connect", ch |-> c]
      <3>1. frontend[c] # "unused" /\ Quiet(c)
        BY <1>0, <2>1, <2>2 DEF CallbackInv, Channel
      <3>2. /\ [channel_state[c] EXCEPT !.menu_active = FALSE].menu_active = FALSE
            /\ [channel_state[c] EXCEPT !.menu_active = FALSE].request = channel_state[c].request
        BY <1>0, <2>1, StateShape
      <3>3. /\ channel_state'[c].menu_active = FALSE
            /\ \A d \in Channels : channel_state'[d].request = channel_state[d].request
            /\ \A d \in Channels \ {c} : channel_state'[d] = channel_state[d]
        BY <1>0, <2>1, <2>4, <3>2
      <3>4. ASSUME NEW d \in Channels
            PROVE  Channel(d)'
        <4>1. ShouldReuseMenu(d) => ShouldReuseMenu(d)'
          BY <3>3 DEF ShouldReuseMenu
        <4>2. channel_state'[d].menu_active => channel_state[d].menu_active
          BY <3>3
        <4>. QED  BY <1>0, <2>2, <4>1, <4>2, ChannelSame
      <3>5. call'.pc = "connect" /\ call'.ch = c
        BY <2>4
      <3>6. Quiet(c)'
        BY <2>2, <3>1 DEF Quiet, Live
      <3>7. CallbackInv'
        BY <2>2, <3>1, <3>3, <3>5, <3>6 DEF CallbackInv
      <3>. QED  BY <1>0, <2>2, <3>4, <3>7, FreshSame DEF ProxyInv, Rest
    <2>. QED  BY <1>1, <2>1, <2>3, <2>4 DEF MenuSelect, Return, Go, End
  <1>2. CASE ConnectSelectedTarget
    <2>1. PICK c \in Channels : c = call.ch
      BY <1>0, <1>2, CallShape DEF ConnectSelectedTarget
    <2>2. /\ call.pc = "connect"
          /\ UNCHANGED <<channel_state, session_channels, frontend, bridge, told>>
      BY <1>2 DEF ConnectSelectedTarget, tables
    <2>3. frontend[c] # "unused" /\ Quiet(c) /\ ~channel_state[c].menu_active
      BY <1>0, <2>1, <2>2 DEF CallbackInv
    <2>4. Quiet(c)'
      BY <2>2, <2>3 DEF Quiet, Live
    <2>5. call' = [pc |-> "reopen", ch |-> c] => CallbackInv'
      <3>. SUFFICES ASSUME call' = [pc |-> "reopen", ch |-> c] PROVE CallbackInv'
        OBVIOUS
      <3>1. call'.pc = "reopen" /\ call'.ch = c
        OBVIOUS
      <3>. QED  BY <2>2, <2>3, <2>4, <3>1 DEF CallbackInv
    <2>6. CASE UNCHANGED proxy_session /\ call' = IdleCall
      BY <2>2, <2>6, Untouched, IdlePC
    <2>7. CASE UNCHANGED proxy_session /\ call' = [pc |-> "reopen", ch |-> c]
      <3>1. ASSUME NEW d \in Channels
            PROVE  Channel(d)'
        <4>1. ShouldReuseMenu(d) => ShouldReuseMenu(d)'
          BY <2>2 DEF ShouldReuseMenu
        <4>. QED  BY <1>0, <2>2, <2>7, <4>1, ChannelSame
      <3>. QED  BY <1>0, <2>2, <2>5, <2>7, <3>1, FreshSame DEF ProxyInv, Rest
    <2>8. CASE /\ proxy_session < MaxSessions /\ proxy_session' = proxy_session + 1
               /\ call' = [pc |-> "reopen", ch |-> c]
      <3>1. proxy_session + 1 \in Sessions /\ proxy_session + 1 > proxy_session
        BY <1>0, <2>8, SessionAssumption DEF Sessions
      <3>2. session_channels'[proxy_session'] = {}
        BY <2>2, <2>8, <3>1 DEF ProxyInv, Fresh
      <3>3. ASSUME NEW d \in Channels
            PROVE  Channel(d)'
        <4>1. ShouldReuseMenu(d) => ShouldReuseMenu(d)'
          BY <2>2 DEF ShouldReuseMenu
        <4>. QED  BY <1>0, <2>2, <3>2, <4>1, ChannelSame
      <3>4. \A n \in Sessions : n > proxy_session + 1 => n > proxy_session
        BY <1>0
      <3>5. Fresh'
        BY <2>2, <2>8, <3>4, FreshSame DEF ProxyInv
      <3>. QED  BY <2>5, <2>8, <3>3, <3>5 DEF Rest
    <2>. QED  BY <1>2, <2>1, <2>6, <2>7, <2>8 DEF ConnectSelectedTarget, End, Go
  <1>. QED  BY <1>1, <1>2

(* A bridge moves on: only its own channel can be disturbed.               *)
LEMMA BridgeMoves ==
    ASSUME ProxyInv, NEW n \in Bridges, NEW c \in Channels,
           RelayExit(n, c) \/ RelayFails(n, c) \/ RelayClose(n, c) \/ BridgeTask(n, c)
    PROVE  /\ bridge[n][c] # "none"
           /\ \A m \in Bridges, d \in Channels :
                 m # n \/ d # c => bridge'[m][d] = bridge[m][d]
           /\ UNCHANGED <<proxy_session, call>> /\ told \ {c} \subseteq told'
           /\ told \subseteq told' \/ Live(n, c)
           /\ \A d \in Channels :
                 /\ frontend'[d] = "unused" <=> frontend[d] = "unused"
                 /\ frontend'[d] = "open" => frontend[d] = "open"
           /\ \A s \in Sessions : session_channels'[s] \subseteq session_channels[s]
           /\ \A d \in Channels \ {c} : channel_state'[d] = channel_state[d]
           /\ channel_state'[c].request = channel_state[c].request
           /\ channel_state[c].menu_active => channel_state'[c].menu_active
           /\ channel_state'[c].menu_active => channel_state[c].menu_active \/ Live(n, c)
  <1>0. /\ TypeOK /\ c \in AllChannels /\ Channels \subseteq AllChannels
        /\ SessionOf(n) \in Sessions
        /\ channel_state \in [Channels -> SessionChannelState]
        /\ session_channels \in [Sessions -> SUBSET Channels]
    BY Disjoint, SessionOfTyped DEF ProxyInv, TypeOK
  <1>1. \E p \in Phases : bridge' = [bridge EXCEPT ![n][c] = p]
    BY DEF RelayExit, RelayFails, RelayClose, BridgeTask, RelayEnd,
           ActivateMenuAfterDisconnect, ShowMenu, BridgeCloses, SetBridge, Phases
  <1>2. bridge[n][c] \in {"relay", "exited", "removed", "menu", "close"}
    BY DEF RelayExit, RelayFails, RelayClose, BridgeTask, RelayEnd,
           ActivateMenuAfterDisconnect, ShowMenu, BridgeCloses, Running
  <1>3. \A m \in Bridges, d \in Channels : m # n \/ d # c => bridge'[m][d] = bridge[m][d]
    BY <1>0, <1>1, BridgeShape DEF TypeOK, Phases
  <1>4. /\ UNCHANGED <<proxy_session, call>> /\ told \ {c} \subseteq told'
        /\ told \subseteq told' \/ Live(n, c)
    BY DEF RelayExit, RelayFails, RelayClose, BridgeTask, RelayEnd, Running, Live,
           ActivateMenuAfterDisconnect, ShowMenu, BridgeCloses, handler
  <1>5. \A d \in Channels :
           /\ frontend'[d] = "unused" <=> frontend[d] = "unused"
           /\ frontend'[d] = "open" => frontend[d] = "open"
    <2>1. UNCHANGED frontend \/ CloseFrontend(c)
      BY DEF RelayExit, RelayFails, RelayClose, BridgeTask, RelayEnd,
             ActivateMenuAfterDisconnect, ShowMenu, BridgeCloses
    <2>. QED  BY <1>0, <2>1, CloseFrontendKeeps
  <1>6. \A s \in Sessions : session_channels'[s] \subseteq session_channels[s]
    <2>1. \/ UNCHANGED session_channels
          \/ session_channels' = [session_channels EXCEPT ![SessionOf(n)] = @ \ {c}]
      BY DEF RelayExit, RelayFails, RelayClose, BridgeTask, RelayEnd,
             ActivateMenuAfterDisconnect, ShowMenu, BridgeCloses, tables
    <2>. QED  BY <1>0, <2>1
  <1>7. /\ \A d \in Channels \ {c} : channel_state'[d] = channel_state[d]
        /\ channel_state'[c].request = channel_state[c].request
        /\ channel_state[c].menu_active => channel_state'[c].menu_active
        /\ channel_state'[c].menu_active => channel_state[c].menu_active \/ Live(n, c)
    <2>1. CASE UNCHANGED channel_state
      BY <2>1
    <2>2. CASE /\ bridge[n][c] = "removed" /\ channel_state[c].request = "shell"
               /\ channel_state' = [channel_state EXCEPT ![c] = [@ EXCEPT !.menu_active = TRUE]]
      <3>1. [channel_state[c] EXCEPT !.menu_active = TRUE].request = "shell"
        BY <1>0, <2>2, StateShape
      <3>2. [channel_state[c] EXCEPT !.menu_active = TRUE].menu_active
        <4>1. channel_state[c] \in [request : {"none", "shell", "exec"}, menu_active : BOOLEAN]
          BY <1>0, <2>2 DEF SessionChannelState, Gone
        <4>. QED  BY <4>1
      <3>3. Live(n, c)
        BY <2>2 DEF Live
      <3>. QED  BY <1>0, <2>2, <3>1, <3>2, <3>3
    <2>3. \/ UNCHANGED channel_state
          \/ /\ bridge[n][c] = "removed" /\ channel_state[c].request = "shell"
             /\ channel_state' = [channel_state EXCEPT ![c] = [@ EXCEPT !.menu_active = TRUE]]
      BY DEF RelayExit, RelayFails, RelayClose, BridgeTask, RelayEnd, ShouldReuseMenu,
             ActivateMenuAfterDisconnect, ShowMenu, BridgeCloses, handler
    <2>. QED  BY <2>1, <2>2, <2>3
  <1>. QED  BY <1>2, <1>3, <1>4, <1>5, <1>6, <1>7

(* The channel of a bridge that moves on.                                  *)
LEMMA BridgeChannel ==
    ASSUME ProxyInv, NEW n \in Bridges, NEW c \in Channels,
           RelayExit(n, c) \/ RelayFails(n, c) \/ RelayClose(n, c) \/ BridgeTask(n, c)
    PROVE  Channel(c)'
  <1>0. /\ TypeOK /\ c \in AllChannels /\ SessionOf(n) \in Sessions
        /\ proxy_session \in Sessions /\ Channel(c)
        /\ session_channels \in [Sessions -> SUBSET Channels]
        /\ channel_state \in [Channels -> SessionChannelState]
    BY Disjoint, SessionOfTyped DEF ProxyInv, TypeOK
  <1>1. \A p \in Phases : SetBridge(n, c, p) => bridge'[n][c] = p
    BY <1>0, BridgeShape DEF SetBridge, TypeOK, Phases
  <1>2. /\ \A m \in Bridges : m # n => bridge'[m][c] = bridge[m][c]
        /\ UNCHANGED proxy_session /\ (told \subseteq told' \/ Live(n, c))
        /\ frontend'[c] # "unused" /\ (frontend'[c] = "open" => frontend[c] = "open")
        /\ session_channels'[proxy_session] \subseteq session_channels[proxy_session]
        /\ channel_state'[c].request = channel_state[c].request
    BY <1>0, BridgeMoves DEF Channel
  <1>3. ShouldReuseMenu(c)' = ShouldReuseMenu(c)
    BY <1>2 DEF ShouldReuseMenu
  <1>4. \A m \in Bridges : m # n =>
           /\ Live(m, c)' = Live(m, c) /\ Running(m, c)' = Running(m, c)
           /\ bridge'[m][c] = "exited" /\ frontend'[c] = "open" =>
                 c \in told' \/ ShouldReuseMenu(c)'
    BY <1>0, <1>2, <1>3 DEF Live, Running, Channel
  <1>5. CASE RelayExit(n, c)
    <2>1. /\ bridge[n][c] = "relay" /\ bridge'[n][c] = "exited" /\ UNCHANGED channel_state
          /\ c \in told' \/ ShouldReuseMenu(c)
      BY <1>1, <1>5 DEF RelayExit, Phases, handler
    <2>2. Live(n, c) /\ Running(n, c)'
      BY <2>1 DEF Live, Running
    <2>. QED  BY <1>0, <1>2, <1>3, <1>4, <2>1, <2>2, ChannelKept
  <1>6. CASE /\ bridge'[n][c] \in {"menu", "close", "done"}
             /\ UNCHANGED channel_state
    <2>1. ~Live(n, c)' /\ bridge'[n][c] # "exited"
      BY <1>6 DEF Live
    <2>. QED  BY <1>0, <1>2, <1>4, <1>6, <2>1, ChannelKept
  <1>7. CASE RelayClose(n, c) \/ RelayEnd(n, c)
    <2>1. /\ Running(n, c) /\ bridge'[n][c] = "removed" /\ UNCHANGED channel_state
          /\ session_channels' = [session_channels EXCEPT ![SessionOf(n)] = @ \ {c}]
      BY <1>1, <1>7 DEF RelayClose, RelayEnd, Phases, handler
    <2>2. Live(n, c) /\ bridge'[n][c] # "exited"
      BY <2>1 DEF Live, Running
    <2>3. c \notin session_channels'[proxy_session']
      <3>1. c \in session_channels[proxy_session] => SessionOf(n) = proxy_session
        BY <1>0, <2>2 DEF Channel, SessionOf
      <3>. QED  BY <1>0, <1>2, <2>1, <3>1
    <2>. QED  BY <1>0, <1>2, <1>4, <2>1, <2>2, <2>3, ChannelKept
  <1>8. CASE /\ bridge[n][c] = "removed" /\ bridge'[n][c] = "menu"
             /\ UNCHANGED session_channels
    <2>1. Live(n, c) /\ ~Running(n, c) /\ ~Live(n, c)' /\ bridge'[n][c] # "exited"
      BY <1>8 DEF Live, Running
    <2>2. \A m \in Bridges : ~Live(m, c)'
      BY <1>0, <1>4, <2>1 DEF Channel
    <2>3. c \notin session_channels'[proxy_session']
      BY <1>0, <1>2, <1>8, <2>1 DEF Channel
    <2>. QED  BY <1>2, <1>4, <2>1, <2>2, <2>3 DEF Channel, Quiet
  <1>9. CASE RelayFails(n, c) \/ ShowMenu(n, c) \/ BridgeCloses(n, c)
    <2>1. bridge'[n][c] \in {"menu", "close", "done"}
      BY <1>1, <1>9 DEF RelayFails, ShowMenu, BridgeCloses, Phases
    <2>2. UNCHANGED channel_state
      BY <1>9 DEF RelayFails, ShowMenu, BridgeCloses, handler
    <2>. QED  BY <1>6, <2>1, <2>2
  <1>10. CASE ActivateMenuAfterDisconnect(n, c)
    <2>1. /\ bridge[n][c] = "removed" /\ UNCHANGED session_channels
          /\ \/ SetBridge(n, c, "close") /\ UNCHANGED channel_state
             \/ SetBridge(n, c, "menu")
      BY <1>10 DEF ActivateMenuAfterDisconnect, tables
    <2>2. \/ bridge'[n][c] = "close" /\ UNCHANGED channel_state
          \/ bridge'[n][c] = "menu"
      BY <1>1, <2>1 DEF Phases
    <2>. QED  BY <1>6, <1>8, <2>1, <2>2
  <1>. QED  BY <1>5, <1>7, <1>9, <1>10 DEF BridgeTask

LEMMA StepBridges ==
    ASSUME ProxyInv, NEW n \in Bridges, NEW c \in Channels,
           RelayExit(n, c) \/ RelayFails(n, c) \/ RelayClose(n, c) \/ BridgeTask(n, c)
    PROVE  Rest'
  <1>1. ASSUME NEW d \in Channels
        PROVE  Channel(d)'
    <2>1. CASE d = c
      BY <2>1, BridgeChannel
    <2>2. CASE d # c
      <3>1. ShouldReuseMenu(d) => ShouldReuseMenu(d)'
        BY <2>2, BridgeMoves DEF ShouldReuseMenu
      <3>2. proxy_session \in Sessions
        BY DEF ProxyInv, TypeOK
      <3>. QED  BY <2>2, <3>1, <3>2, BridgeMoves, ChannelSame DEF ProxyInv
    <2>. QED  BY <2>1, <2>2
  <1>2. CallbackInv'
    <2>1. call \in Calls /\ call' = call
      BY BridgeMoves DEF ProxyInv, TypeOK
    <2>2. \A d \in Channels :
             /\ frontend'[d] = "unused" <=> frontend[d] = "unused"
             /\ channel_state[d].menu_active => channel_state'[d].menu_active
             /\ channel_state'[d].menu_active => channel_state[d].menu_active \/ ~Quiet(d)
      BY BridgeMoves DEF Quiet
    <2>3. \A d \in Channels, m \in Bridges : Live(m, d)' => Live(m, d)
      <3>1. Live(n, c)' => Live(n, c)
        <4>1. Live(n, c) \/ bridge[n][c] \in {"menu", "close"}
          BY DEF RelayExit, RelayFails, RelayClose, BridgeTask, RelayEnd, Live, Running,
                 ActivateMenuAfterDisconnect, ShowMenu, BridgeCloses
        <4>2. CASE bridge[n][c] \in {"menu", "close"}
          <5>1. SetBridge(n, c, "close") \/ SetBridge(n, c, "done")
            BY <4>2 DEF RelayExit, RelayFails, RelayClose, BridgeTask, RelayEnd, Running,
                        ActivateMenuAfterDisconnect, ShowMenu, BridgeCloses
          <5>2. bridge'[n][c] \in {"close", "done"}
            BY <5>1, BridgeShape, Disjoint DEF SetBridge, ProxyInv, TypeOK, Phases
          <5>. QED  BY <5>2 DEF Live
        <4>. QED  BY <4>1, <4>2
      <3>2. \A d \in Channels, m \in Bridges : m # n \/ d # c => Live(m, d)' = Live(m, d)
        BY BridgeMoves DEF Live
      <3>. QED  BY <3>1, <3>2
    <2>. QED  BY <2>1, <2>2, <2>3, CallbackSame DEF ProxyInv
  <1>3. Fresh'
    BY BridgeMoves, FreshSame DEF ProxyInv
  <1>. QED  BY <1>1, <1>2, <1>3 DEF Rest

-----------------------------------------------------------------------------
(* The invariant.                                                          *)

LEMMA RestNext ==
    ASSUME ProxyInv, [Next]_vars
    PROVE  Rest'
  <1>1. CASE UNCHANGED vars
    <2>1. UNCHANGED <<channel_state, proxy_session, session_channels, frontend, bridge, told, call>>
      BY <1>1 DEF vars, handler, tables
    <2>. QED  BY <2>1, Untouched
  <1>. QED
    BY <1>1, StepConnection, StepRelay, StepRaw, StepChannels, StepOpens, StepMenu, StepBridges
       DEF Next, Callback

LEMMA RestInit == Init => Rest
  <1>. SUFFICES ASSUME Init PROVE Rest
    OBVIOUS
  <1>1. /\ call.pc = "idle" /\ proxy_session \in Sessions
        /\ session_channels = [n \in Sessions |-> {}]
        /\ bridge = [n \in Bridges |-> [c \in AllChannels |-> "none"]]
        /\ channel_state = [c \in Channels |-> Gone] /\ Gone.menu_active = FALSE
    BY Disjoint, IdlePC DEF Init, Gone
  <1>2. \A n \in Bridges, c \in Channels : bridge[n][c] = "none"
    BY <1>1, Disjoint
  <1>3. ASSUME NEW c \in Channels
        PROVE  Channel(c)
    <2>1. channel_state[c].menu_active = FALSE
      BY <1>1
    <2>. QED  BY <1>1, <1>2, <2>1 DEF Channel, Live
  <1>4. CallbackInv /\ Fresh
    BY <1>1 DEF CallbackInv, Fresh
  <1>. QED  BY <1>3, <1>4 DEF Rest

(***************************************************************************)
(* ProxyInv holds in every state: each channel has one live bridge at      *)
(* most, menus start only when it is through, and a callback that opens a  *)
(* channel on the target finds it without a bridge.                        *)
(***************************************************************************)
THEOREM ProxyInvariant == Spec => []ProxyInv
  <1>1. Init => ProxyInv
    BY TypeInit, RestInit DEF Rest, ProxyInv
  <1>2. ProxyInv /\ [Next]_vars => ProxyInv'
    <2>. SUFFICES ASSUME ProxyInv, [Next]_vars PROVE ProxyInv'
      OBVIOUS
    <2>1. TypeOK'
      BY TypeNext DEF ProxyInv
    <2>. QED  BY <2>1, RestNext DEF Rest, ProxyInv
  <1>. QED  BY <1>1, <1>2, PTL DEF Spec

(***************************************************************************)
(* TypeOK: the handler, the sessions and the bridges stay well-formed      *)
(* through every callback, whatever the tasks of the bridges do.           *)
(***************************************************************************)
THEOREM TypeCorrect == Spec => []TypeOK
  <1>1. ProxyInv => TypeOK
    BY DEF ProxyInv
  <1>. QED  BY <1>1, ProxyInvariant, PTL

(***************************************************************************)
(* MenuExclusive: while the menu is active on a channel the current        *)
(* session has no target channel for it.  The menu starts after its bridge *)
(* has removed the backend from the session the channel was opened on.     *)
(***************************************************************************)
THEOREM MenuIsExclusive == Spec => []MenuExclusive
  <1>1. ProxyInv => MenuExclusive
    <2>. SUFFICES ASSUME ProxyInv, NEW c \in Channels, channel_state[c].menu_active
                  PROVE  ~HasBackend(proxy_session, c)
      BY DEF MenuExclusive
    <2>1. c \notin session_channels[proxy_session]
      BY DEF ProxyInv, Channel
    <2>2. raw_channels[proxy_session] \subseteq RawChannels
      BY DEF ProxyInv, TypeOK
    <2>. QED  BY <2>1, <2>2, Disjoint DEF HasBackend
  <1>. QED  BY <1>1, ProxyInvariant, PTL

(***************************************************************************)
(* OneWriter: at most one bridge relays to a channel of the client,        *)
(* through every change of the target and every attempt that fell back on  *)
(* the old session.                                                        *)
(***************************************************************************)
THEOREM OneBridgeWrites == Spec => []OneWriter
  <1>1. ProxyInv => OneWriter
    <2>. SUFFICES ASSUME ProxyInv, NEW c \in Channels, NEW m \in Bridges, NEW n \in Bridges,
                         Running(m, c), Running(n, c)
                  PROVE  m = n
      BY DEF OneWriter
    <2>1. Live(m, c) /\ Live(n, c)
      BY DEF Running, Live
    <2>. QED  BY <2>1 DEF ProxyInv, Channel
  <1>. QED  BY <1>1, ProxyInvariant, PTL

(* Only the close of the target ends a bridge and closes its channel in    *)
(* one step, and it leaves a channel that is kept for the menu open.       *)
LEMMA ClosedByTarget ==
    ASSUME TypeOK, Next, NEW n \in Bridges, NEW c \in Channels,
           bridge[n][c] = "exited", bridge'[n][c] = "removed", frontend'[c] # frontend[c]
    PROVE  ~ShouldReuseMenu(c)
  <1>0. /\ c \in AllChannels /\ c \notin RawChannels /\ RawChannels \subseteq AllChannels
        /\ Channels \subseteq AllChannels /\ Sessions \subseteq Bridges
        /\ proxy_session \in Bridges /\ Again \in Bridges /\ call \in Calls
    BY Disjoint DEF TypeOK
  <1>1. ~UNCHANGED bridge /\ ~UNCHANGED frontend
    OBVIOUS
  <1>2. \A m \in Bridges, d \in AllChannels, p \in Phases :
           SetBridge(m, d, p) => m = n /\ d = c /\ p = "removed"
    <2>. SUFFICES ASSUME NEW m \in Bridges, NEW d \in AllChannels, NEW p \in Phases,
                         SetBridge(m, d, p)
                  PROVE  m = n /\ d = c /\ p = "removed"
      OBVIOUS
    <2>1. /\ bridge'[m][d] = p
          /\ m # n \/ d # c => bridge'[n][c] = bridge[n][c]
      BY <1>0, BridgeShape DEF SetBridge, TypeOK, Phases
    <2>. QED  BY <2>1
  <1>3. {"opening", "relay", "exited", "menu", "close", "done"} \subseteq Phases
    BY DEF Phases
  <1>4. ASSUME NEW m \in Bridges, NEW d \in Channels, RelayClose(m, d)
        PROVE  ~ShouldReuseMenu(c)
    <2>1. m = n /\ d = c
      BY <1>0, <1>2, <1>4 DEF RelayClose, Phases
    <2>. QED  BY <1>1, <1>4, <2>1 DEF RelayClose
  <1>5. ~FinishOpen
    BY <1>0, <1>1, <1>2, <1>3, CallShape DEF FinishOpen, OpensSessionChannel, DoesNotOpen
  <1>6. \A m \in Bridges, d \in Channels : ~BridgeCloses(m, d)
    BY <1>0, <1>2, <1>3 DEF BridgeCloses
  <1>7. \A d \in RawChannels : ~ChannelOpenDirectTcpip(d)
    BY <1>0, <1>1, <1>2, <1>3 DEF ChannelOpenDirectTcpip, DoesNotOpen
  <1>8. \A m \in Sessions, d \in RawChannels :
           ~ServerChannelOpen(m, d) /\ ~RawClose(m, d) /\ ~RawFails(m, d) /\ ~RawTask(m, d)
    BY <1>0, <1>1, <1>2, <1>3
       DEF ServerChannelOpen, RawClose, RawFails, RawTask, SpawnRawBackendBridge
  <1>9. /\ ~HangUp /\ ~Reload
        /\ ~(EndConnection \/ RelayRequest \/ RelayData \/ CloseBackend \/ MenuSelect
               \/ ConnectSelectedTarget \/ Reopen \/ Replay)
    BY <1>1 DEF HangUp, Reload, EndConnection, RelayRequest, RelayData, CloseBackend, MenuSelect,
                ConnectSelectedTarget, Reopen, Replay
  <1>10. /\ \A d \in Channels : ~ChannelOpenSession(d) /\ ~SessionRequest(d)
         /\ \A d \in AllChannels :
               ~Data(d) /\ ~OtherRequest(d) /\ ~ChannelEof(d) /\ ~ChannelClose(d)
         /\ \A m \in Sessions : ~TargetFails(m) /\ ~DropTask(m)
    BY <1>1 DEF ChannelOpenSession, SessionRequest, Data, OtherRequest, ChannelEof, ChannelClose,
                TargetFails, DropTask, DropDisconnect, DropLog
  <1>11. \A m \in Bridges, d \in Channels :
            /\ ~RelayExit(m, d) /\ ~RelayFails(m, d) /\ ~RelayEnd(m, d)
            /\ ~ActivateMenuAfterDisconnect(m, d) /\ ~ShowMenu(m, d)
    BY <1>1 DEF RelayExit, RelayFails, RelayEnd, ActivateMenuAfterDisconnect, ShowMenu
  <1>. QED
    BY <1>4, <1>5, <1>6, <1>7, <1>8, <1>9, <1>10, <1>11 DEF Next, Callback, BridgeTask

(***************************************************************************)
(* ExitTold: a channel that the gateway closes because the target closed   *)
(* its own was told the exit before.  The exit is withheld only from a     *)
(* shell, and a shell's channel is not closed then.                        *)
(***************************************************************************)
THEOREM ExitIsTold == Spec => ExitTold
  <1>1. ProxyInv /\ [Next]_vars =>
           [\A n \in Bridges, c \in Channels :
              (/\ bridge[n][c] = "exited" /\ bridge'[n][c] = "removed"
               /\ frontend[c] = "open" /\ frontend'[c] = "closed")
                  => c \in told]_vars
    <2>. SUFFICES ASSUME ProxyInv, Next, NEW n \in Bridges, NEW c \in Channels,
                         bridge[n][c] = "exited", bridge'[n][c] = "removed",
                         frontend[c] = "open", frontend'[c] = "closed"
                  PROVE  c \in told
      OBVIOUS
    <2>1. ~ShouldReuseMenu(c)
      BY ClosedByTarget DEF ProxyInv
    <2>2. Channel(c)
      BY DEF ProxyInv
    <2>. QED  BY <2>1, <2>2 DEF Channel
  <1>. QED  BY <1>1, ProxyInvariant, PTL DEF Spec, ExitTold

-----------------------------------------------------------------------------
(* What is sent to a target chosen in the menu.                            *)

(* The menu is active only for a shell, but while a second request on its  *)
(* channel runs; that one finds no backend, and closes the channel or ends *)
(* the connection, so that no choice can be made any more.                 *)
ReplayInv ==
    /\ \A c \in Channels :
          /\ frontend[c] = "open" => channel_state[c].request # "gone"
          /\ channel_state[c].menu_active /\ frontend[c] = "open" /\ conn \in {"open", "ending"} =>
                channel_state[c].request = "shell" \/ (call.pc = "request" /\ call.ch = c)
    /\ call.pc = "open" => channel_state[call.ch].request # "gone"
    /\ call.pc \in {"menu", "connect", "reopen", "replay"} =>
          channel_state[call.ch].request = "shell"

LEMMA ReplaySame ==
    ASSUME ReplayInv, call' \in Calls,
           \A c \in Channels :
              /\ channel_state'[c].request = channel_state[c].request
              /\ channel_state'[c].menu_active =>
                    channel_state[c].menu_active \/ channel_state[c].request = "shell"
              /\ frontend'[c] = "open" => frontend[c] = "open",
           conn' \in {"open", "ending"} => conn \in {"open", "ending"},
           call.pc = "request" => call' = call,
           call'.pc = "open" => call' = call,
           call'.pc \in {"menu", "connect", "reopen", "replay"} =>
              call.pc \in {"menu", "connect", "reopen", "replay"} /\ call'.ch = call.ch
    PROVE  ReplayInv'
  <1>1. call'.pc \in {"open", "menu", "connect", "reopen", "replay"} => call'.ch \in Channels
    BY CallShape
  <1>. QED  BY <1>1 DEF ReplayInv

(* Callbacks go on, and none but RelayRequest comes after a request.       *)
LEMMA ReplayCalls ==
    ASSUME ProxyInv, ReplayInv, call' \in Calls,
           \/ EndConnection \/ HangUp \/ RelayData \/ CloseBackend
           \/ ConnectSelectedTarget \/ Reopen \/ Replay
           \/ \E c \in AllChannels : OtherRequest(c) \/ ChannelEof(c)
    PROVE  ReplayInv'
  <1>1. UNCHANGED <<channel_state, frontend>>
    BY DEF EndConnection, HangUp, RelayData, CloseBackend, ConnectSelectedTarget, Reopen, Replay,
           OtherRequest, ChannelEof, handler
  <1>2. conn' \in {"open", "ending"} => conn \in {"open", "ending"}
    BY DEF EndConnection, HangUp, RelayData, CloseBackend, ConnectSelectedTarget, Reopen, Replay,
           OtherRequest, ChannelEof, End, AbortProxySession
  <1>3. call.pc # "request"
    BY IdlePC DEF EndConnection, HangUp, RelayData, CloseBackend, ConnectSelectedTarget, Reopen,
           Replay, OtherRequest, ChannelEof, Ready, Takes
  <1>4. call'.pc = "open" => call' = call
    BY IdlePC DEF EndConnection, HangUp, RelayData, CloseBackend, ConnectSelectedTarget, Reopen,
           Replay, OtherRequest, ChannelEof, Go, Return, End, handler
  <1>5. call'.pc \in {"menu", "connect", "reopen", "replay"} =>
           call.pc \in {"menu", "connect", "reopen", "replay"} /\ call'.ch = call.ch
    <2>1. \A p, c : [pc |-> p, ch |-> c].ch = c
      OBVIOUS
    <2>. QED  BY <2>1, IdlePC
              DEF EndConnection, HangUp, RelayData, CloseBackend, ConnectSelectedTarget, Reopen,
                  Replay, OtherRequest, ChannelEof, Go, Return, End, handler
  <1>. QED  BY <1>1, <1>2, <1>3, <1>4, <1>5, ReplaySame

(* What is chosen in the menu leaves the request as it is.                 *)
LEMMA ReplayMenu ==
    ASSUME ProxyInv, ReplayInv, call' \in Calls, MenuSelect
    PROVE  ReplayInv'
  <1>0. channel_state \in [Channels -> SessionChannelState] /\ call.pc = "menu"
    BY DEF ProxyInv, TypeOK, MenuSelect
  <1>1. PICK c \in Channels : c = call.ch
    BY <1>0, CallShape DEF ProxyInv, TypeOK
  <1>2. UNCHANGED frontend /\ (conn' \in {"open", "ending"} => conn \in {"open", "ending"})
    BY DEF MenuSelect, End
  <1>3. CASE call' = IdleCall /\ UNCHANGED channel_state
    BY <1>0, <1>2, <1>3, ReplaySame, IdlePC
  <1>4. CASE /\ channel_state' = [channel_state EXCEPT ![c] = [@ EXCEPT !.menu_active = FALSE]]
             /\ call' = [pc |-> "connect", ch |-> c]
    <2>1. /\ [channel_state[c] EXCEPT !.menu_active = FALSE].menu_active = FALSE
          /\ [channel_state[c] EXCEPT !.menu_active = FALSE].request = channel_state[c].request
      BY <1>0, StateShape
    <2>2. \A d \in Channels :
             /\ channel_state'[d].request = channel_state[d].request
             /\ channel_state'[d].menu_active => channel_state[d].menu_active
      BY <1>0, <1>4, <2>1
    <2>3. call'.pc = "connect" /\ call'.ch = call.ch
      BY <1>1, <1>4
    <2>. QED  BY <1>0, <1>2, <2>2, <2>3, ReplaySame
  <1>. QED  BY <1>1, <1>3, <1>4 DEF MenuSelect, Return, Go, End

(* A bridge activates the menu for a shell only.                           *)
LEMMA ReplayBridges ==
    ASSUME ProxyInv, ReplayInv, NEW n \in Bridges, NEW c \in Channels,
           RelayExit(n, c) \/ RelayFails(n, c) \/ RelayClose(n, c) \/ BridgeTask(n, c)
    PROVE  ReplayInv'
  <1>1. call' = call /\ call \in Calls
    BY BridgeMoves DEF ProxyInv, TypeOK
  <1>2. \A d \in Channels :
           /\ channel_state'[d].request = channel_state[d].request
           /\ frontend'[d] = "open" => frontend[d] = "open"
    BY BridgeMoves
  <1>3. conn' \in {"open", "ending"} => conn \in {"open", "ending"}
    BY DEF RelayExit, RelayFails, RelayClose, BridgeTask, RelayEnd, AbortProxySession,
           ActivateMenuAfterDisconnect, ShowMenu, BridgeCloses
  <1>4. UNCHANGED channel_state \/ channel_state[c].request = "shell"
    BY DEF RelayExit, RelayFails, RelayClose, BridgeTask, RelayEnd, ShouldReuseMenu,
           ActivateMenuAfterDisconnect, ShowMenu, BridgeCloses, handler
  <1>5. \A d \in Channels : channel_state'[d].menu_active =>
           channel_state[d].menu_active \/ channel_state[d].request = "shell"
    BY <1>4, BridgeMoves
  <1>. QED  BY <1>1, <1>2, <1>3, <1>5, ReplaySame

(* Channels are opened, asked for and closed.                              *)
LEMMA ReplayChannels ==
    ASSUME ProxyInv, ReplayInv,
           \/ FinishOpen
           \/ \E c \in Channels : ChannelOpenSession(c)
           \/ \E c \in AllChannels : Data(c) \/ ChannelClose(c)
    PROVE  ReplayInv'
  <1>0. /\ channel_state \in [Channels -> SessionChannelState]
        /\ frontend \in [AllChannels -> {"unused", "open", "closed", "gone"}]
        /\ Channels \subseteq AllChannels /\ call \in Calls /\ IdleCall.pc = "idle"
    BY IdlePC DEF ProxyInv, TypeOK, AllChannels
  <1>1. CASE FinishOpen
    <2>1. /\ UNCHANGED <<conn, channel_state>> /\ call' = IdleCall
          /\ call.pc = "open" /\ call.ch \in Channels
          /\ \/ frontend' = [frontend EXCEPT ![call.ch] = "open"]
             \/ frontend' = [frontend EXCEPT ![call.ch] = "gone"]
      BY <1>0, <1>1, CallShape DEF FinishOpen, Return
    <2>2. \A d \in Channels : frontend'[d] = "open" => frontend[d] = "open" \/ d = call.ch
      BY <1>0, <2>1
    <2>3. ~channel_state[call.ch].menu_active /\ channel_state[call.ch].request # "gone"
      BY <2>1 DEF ProxyInv, CallbackInv, ReplayInv
    <2>. QED  BY <1>0, <2>1, <2>2, <2>3 DEF ReplayInv
  <1>2. ASSUME NEW c \in Channels, ChannelOpenSession(c)
        PROVE  ReplayInv'
    <2>. DEFINE x == [request |-> "none", menu_active |-> FALSE]
    <2>1. x.request = "none" /\ x.menu_active = FALSE
      OBVIOUS
    <2>. HIDE DEF x
    <2>2. /\ channel_state' = [channel_state EXCEPT ![c] = x]
          /\ UNCHANGED <<conn, frontend>> /\ call = IdleCall
          /\ call' = [pc |-> "open", ch |-> c]
      BY <1>2 DEF ChannelOpenSession, Takes, Go, x
    <2>3. channel_state'[c] = x /\ \A d \in Channels \ {c} : channel_state'[d] = channel_state[d]
      BY <1>0, <2>2
    <2>4. call'.pc = "open" /\ call'.ch = c
      BY <2>2
    <2>. QED  BY <1>0, <2>1, <2>2, <2>3, <2>4 DEF ReplayInv
  <1>3. ASSUME NEW c \in AllChannels, Data(c)
        PROVE  ReplayInv'
    <2>1. /\ UNCHANGED <<conn, channel_state, frontend>> /\ call.pc = "idle"
          /\ frontend[c] = "open" /\ conn \in {"open", "ending"}
      BY <1>0, <1>3 DEF Data, Ready, Takes
    <2>2. CASE call' = [pc |-> "relay", ch |-> c]
      <3>1. call'.pc = "relay"
        BY <2>2
      <3>. QED  BY <2>1, <3>1 DEF ReplayInv
    <2>3. CASE c \in Channels /\ channel_state[c].menu_active /\ call' = [pc |-> "menu", ch |-> c]
      <3>1. call'.pc = "menu" /\ call'.ch = c
        BY <2>3
      <3>. QED  BY <2>1, <2>3, <3>1 DEF ReplayInv
    <2>. QED  BY <1>3, <2>2, <2>3 DEF Data, Go
  <1>4. ASSUME NEW c \in AllChannels, ChannelClose(c)
        PROVE  ReplayInv'
    <2>1. /\ UNCHANGED conn /\ call.pc = "idle" /\ call' = [pc |-> "close", ch |-> c]
          /\ frontend' = [frontend EXCEPT ![c] = "gone"]
          /\ \A d \in Channels \ {c} : channel_state'[d] = channel_state[d]
      BY <1>0, <1>4 DEF ChannelClose, Takes, Go
    <2>2. call'.pc = "close"
      BY <2>1
    <2>3. frontend'[c] = "gone" /\ \A d \in Channels \ {c} : frontend'[d] = frontend[d]
      BY <1>0, <2>1
    <2>. QED  BY <2>1, <2>2, <2>3 DEF ReplayInv
  <1>. QED  BY <1>1, <1>2, <1>3, <1>4

(* A request on a channel that has the menu finds no backend for it.       *)
LEMMA ReplayRequests ==
    ASSUME ProxyInv, ReplayInv, RelayRequest \/ \E c \in Channels : SessionRequest(c)
    PROVE  ReplayInv'
  <1>0. /\ channel_state \in [Channels -> SessionChannelState]
        /\ frontend \in [AllChannels -> {"unused", "open", "closed", "gone"}]
        /\ Channels \subseteq AllChannels /\ call \in Calls /\ IdleCall.pc = "idle"
    BY IdlePC DEF ProxyInv, TypeOK, AllChannels
  <1>1. CASE RelayRequest
    <2>1. /\ call.pc = "request" /\ call.ch \in Channels /\ call' = IdleCall
          /\ UNCHANGED channel_state
      BY <1>0, <1>1, CallShape DEF RelayRequest, Return
    <2>2. \A d \in Channels : frontend'[d] = "open" => frontend[d] = "open"
      <3>1. UNCHANGED frontend \/ CloseFrontend(call.ch)
        BY <1>1 DEF RelayRequest
      <3>. QED  BY <1>0, <2>1, <3>1, CloseFrontendKeeps DEF ProxyInv
    <2>3. conn' = conn \/ conn' = "leaving"
      BY <1>1 DEF RelayRequest
    <2>4. channel_state[call.ch].menu_active => frontend'[call.ch] # "open" \/ conn' = "leaving"
      <3>1. channel_state[call.ch].menu_active => ~HasBackend(proxy_session, call.ch)
        BY <2>1, Disjoint DEF ProxyInv, Channel, HasBackend, TypeOK
      <3>2. CloseFrontend(call.ch) => frontend'[call.ch] # "open"
        BY <1>0, <2>1 DEF CloseFrontend
      <3>. QED  BY <1>1, <3>1, <3>2 DEF RelayRequest, Relays
    <2>. QED  BY <1>0, <2>1, <2>2, <2>3, <2>4 DEF ReplayInv
  <1>2. ASSUME NEW c \in Channels, SessionRequest(c)
        PROVE  ReplayInv'
    <2>1. /\ UNCHANGED <<conn, frontend>> /\ call.pc = "idle"
          /\ call' = [pc |-> "request", ch |-> c]
      BY <1>0, <1>2 DEF SessionRequest, Ready, Takes, Go
    <2>2. PICK kind \in {"shell", "exec"} :
             channel_state' = [channel_state EXCEPT ![c] = [@ EXCEPT !.request = kind]]
      BY <1>2 DEF SessionRequest
    <2>3. [channel_state[c] EXCEPT !.request = kind].request = kind
      BY <1>0, RequestStored
    <2>4. /\ channel_state'[c].request = kind
          /\ \A d \in Channels \ {c} : channel_state'[d] = channel_state[d]
      BY <1>0, <2>2, <2>3
    <2>5. call'.pc = "request" /\ call'.ch = c
      BY <2>1
    <2>. QED  BY <2>1, <2>4, <2>5 DEF ReplayInv
  <1>. QED  BY <1>1, <1>2

(***************************************************************************)
(* ReplayInv holds in every state, whatever requests the client makes.     *)
(***************************************************************************)
THEOREM ReplayInvariant == Spec => []ReplayInv
  <1>1. Init => ReplayInv
    BY Disjoint, IdlePC DEF Init, Gone, ReplayInv
  <1>2. ProxyInv /\ ProxyInv' /\ ReplayInv /\ [Next]_vars => ReplayInv'
    <2>. SUFFICES ASSUME ProxyInv, ProxyInv', ReplayInv, [Next]_vars PROVE ReplayInv'
      OBVIOUS
    <2>0. call' \in Calls
      BY DEF ProxyInv, TypeOK
    <2>1. CASE UNCHANGED vars
      BY <2>1 DEF ReplayInv, vars, handler
    <2>2. CASE \/ Reload
               \/ \E n \in Sessions : TargetFails(n) \/ DropTask(n)
      BY <2>2 DEF ReplayInv, Reload, TargetFails, DropTask, DropDisconnect, DropLog, handler
    <2>3. CASE \/ \E c \in RawChannels : ChannelOpenDirectTcpip(c)
               \/ \E n \in Sessions, c \in RawChannels :
                     \/ ServerChannelOpen(n, c) \/ RawTask(n, c) \/ RawClose(n, c)
                     \/ RawFails(n, c)
      <3>1. UNCHANGED <<conn, call, channel_state>>
        BY <2>3 DEF ChannelOpenDirectTcpip, ServerChannelOpen, RawTask, RawClose, RawFails,
                    SpawnRawBackendBridge, handler
      <3>2. \A d \in Channels : frontend'[d] = frontend[d]
        BY <2>3, RawFrame
      <3>. QED  BY <3>1, <3>2 DEF ReplayInv
    <2>. QED
      BY <2>0, <2>1, <2>2, <2>3, ReplayCalls, ReplayMenu, ReplayBridges, ReplayChannels,
         ReplayRequests DEF Next, Callback
  <1>. QED  BY <1>1, <1>2, ProxyInvariant, PTL DEF Spec

(***************************************************************************)
(* ReplayIsShell: what connect_selected_target's caller replays to a new   *)
(* target without a look at its policy is always a shell, whatever other   *)
(* requests the client has made on the channel before.                     *)
(***************************************************************************)
THEOREM ReplaysAreShells == Spec => []ReplayIsShell
  <1>1. ReplayInv => ReplayIsShell
    BY DEF ReplayInv, ReplayIsShell
  <1>. QED  BY <1>1, ReplayInvariant, PTL

-----------------------------------------------------------------------------
(* What the client sees.                                                   *)

Begun(c) ==
    \/ frontend[c] \in {"open", "closed"}
    \/ bridge[Again][c] # "none"
    \/ channel_state[c].menu_active

(* A session not connected yet has served nobody, a channel that is open,  *)
(* whose target was replaced or that has the menu has been served, and     *)
(* nothing can have been asked for on a channel that is still being        *)
(* opened.                                                                 *)
Shown ==
    \A c \in Channels :
        /\ \A n \in Sessions : n > proxy_session => bridge[n][c] = "none"
        /\ Begun(c) => ServedBy(c) # {}
        /\ call.pc = "open" /\ call.ch = c => channel_state[c].request = "none"

ScreenVars ==
    <<[c \in Channels |-> channel_state[c].request],
      [c \in Channels |-> Writer(c)],
      [c \in Channels |-> ServedBy(c)]>>

ScreenStep == [Screen!Next]_ScreenVars

Asked(c) == channel_state[c].request

SameScreen(c) == UNCHANGED <<Asked(c), Writer(c), ServedBy(c)>>

LEMMA ScreenStays ==
    ASSUME \A c \in Channels : SameScreen(c)
    PROVE  ScreenStep
  BY DEF SameScreen, ScreenStep, ScreenVars, Asked

LEMMA ScreenAsks ==
    ASSUME NEW c \in Channels, \A d \in Channels \ {c} : SameScreen(d),
           UNCHANGED <<Writer(c), ServedBy(c)>>,
           \/ ServedBy(c) = {} /\ Asked(c)' = "none"
           \/ ServedBy(c) # {} /\ Asked(c) # "gone" /\ Asked(c)' \in {"shell", "exec"}
           \/ Writer(c) # "menu" /\ Asked(c)' = "gone"
    PROVE  ScreenStep
  <1>1. Screen!Ask(c)
    BY DEF SameScreen, Screen!Ask, Asked
  <1>. QED  BY <1>1 DEF ScreenStep, Screen!Next

LEMMA ScreenAttaches ==
    ASSUME NEW c \in Channels, \A d \in Channels \ {c} : SameScreen(d),
           NEW n \in Sessions,
           \/ Writer(c) = "nobody" /\ ServedBy(c) = {} /\ Asked(c) = "none"
           \/ Writer(c) = "menu" /\ \A m \in ServedBy(c) : m <= n,
           Writer(c)' = "target", ServedBy(c)' = ServedBy(c) \cup {n}, Asked(c)' = Asked(c)
    PROVE  ScreenStep
  <1>1. Screen!Attach(c, n)
    BY DEF SameScreen, Screen!Attach, Asked
  <1>. QED  BY <1>1 DEF ScreenStep, Screen!Next

LEMMA ScreenLeaves ==
    ASSUME NEW c \in Channels, \A d \in Channels \ {c} : SameScreen(d),
           Writer(c) \in {"target", "menu"}, Writer(c)' = "nobody",
           UNCHANGED <<Asked(c), ServedBy(c)>>
    PROVE  ScreenStep
  <1>1. Screen!Leave(c)
    BY DEF SameScreen, Screen!Leave, Asked
  <1>. QED  BY <1>1 DEF ScreenStep, Screen!Next

LEMMA ScreenEntersMenu ==
    ASSUME NEW c \in Channels, \A d \in Channels \ {c} : SameScreen(d),
           Writer(c) = "nobody", ServedBy(c) # {}, ShouldReuseMenu(c), Writer(c)' = "menu",
           UNCHANGED <<Asked(c), ServedBy(c)>>
    PROVE  ScreenStep
  <1>1. Screen!EnterMenu(c)
    BY DEF SameScreen, Screen!EnterMenu, Asked, ShouldReuseMenu
  <1>. QED  BY <1>1 DEF ScreenStep, Screen!Next

(* What the screen of a channel depends on.                                *)
LEMMA WriterSame ==
    ASSUME NEW c \in Channels,
           \A n \in Bridges : Running(n, c)' = Running(n, c), InMenu(c)' = InMenu(c)
    PROVE  Writer(c)' = Writer(c)
  BY DEF Writer, Serves

LEMMA ServedSame ==
    ASSUME NEW c \in Channels, \A n \in Bridges : bridge'[n][c] = "none" <=> bridge[n][c] = "none"
    PROVE  ServedBy(c)' = ServedBy(c)
  BY Disjoint DEF ServedBy

LEMMA SameBridges ==
    ASSUME NEW c \in Channels, \A n \in Bridges : bridge'[n][c] = bridge[n][c],
           InMenu(c)' = InMenu(c)
    PROVE  UNCHANGED <<Writer(c), ServedBy(c)>>
  BY WriterSame, ServedSame DEF Running

LEMMA ShownSame ==
    ASSUME Shown,
           \A n \in Sessions : n > proxy_session' => n > proxy_session,
           \A c \in Channels, n \in Bridges : bridge'[n][c] = "none" <=> bridge[n][c] = "none",
           \A c \in Channels :
              /\ frontend'[c] \in {"open", "closed"} => frontend[c] \in {"open", "closed"}
              /\ channel_state'[c].menu_active => channel_state[c].menu_active \/ ServedBy(c) # {}
              /\ call'.pc = "open" /\ call'.ch = c =>
                    \/ channel_state'[c].request = "none"
                    \/ call' = call /\ channel_state'[c].request = channel_state[c].request
    PROVE  Shown'
  <1>. SUFFICES ASSUME NEW c \in Channels
                PROVE  (/\ \A n \in Sessions : n > proxy_session => bridge[n][c] = "none"
                        /\ Begun(c) => ServedBy(c) # {}
                        /\ call.pc = "open" /\ call.ch = c => channel_state[c].request = "none")'
    BY DEF Shown
  <1>1. ServedBy(c)' = ServedBy(c)
    BY ServedSame
  <1>2. (\A n \in Sessions : n > proxy_session => bridge[n][c] = "none")'
    BY Disjoint DEF Shown
  <1>3. (Begun(c) => ServedBy(c) # {})'
    BY <1>1, Disjoint DEF Shown, Begun
  <1>4. (call.pc = "open" /\ call.ch = c => channel_state[c].request = "none")'
    BY DEF Shown
  <1>. QED  BY <1>2, <1>3, <1>4

(* While the menu has a channel no bridge writes to it, and the other way  *)
(* round.                                                                  *)
LEMMA WriterIs ==
    ASSUME ProxyInv, NEW c \in Channels
    PROVE  /\ InMenu(c) => Quiet(c) /\ Writer(c) = "menu"
           /\ ~Quiet(c) => ~InMenu(c)
           /\ Quiet(c) => ~Serves(c)
           /\ Serves(c) => Writer(c) = "target"
           /\ ~Serves(c) /\ ~InMenu(c) => Writer(c) = "nobody"
  <1>1. InMenu(c) => Quiet(c)
    BY DEF InMenu, Waits, ProxyInv, Channel, CallbackInv
  <1>2. Quiet(c) => ~Serves(c)
    BY DEF Quiet, Live, Serves, Running
  <1>. QED  BY <1>1, <1>2 DEF Writer

(* A step that no channel shows.                                           *)
LEMMA Unseen ==
    ASSUME Shown, UNCHANGED channel_state,
           \A n \in Sessions : n > proxy_session' => n > proxy_session,
           \A c \in Channels :
              /\ \A n \in Bridges : bridge'[n][c] = bridge[n][c]
              /\ frontend'[c] \in {"open", "closed"} => frontend[c] \in {"open", "closed"},
           \/ call' = call
           \/ {call.pc, call'.pc} \cap {"connect", "reopen"} = {} /\ call'.pc # "open"
    PROVE  Shown' /\ ScreenStep
  <1>1. Shown'
    BY ShownSame
  <1>2. ASSUME NEW c \in Channels
        PROVE  SameScreen(c)
    <2>1. InMenu(c)' = InMenu(c)
      BY DEF InMenu, Waits
    <2>. QED  BY <2>1, SameBridges DEF SameScreen, Asked
  <1>. QED  BY <1>1, <1>2, ScreenStays

LEMMA ClosesOnly ==
    ASSUME TypeOK, NEW c \in AllChannels, NEW d \in AllChannels, UNCHANGED frontend \/ CloseFrontend(c),
           frontend'[d] \in {"open", "closed"}
    PROVE  frontend[d] \in {"open", "closed"}
  BY DEF TypeOK, CloseFrontend

LEMMA UnseenSteps ==
    ASSUME ProxyInv, Shown,
           \/ EndConnection \/ HangUp \/ Reload \/ RelayRequest \/ RelayData \/ CloseBackend
           \/ Replay
           \/ \E n \in Sessions : TargetFails(n) \/ DropTask(n)
           \/ \E c \in AllChannels : Data(c) \/ OtherRequest(c) \/ ChannelEof(c)
    PROVE  Shown' /\ ScreenStep
  <1>0. TypeOK /\ call \in Calls /\ Channels \subseteq AllChannels /\ IdleCall.pc = "idle"
    BY IdlePC DEF ProxyInv, TypeOK, AllChannels
  <1>1. UNCHANGED <<channel_state, proxy_session, bridge>>
    BY DEF EndConnection, HangUp, Reload, RelayRequest, RelayData, CloseBackend, Replay,
           TargetFails, DropTask, DropDisconnect, DropLog, Data, OtherRequest, ChannelEof, handler
  <1>2. \/ call' = call
        \/ {call.pc, call'.pc} \cap {"connect", "reopen"} = {} /\ call'.pc # "open"
    BY <1>0 DEF EndConnection, HangUp, Reload, RelayRequest, RelayData, CloseBackend, Replay,
           TargetFails, DropTask, DropDisconnect, DropLog, Data, OtherRequest, ChannelEof, handler,
           End, Return, Go, Ready, Takes
  <1>3. ASSUME NEW c \in Channels, frontend'[c] \in {"open", "closed"}
        PROVE  frontend[c] \in {"open", "closed"}
    <2>1. CASE UNCHANGED frontend
      BY <1>3, <2>1
    <2>2. CASE RelayRequest /\ CloseFrontend(call.ch)
      <3>1. call.ch \in AllChannels
        BY <1>0, <2>2, CallShape DEF RelayRequest
      <3>. QED  BY <1>0, <1>3, <2>2, <3>1, ClosesOnly
    <2>. QED
      BY <2>1, <2>2 DEF EndConnection, HangUp, Reload, RelayRequest, RelayData, CloseBackend,
           Replay, TargetFails, DropTask, DropDisconnect, DropLog, Data, OtherRequest, ChannelEof
  <1>. QED  BY <1>1, <1>2, <1>3, Unseen

LEMMA UnseenRaw ==
    ASSUME ProxyInv, Shown, NEW c \in RawChannels,
           \/ ChannelOpenDirectTcpip(c)
           \/ \E n \in Sessions :
                 ServerChannelOpen(n, c) \/ RawTask(n, c) \/ RawClose(n, c) \/ RawFails(n, c)
    PROVE  Shown' /\ ScreenStep
  <1>1. UNCHANGED <<channel_state, proxy_session, call>>
    BY DEF ChannelOpenDirectTcpip, ServerChannelOpen, RawTask,
           SpawnRawBackendBridge, RawClose, RawFails, handler
  <1>2. \A d \in Channels : frontend'[d] = frontend[d]
    BY RawFrame
  <1>3. \A d \in Channels, n \in Bridges : bridge'[n][d] = bridge[n][d]
    BY RawFrame
  <1>. QED  BY <1>1, <1>2, <1>3, Unseen

(* The requests of the client.                                             *)
LEMMA AskedSteps ==
    ASSUME ProxyInv, ReplayInv, Shown,
           \/ \E c \in Channels : ChannelOpenSession(c) \/ SessionRequest(c)
           \/ \E c \in AllChannels : ChannelClose(c)
    PROVE  Shown' /\ ScreenStep
  <1>0. /\ channel_state \in [Channels -> SessionChannelState]
        /\ frontend \in [AllChannels -> {"unused", "open", "closed", "gone"}]
        /\ Channels \subseteq AllChannels /\ call \in Calls /\ IdleCall.pc = "idle"
    BY IdlePC DEF ProxyInv, TypeOK, AllChannels
  <1>1. ASSUME NEW c \in Channels, ChannelOpenSession(c)
        PROVE  Shown' /\ ScreenStep
    <2>. DEFINE x == [request |-> "none", menu_active |-> FALSE]
    <2>1. x.request = "none" /\ x.menu_active = FALSE
      OBVIOUS
    <2>. HIDE DEF x
    <2>2. /\ channel_state' = [channel_state EXCEPT ![c] = x]
          /\ frontend[c] = "unused" /\ call = IdleCall /\ call' = [pc |-> "open", ch |-> c]
          /\ UNCHANGED <<proxy_session, frontend, bridge>>
      BY <1>1 DEF ChannelOpenSession, Takes, Go, x
    <2>3. channel_state'[c] = x /\ \A d \in Channels \ {c} : channel_state'[d] = channel_state[d]
      BY <1>0, <2>2
    <2>4. call'.pc = "open" /\ call'.ch = c /\ call.pc = "idle"
      BY <1>0, <2>2
    <2>5. Shown'
      BY <2>1, <2>2, <2>3, <2>4, ShownSame
    <2>6. ASSUME NEW d \in Channels \ {c}
          PROVE  SameScreen(d)
      <3>1. InMenu(d)' = InMenu(d)
        BY <2>3, <2>4 DEF InMenu, Waits
      <3>. QED  BY <2>2, <2>3, <3>1, SameBridges DEF SameScreen, Asked
    <2>7. \A n \in Bridges : bridge[n][c] = "none"
      BY <2>2 DEF ProxyInv, Channel
    <2>8. ServedBy(c) = {}
      BY <2>7, Disjoint DEF ServedBy
    <2>9. ~channel_state[c].menu_active
      BY <2>8 DEF Shown, Begun
    <2>10. ~InMenu(c) /\ ~InMenu(c)' /\ Asked(c)' = "none"
      BY <2>1, <2>3, <2>4, <2>9 DEF InMenu, Waits, Asked
    <2>11. UNCHANGED <<Writer(c), ServedBy(c)>>
      <3>1. InMenu(c)' = InMenu(c)
        BY <2>10 DEF InMenu, Waits
      <3>. QED  BY <2>2, <3>1, SameBridges
    <2>. QED  BY <2>5, <2>6, <2>8, <2>10, <2>11, ScreenAsks
  <1>2. ASSUME NEW c \in Channels, SessionRequest(c)
        PROVE  Shown' /\ ScreenStep
    <2>1. /\ frontend[c] = "open"
          /\ call = IdleCall /\ call' = [pc |-> "request", ch |-> c]
          /\ UNCHANGED <<proxy_session, frontend, bridge>>
      BY <1>2 DEF SessionRequest, Ready, Takes, Go
    <2>2. PICK kind \in {"shell", "exec"} :
             channel_state' = [channel_state EXCEPT ![c] = [@ EXCEPT !.request = kind]]
      BY <1>2 DEF SessionRequest
    <2>3. /\ channel_state[c] \in SessionChannelState
          /\ channel_state[c].request # "gone"
      BY <1>0, <2>1 DEF ReplayInv
    <2>4. /\ channel_state'[c].menu_active = channel_state[c].menu_active
          /\ channel_state'[c].request = kind
          /\ \A d \in Channels \ {c} : channel_state'[d] = channel_state[d]
      BY <1>0, <2>2, <2>3, RequestStored
    <2>5. call'.pc = "request" /\ call.pc = "idle"
      BY <1>0, <2>1
    <2>6. Shown'
      BY <2>1, <2>4, <2>5, ShownSame
    <2>7. \A d \in Channels : InMenu(d)' = InMenu(d)
      BY <2>4, <2>5 DEF InMenu, Waits
    <2>8. \A d \in Channels \ {c} : SameScreen(d)
      BY <2>1, <2>4, <2>7, SameBridges DEF SameScreen, Asked
    <2>9. UNCHANGED <<Writer(c), ServedBy(c)>>
      BY <2>1, <2>7, SameBridges
    <2>10. ServedBy(c) # {} /\ Asked(c) # "gone" /\ Asked(c)' \in {"shell", "exec"}
      BY <2>1, <2>3, <2>4 DEF Shown, Begun, Asked
    <2>. QED  BY <2>6, <2>8, <2>9, <2>10, ScreenAsks
  <1>3. ASSUME NEW c \in AllChannels, ChannelClose(c)
        PROVE  Shown' /\ ScreenStep
    <2>1. /\ UNCHANGED <<proxy_session, bridge>>
          /\ call = IdleCall /\ call' = [pc |-> "close", ch |-> c]
          /\ frontend' = [frontend EXCEPT ![c] = "gone"]
          /\ channel_state' = [d \in Channels |->
                IF d = c /\ ~channel_state[d].menu_active THEN Gone ELSE channel_state[d]]
      BY <1>3 DEF ChannelClose, Takes, Go
    <2>2. call'.pc = "close" /\ call.pc = "idle" /\ Gone.menu_active = FALSE /\ Gone.request = "gone"
      BY <1>0, <2>1 DEF Gone
    <2>3. \A d \in Channels :
             \/ channel_state'[d] = channel_state[d]
             \/ d = c /\ ~channel_state[d].menu_active /\ channel_state'[d] = Gone
      BY <2>1
    <2>4. \A d \in Channels : channel_state'[d].menu_active = channel_state[d].menu_active
      <3>1. ASSUME NEW d \in Channels
            PROVE  channel_state[d].menu_active \in BOOLEAN
        BY <1>0, StateShape
      <3>. QED  BY <2>2, <2>3, <3>1
    <2>5. \A d \in Channels : frontend'[d] \in {"open", "closed"} => frontend[d] \in {"open", "closed"}
      BY <1>0, <2>1
    <2>6. Shown'
      BY <2>1, <2>2, <2>4, <2>5, ShownSame
    <2>7. \A d \in Channels : InMenu(d)' = InMenu(d)
      BY <2>2, <2>4 DEF InMenu, Waits
    <2>8. \A d \in Channels : UNCHANGED <<Writer(d), ServedBy(d)>>
      BY <2>1, <2>7, SameBridges
    <2>9. CASE \A d \in Channels : channel_state'[d] = channel_state[d]
      BY <2>6, <2>8, <2>9, ScreenStays DEF SameScreen, Asked
    <2>10. CASE c \in Channels /\ ~channel_state[c].menu_active /\ channel_state'[c] = Gone
      <3>1. Asked(c)' = "gone" /\ ~InMenu(c)
        BY <2>2, <2>10 DEF InMenu, Waits, Asked
      <3>2. Writer(c) # "menu"
        BY <3>1 DEF Writer
      <3>3. \A d \in Channels \ {c} : SameScreen(d)
        BY <2>3, <2>8 DEF SameScreen, Asked
      <3>. QED  BY <2>6, <2>8, <2>10, <3>1, <3>2, <3>3, ScreenAsks
    <2>. QED  BY <2>3, <2>9, <2>10
  <1>. QED  BY <1>1, <1>2, <1>3

LEMMA MenuAbandoned ==
    ASSUME ProxyInv, Shown, NEW c \in Channels,
           call.pc \in {"connect", "reopen"}, call.ch = c, call' = IdleCall,
           UNCHANGED <<channel_state, proxy_session, frontend, bridge>>
    PROVE  Shown' /\ ScreenStep
  <1>1. call'.pc = "idle"
    BY IdlePC
  <1>2. Shown'
    BY <1>1, ShownSame
  <1>3. \A d \in Channels \ {c} : SameScreen(d)
    <2>1. \A d \in Channels \ {c} : InMenu(d)' = InMenu(d)
      BY <1>1 DEF InMenu, Waits
    <2>. QED  BY <2>1, SameBridges DEF SameScreen, Asked
  <1>4. Writer(c) = "menu" /\ ~Serves(c)
    BY WriterIs DEF InMenu, Waits
  <1>5. Writer(c)' = "nobody"
    <2>1. ~channel_state[c].menu_active
      BY DEF ProxyInv, CallbackInv
    <2>2. ~InMenu(c)' /\ ~Serves(c)'
      BY <1>1, <1>4, <2>1 DEF InMenu, Waits, Serves, Running
    <2>. QED  BY <2>2 DEF Writer
  <1>6. UNCHANGED <<Asked(c), ServedBy(c)>>
    BY ServedSame DEF Asked
  <1>. QED  BY <1>2, <1>3, <1>4, <1>5, <1>6, ScreenLeaves

(* The menu: choosing a target leaves the channel in the menu until a      *)
(* target has it; an end of the connection then leaves it to nobody.       *)
LEMMA MenuSteps ==
    ASSUME ProxyInv, Shown, MenuSelect \/ ConnectSelectedTarget
    PROVE  Shown' /\ ScreenStep
  <1>0. /\ call \in Calls /\ proxy_session \in Sessions /\ Sessions \subseteq Nat
        /\ channel_state \in [Channels -> SessionChannelState] /\ IdleCall.pc = "idle"
    BY Disjoint, IdlePC DEF ProxyInv, TypeOK
  <1>1. CASE MenuSelect
    <2>1. PICK c \in Channels : c = call.ch
      BY <1>0, <1>1, CallShape DEF MenuSelect
    <2>2. call.pc = "menu" /\ UNCHANGED <<proxy_session, frontend, bridge>>
      BY <1>1 DEF MenuSelect
    <2>3. CASE call' = IdleCall /\ UNCHANGED channel_state
      BY <1>0, <2>2, <2>3, Unseen
    <2>4. CASE /\ channel_state' = [channel_state EXCEPT ![c] = [@ EXCEPT !.menu_active = FALSE]]
               /\ call' = [pc |-> "connect", ch |-> c]
      <3>1. channel_state[c].menu_active
        BY <2>1, <2>2 DEF ProxyInv, CallbackInv
      <3>2. /\ channel_state'[c].menu_active = FALSE
            /\ channel_state'[c].request = channel_state[c].request
            /\ \A d \in Channels \ {c} : channel_state'[d] = channel_state[d]
        BY <1>0, <2>4, StateShape
      <3>3. call'.pc = "connect" /\ call'.ch = c
        BY <2>4
      <3>4. Shown'
        BY <2>2, <3>2, <3>3, ShownSame
      <3>5. InMenu(c)' = InMenu(c)
        BY <3>1, <3>3 DEF InMenu, Waits
      <3>6. \A d \in Channels \ {c} : InMenu(d)' = InMenu(d)
        BY <2>2, <3>2, <3>3 DEF InMenu, Waits
      <3>7. \A d \in Channels : SameScreen(d)
        BY <2>2, <3>2, <3>5, <3>6, SameBridges DEF SameScreen, Asked
      <3>. QED  BY <3>4, <3>7, ScreenStays
    <2>. QED  BY <1>1, <2>1, <2>3, <2>4 DEF MenuSelect, Return, Go, End
  <1>2. CASE ConnectSelectedTarget
    <2>1. PICK c \in Channels : c = call.ch
      BY <1>0, <1>2, CallShape DEF ConnectSelectedTarget
    <2>2. call.pc = "connect" /\ UNCHANGED <<channel_state, frontend, bridge>>
      BY <1>2 DEF ConnectSelectedTarget
    <2>3. CASE call' = IdleCall /\ UNCHANGED proxy_session
      BY <1>0, <2>1, <2>2, <2>3, MenuAbandoned
    <2>4. CASE /\ call' = [pc |-> "reopen", ch |-> c]
               /\ proxy_session' \in {proxy_session, proxy_session + 1}
      <3>1. call'.pc = "reopen" /\ call'.ch = c
        BY <2>4
      <3>2. \A n \in Sessions : n > proxy_session' => n > proxy_session
        BY <1>0, <2>4
      <3>3. Shown'
        BY <2>2, <3>1, <3>2, ShownSame
      <3>4. \A d \in Channels : InMenu(d)' = InMenu(d)
        BY <2>1, <2>2, <3>1 DEF InMenu, Waits
      <3>5. \A d \in Channels : SameScreen(d)
        BY <2>2, <3>4, SameBridges DEF SameScreen, Asked
      <3>. QED  BY <3>3, <3>5, ScreenStays
    <2>. QED  BY <1>2, <2>1, <2>3, <2>4 DEF ConnectSelectedTarget, End, Go
  <1>. QED  BY <1>1, <1>2

(* A channel gets a target: its first, or one as late as any before it.    *)
LEMMA TargetAttached ==
    ASSUME ProxyInv, Shown, NEW c \in Channels, OpensSessionChannel(c),
           UNCHANGED <<channel_state, proxy_session>>,
           \A d \in Channels \ {c} : frontend'[d] = frontend[d],
           call.pc \in {"open", "reopen"}, call.ch = c, call'.pc \in {"idle", "replay"}
    PROVE  Shown' /\ ScreenStep
  <1>. DEFINE n == proxy_session
              k == IF bridge[n][c] = "none" THEN n ELSE Again
  <1>0. /\ n \in Sessions /\ Sessions \subseteq Nat /\ Sessions \subseteq Bridges
        /\ Again \in Bridges /\ Channels \subseteq AllChannels /\ Again \notin Sessions
        /\ k \in Bridges /\ k \in {n, Again} /\ (k = Again => bridge[n][c] # "none")
    BY Disjoint DEF ProxyInv, TypeOK, Sessions, Again
  <1>1. bridge' = [bridge EXCEPT ![k][c] = "relay"]
    BY DEF OpensSessionChannel, SetBridge
  <1>. HIDE DEF k
  <1>2. /\ bridge'[k][c] = "relay"
        /\ \A m \in Bridges, d \in Channels : m # k \/ d # c => bridge'[m][d] = bridge[m][d]
    BY <1>0, <1>1 DEF ProxyInv, TypeOK
  <1>3. ServedBy(c)' = ServedBy(c) \cup {n}
    <2>1. bridge'[n][c] # "none"
      BY <1>0, <1>2
    <2>2. \A m \in Sessions \ {n} : bridge'[m][c] = bridge[m][c]
      BY <1>0, <1>2
    <2>. QED  BY <1>0, <2>1, <2>2 DEF ServedBy
  <1>4. Writer(c)' = "target"
    BY <1>0, <1>2 DEF Writer, Serves, Running
  <1>5. \A d \in Channels \ {c} : SameScreen(d)
    <2>1. \A d \in Channels \ {c} : InMenu(d)' = InMenu(d)
      BY DEF InMenu, Waits
    <2>. QED  BY <1>2, <2>1, SameBridges DEF SameScreen, Asked
  <1>6. \A m \in ServedBy(c) : m <= n
    BY <1>0 DEF ServedBy, Shown
  <1>7. \/ Writer(c) = "nobody" /\ ServedBy(c) = {} /\ Asked(c) = "none"
        \/ Writer(c) = "menu"
    <2>1. CASE call.pc = "open"
      <3>1. frontend[c] = "unused" /\ ~InMenu(c) /\ Asked(c) = "none"
        BY <2>1 DEF ProxyInv, CallbackInv, InMenu, Waits, Shown, Asked
      <3>2. \A m \in Bridges : bridge[m][c] = "none"
        BY <3>1 DEF ProxyInv, Channel
      <3>. QED  BY <1>0, <3>1, <3>2 DEF Writer, Serves, Running, ServedBy
    <2>2. CASE call.pc = "reopen"
      BY <2>2, WriterIs DEF InMenu, Waits
    <2>. QED  BY <2>1, <2>2
  <1>8. Shown'
    <2>. SUFFICES ASSUME NEW d \in Channels
                  PROVE  (/\ \A m \in Sessions : m > proxy_session => bridge[m][d] = "none"
                          /\ Begun(d) => ServedBy(d) # {}
                          /\ call.pc = "open" /\ call.ch = d => channel_state[d].request = "none")'
      BY DEF Shown
    <2>1. (\A m \in Sessions : m > proxy_session => bridge[m][d] = "none")'
      BY <1>0, <1>2 DEF Shown
    <2>2. (Begun(d) => ServedBy(d) # {})'
      <3>1. CASE d = c
        BY <1>3, <3>1
      <3>2. CASE d # c
        BY <1>0, <1>2, <1>5, <3>2 DEF SameScreen, Shown, Begun
      <3>. QED  BY <3>1, <3>2
    <2>. QED  BY <2>1, <2>2
  <1>9. Asked(c)' = Asked(c)
    BY DEF Asked
  <1>. QED  BY <1>0, <1>3, <1>4, <1>5, <1>6, <1>7, <1>8, <1>9, ScreenAttaches

LEMMA OpenSteps ==
    ASSUME ProxyInv, Shown, FinishOpen \/ Reopen
    PROVE  Shown' /\ ScreenStep
  <1>0. /\ call \in Calls /\ Channels \subseteq AllChannels /\ proxy_session \in Sessions
        /\ Sessions \subseteq Nat /\ IdleCall.pc = "idle"
        /\ frontend \in [AllChannels -> {"unused", "open", "closed", "gone"}]
    BY Disjoint, IdlePC DEF ProxyInv, TypeOK, AllChannels
  <1>1. PICK c \in Channels : c = call.ch
    BY <1>0, CallShape DEF FinishOpen, Reopen
  <1>2. UNCHANGED <<channel_state, proxy_session>>
    BY DEF FinishOpen, Reopen
  <1>3. CASE FinishOpen
    <2>1. call.pc = "open" /\ call' = IdleCall
      BY <1>3 DEF FinishOpen, Return
    <2>2. CASE OpensSessionChannel(c) /\ frontend' = [frontend EXCEPT ![c] = "open"]
      BY <1>0, <1>1, <1>2, <2>1, <2>2, TargetAttached
    <2>3. CASE UNCHANGED bridge /\ frontend' = [frontend EXCEPT ![c] = "gone"]
      <3>1. \A d \in Channels :
               frontend'[d] \in {"open", "closed"} => frontend[d] \in {"open", "closed"}
        BY <1>0, <2>3
      <3>. QED  BY <1>0, <1>2, <2>1, <2>3, <3>1, Unseen
    <2>. QED  BY <1>1, <1>3, <2>2, <2>3 DEF FinishOpen, DoesNotOpen
  <1>4. CASE Reopen
    <2>1. call.pc = "reopen" /\ UNCHANGED frontend
      BY <1>4 DEF Reopen
    <2>2. CASE OpensSessionChannel(c) /\ call' = [pc |-> "replay", ch |-> c]
      BY <1>1, <1>2, <2>1, <2>2, TargetAttached
    <2>3. CASE UNCHANGED bridge /\ call' = IdleCall
      BY <1>1, <1>2, <2>1, <2>3, MenuAbandoned
    <2>. QED  BY <1>1, <1>4, <2>2, <2>3 DEF Reopen, DoesNotOpen, End, Go
  <1>. QED  BY <1>3, <1>4

(* A bridge: when it is through its channel is nobody's, and when it       *)
(* starts the menu it is the menu's.                                       *)
LEMMA BridgeSteps ==
    ASSUME ProxyInv, Shown, NEW n \in Bridges, NEW c \in Channels,
           RelayExit(n, c) \/ RelayFails(n, c) \/ RelayClose(n, c) \/ BridgeTask(n, c)
    PROVE  Shown' /\ ScreenStep
  <1>0. /\ channel_state \in [Channels -> SessionChannelState] /\ c \in AllChannels
        /\ Channel(c) /\ proxy_session \in Sessions
    BY Disjoint DEF ProxyInv, TypeOK
  <1>1. \A p \in Phases : SetBridge(n, c, p) => bridge'[n][c] = p
    BY <1>0, BridgeShape DEF SetBridge, ProxyInv, TypeOK, Phases
  <1>2. /\ bridge[n][c] # "none"
        /\ \A m \in Bridges, d \in Channels : m # n \/ d # c => bridge'[m][d] = bridge[m][d]
        /\ UNCHANGED <<proxy_session, call>>
        /\ \A d \in Channels \ {c} : channel_state'[d] = channel_state[d]
        /\ channel_state'[c].request = channel_state[c].request
        /\ channel_state'[c].menu_active => channel_state[c].menu_active \/ Live(n, c)
    BY BridgeMoves
  <1>3. bridge'[n][c] \in {"exited", "removed", "menu", "close", "done"}
    BY <1>1 DEF RelayExit, RelayFails, RelayClose, BridgeTask, RelayEnd,
           ActivateMenuAfterDisconnect, ShowMenu, BridgeCloses, Phases
  <1>4. \A d \in Channels, m \in Bridges : bridge'[m][d] = "none" <=> bridge[m][d] = "none"
    BY <1>2, <1>3
  <1>5. ServedBy(c) # {}
    <2>1. CASE n \in Sessions
      BY <1>2, <2>1 DEF ServedBy
    <2>2. CASE n = Again
      BY <1>2, <2>2 DEF Shown, Begun
    <2>. QED  BY <2>1, <2>2 DEF Bridges
  <1>6. Shown'
    <2>1. \A d \in Channels :
             frontend'[d] \in {"open", "closed"} => frontend[d] \in {"open", "closed"}
      <3>1. UNCHANGED frontend \/ CloseFrontend(c)
        BY DEF RelayExit, RelayFails, RelayClose, BridgeTask, RelayEnd,
               ActivateMenuAfterDisconnect, ShowMenu, BridgeCloses
      <3>. QED  BY <1>0, <3>1, ClosesOnly, Disjoint DEF ProxyInv
    <2>2. \A d \in Channels :
             channel_state'[d].menu_active => channel_state[d].menu_active \/ ServedBy(d) # {}
      BY <1>2, <1>5
    <2>3. \A d \in Channels : channel_state'[d].request = channel_state[d].request
      BY <1>2
    <2>. QED  BY <1>2, <1>4, <2>1, <2>2, <2>3, ShownSame
  <1>7. \A d \in Channels \ {c} : SameScreen(d)
    <2>1. \A d \in Channels \ {c} : InMenu(d)' = InMenu(d)
      BY <1>2 DEF InMenu, Waits
    <2>. QED  BY <1>2, <2>1, SameBridges DEF SameScreen, Asked
  <1>8. UNCHANGED <<Asked(c), ServedBy(c)>>
    BY <1>2, <1>4, ServedSame DEF Asked
  <1>9. \A m \in Bridges : m # n => Running(m, c)' = Running(m, c) /\ (Live(n, c) => ~Live(m, c))
    BY <1>0, <1>2 DEF Running, Channel
  <1>10. CASE Running(n, c)' = Running(n, c) /\ UNCHANGED channel_state
    <2>1. InMenu(c)' = InMenu(c)
      BY <1>2, <1>10 DEF InMenu, Waits
    <2>2. Writer(c)' = Writer(c)
      BY <1>9, <1>10, <2>1, WriterSame
    <2>3. \A d \in Channels : SameScreen(d)
      BY <1>7, <1>8, <2>2 DEF SameScreen
    <2>. QED  BY <1>6, <2>3, ScreenStays
  <1>11. CASE /\ Running(n, c) /\ bridge'[n][c] \in {"removed", "close"}
              /\ UNCHANGED channel_state
    <2>1. Live(n, c) /\ ~Running(n, c)'
      BY <1>11 DEF Live, Running
    <2>2. Writer(c) = "target" /\ ~InMenu(c)
      BY <1>11, <2>1, WriterIs DEF Serves, Quiet
    <2>3. \A m \in Bridges : ~Running(m, c)'
      BY <1>9, <2>1 DEF Live, Running
    <2>4. ~InMenu(c)'
      BY <1>2, <1>11, <2>2 DEF InMenu, Waits
    <2>5. Writer(c)' = "nobody"
      BY <2>3, <2>4 DEF Writer, Serves
    <2>. QED  BY <1>6, <1>7, <1>8, <2>2, <2>5, ScreenLeaves
  <1>12. CASE /\ bridge[n][c] = "removed" /\ bridge'[n][c] = "menu" /\ ShouldReuseMenu(c)
              /\ channel_state' = [channel_state EXCEPT ![c] = [@ EXCEPT !.menu_active = TRUE]]
    <2>1. Live(n, c) /\ ~Running(n, c) /\ ~Running(n, c)'
      BY <1>12 DEF Live, Running
    <2>2. ~Serves(c) /\ ~Serves(c)'
      BY <1>9, <2>1 DEF Serves, Live, Running
    <2>3. Writer(c) = "nobody"
      BY <2>1, <2>2, WriterIs DEF Quiet
    <2>4. channel_state'[c].menu_active
      <3>1. channel_state[c] \in [request : {"none", "shell", "exec"}, menu_active : BOOLEAN]
        BY <1>0, <1>12 DEF ShouldReuseMenu, SessionChannelState, Gone
      <3>. QED  BY <1>0, <1>12, <3>1
    <2>5. Writer(c)' = "menu"
      BY <2>2, <2>4 DEF Writer, InMenu, Waits
    <2>. QED  BY <1>5, <1>6, <1>7, <1>8, <1>12, <2>3, <2>5, ScreenEntersMenu
  <1>13. CASE RelayExit(n, c)
    <2>1. bridge[n][c] = "relay" /\ bridge'[n][c] = "exited" /\ UNCHANGED channel_state
      BY <1>1, <1>13 DEF RelayExit, Phases, handler
    <2>. QED  BY <1>10, <2>1 DEF Running
  <1>14. CASE RelayFails(n, c) \/ RelayClose(n, c) \/ RelayEnd(n, c)
    <2>1. Running(n, c) /\ bridge'[n][c] \in {"removed", "close"} /\ UNCHANGED channel_state
      BY <1>1, <1>14 DEF RelayFails, RelayClose, RelayEnd, Phases, handler
    <2>. QED  BY <1>11, <2>1
  <1>15. CASE ShowMenu(n, c) \/ BridgeCloses(n, c)
    <2>1. /\ bridge[n][c] \in {"menu", "close"} /\ bridge'[n][c] \in {"close", "done"}
          /\ UNCHANGED channel_state
      BY <1>1, <1>15 DEF ShowMenu, BridgeCloses, Phases, handler
    <2>. QED  BY <1>10, <2>1 DEF Running
  <1>16. CASE ActivateMenuAfterDisconnect(n, c)
    <2>1. \/ /\ bridge[n][c] = "removed" /\ bridge'[n][c] = "close"
             /\ UNCHANGED channel_state
          \/ /\ bridge[n][c] = "removed" /\ bridge'[n][c] = "menu" /\ ShouldReuseMenu(c)
             /\ channel_state' = [channel_state EXCEPT ![c] = [@ EXCEPT !.menu_active = TRUE]]
      BY <1>1, <1>16 DEF ActivateMenuAfterDisconnect, Phases
    <2>. QED  BY <1>10, <1>12, <2>1 DEF Running
  <1>. QED  BY <1>13, <1>14, <1>15, <1>16 DEF BridgeTask

(***************************************************************************)
(* ImplementsTerminal: for the client every session channel is a terminal  *)
(* that has one writer at a time: its first target, the menu once that is  *)
(* through and if it was a shell, then a target as late as any before it,  *)
(* for any channels, targets, failures and reloads.                        *)
(***************************************************************************)
THEOREM ChannelIsTerminal == Spec => ImplementsTerminal
  <1>1. Init => Screen!Init
    <2>. SUFFICES ASSUME Init PROVE Screen!Init
      OBVIOUS
    <2>1. /\ call.pc = "idle" /\ Gone.menu_active = FALSE /\ Gone.request = "gone"
          /\ channel_state = [c \in Channels |-> Gone]
          /\ \A n \in Bridges, c \in Channels : bridge[n][c] = "none"
      BY Disjoint, IdlePC DEF Init, Gone
    <2>2. ASSUME NEW c \in Channels
          PROVE  Writer(c) = "nobody" /\ ServedBy(c) = {}
      BY <2>1, Disjoint DEF Writer, Serves, Running, InMenu, Waits, ServedBy
    <2>. QED  BY <2>1, <2>2 DEF Screen!Init
  <1>2. Init => Shown
    <2>. SUFFICES ASSUME Init PROVE Shown
      OBVIOUS
    <2>1. /\ call.pc = "idle" /\ Gone.menu_active = FALSE
          /\ channel_state = [c \in Channels |-> Gone]
          /\ \A n \in Bridges, c \in Channels : bridge[n][c] = "none"
          /\ \A c \in Channels : frontend[c] = "unused"
      BY Disjoint, IdlePC DEF Init, Gone
    <2>. QED  BY <2>1, Disjoint DEF Shown, Begun
  <1>3. ProxyInv /\ ReplayInv /\ Shown /\ [Next]_vars => Shown' /\ [Screen!Next]_ScreenVars
    <2>. SUFFICES ASSUME ProxyInv, ReplayInv, Shown, [Next]_vars PROVE Shown' /\ ScreenStep
      BY DEF ScreenStep
    <2>1. CASE UNCHANGED vars
      BY <2>1, Unseen DEF vars, handler
    <2>. QED
      BY <2>1, UnseenSteps, UnseenRaw, AskedSteps, MenuSteps, OpenSteps, BridgeSteps
         DEF Next, Callback
  <1>. QED  BY <1>1, <1>2, <1>3, ProxyInvariant, ReplayInvariant, PTL
            DEF Spec, ImplementsTerminal, Screen!Spec, ScreenVars

=============================================================================
