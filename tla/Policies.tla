------------------------------ MODULE Policies ------------------------------
(***************************************************************************)
(* The policy part of a configuration and what becomes of it: the key      *)
(* exchanges the gateway offers to clients and to targets                  *)
(* (src/crypto_policy.rs) and the allow_* fields of users and of           *)
(* [server.user] tables (src/config/mod.rs), from their validation to the  *)
(* answer a request of a session gets (src/ssh/mod.rs).                    *)
(*                                                                         *)
(* A reload is one step here; how it races with others is in ConfigStore.  *)
(***************************************************************************)
EXTENDS Naturals, Sequences, SequencesExt

CONSTANTS
    Users, Servers,
    KexNames,           \* what a document may list as key exchanges
    Supported,          \* CONFIGURABLE_FRONTEND_KEX
    PostQuantum,        \* is_post_quantum_kex_name
    Commands,           \* of exec requests
    Unreadable,         \* a command that is no UTF-8, empty or badly quoted
    Documents,          \* what a start may find
    Replacements        \* what a reload may find

Fields == {"local", "remote", "sftp", "scp"}

(* An AuthorizationPolicyConfig gives some fields a value.                 *)
Entries == UNION {[given -> BOOLEAN] : given \in SUBSET Fields}

KexPolicyConfig ==
    [frontend_preferred : Seq(KexNames), frontend_require_post_quantum : BOOLEAN,
     backend_preferred : Seq(KexNames), backend_require_post_quantum : BOOLEAN]

UserRecords == [allowed_servers : SUBSET Servers, authorization : Entries]

(* users and server_user_policies are partial functions, of user names and *)
(* of pairs of a server and a user.                                        *)
IsDocument(document) ==
    /\ DOMAIN document = {"kex_policy", "per_user_per_server", "users", "server_user_policies"}
    /\ document.kex_policy \in KexPolicyConfig
    /\ document.per_user_per_server \in BOOLEAN
    /\ DOMAIN document.users \subseteq Users
    /\ \A u \in DOMAIN document.users : document.users[u] \in UserRecords
    /\ DOMAIN document.server_user_policies \subseteq Servers \X Users
    /\ \A p \in DOMAIN document.server_user_policies :
          document.server_user_policies[p] \in Entries

(* A command is its executable and its arguments; an argument is the set   *)
(* of its letters if it is an option, and {} if it is not.                 *)
DoubleDash == {"--"}
Letters == {"--", "t", "f", "other"}
Command == [executable : {"scp", "other"}, arguments : Seq(SUBSET Letters)]

ASSUME PoliciesAssumption ==
    /\ \A d \in Documents \cup Replacements : IsDocument(d)
    /\ Supported \subseteq KexNames
    /\ Commands \subseteq Command \cup {Unreadable}
    /\ Unreadable \notin Command

Shell == [kind |-> "shell"]

Forwardings == [kind : {"direct-tcpip", "tcpip-forward", "cancel-tcpip-forward"}]

ChannelRequests ==
    [kind : {"exec"}, command : Commands]
    \cup [kind : {"subsystem"}, name : {"sftp", "other"}]

Requests == {Shell} \cup Forwardings \cup ChannelRequests

-----------------------------------------------------------------------------
(* crypto_policy.rs.  An empty sequence is an error.                       *)

Refused == <<>>

(* Fault: a key exchange that is listed twice is offered twice.            *)
ResolveWithRepeats(preferred, require_post_quantum) ==
    IF preferred = <<>> \/ \E i \in DOMAIN preferred : preferred[i] \notin Supported
    THEN Refused
    ELSE SelectSeq(preferred, LAMBDA name : require_post_quantum => name \in PostQuantum)

(* The loop over the listed names.  An element is what has been resolved   *)
(* when so many names have been looked at.                                 *)
ResolveNext(resolved, name, require_post_quantum) ==
    IF (require_post_quantum => name \in PostQuantum) /\ ~Contains(resolved, name)
    THEN Append(resolved, name)
    ELSE resolved

Resolving(preferred, require_post_quantum) ==
    LET resolved[n \in 0 .. Len(preferred)] ==
            IF n = 0
            THEN <<>>
            ELSE ResolveNext(resolved[n - 1], preferred[n], require_post_quantum)
    IN  resolved

ResolvePreferredKex(preferred, require_post_quantum) ==
    IF preferred = <<>> \/ \E i \in DOMAIN preferred : preferred[i] \notin Supported
    THEN Refused
    ELSE Resolving(preferred, require_post_quantum)[Len(preferred)]

PolicySummary(preferred, require_post_quantum) ==
    LET offered == ResolvePreferredKex(preferred, require_post_quantum)
    IN  [offered |-> offered,
         classical_fallback |-> \E i \in DOMAIN offered : offered[i] \notin PostQuantum]

FrontendSummary(kex) ==
    PolicySummary(kex.frontend_preferred, kex.frontend_require_post_quantum)

BackendSummary(kex) ==
    PolicySummary(kex.backend_preferred, kex.backend_require_post_quantum)

(* Fault: only the frontend is validated.                                  *)
ValidFrontend(kex) == FrontendSummary(kex).offered # Refused

ValidKexPolicy(kex) ==
    /\ FrontendSummary(kex).offered # Refused
    /\ BackendSummary(kex).offered # Refused

-----------------------------------------------------------------------------
(* The authorization policy of config/mod.rs.                              *)

(* Fault: a field that was added later is forgotten.                       *)
HasEntriesButScp(entry) == {"local", "remote", "sftp"} \cap DOMAIN entry # {}

HasExplicitEntries(entry) == DOMAIN entry # {}

Default == [f \in Fields |-> f \in {"sftp", "scp"}]

Resolve(entry) == [f \in Fields |-> IF f \in DOMAIN entry THEN entry[f] ELSE Default[f]]

ValidAuthorizationPolicy(document, mode) ==
    IF mode
    THEN /\ \A u \in DOMAIN document.users :
                ~HasExplicitEntries(document.users[u].authorization)
         /\ \A p \in DOMAIN document.server_user_policies :
                /\ p[2] \in DOMAIN document.users
                /\ p[1] \in document.users[p[2]].allowed_servers
    ELSE DOMAIN document.server_user_policies = {}

(* validate_semantics of a document whose mode apply_runtime_overrides has *)
(* overwritten.                                                            *)
ValidSemantics(document, mode) ==
    /\ ValidKexPolicy(document.kex_policy)
    /\ DOMAIN document.users # {}
    /\ \A u \in DOMAIN document.users : document.users[u].allowed_servers # {}
    /\ ValidAuthorizationPolicy(document, mode)

(* resolve_effective_authorization_policy for a user who is there.         *)
EffectivePolicy(document, user, server, mode) ==
    Resolve(IF mode
            THEN IF <<server, user>> \in DOMAIN document.server_user_policies
                 THEN document.server_user_policies[<<server, user>>]
                 ELSE <<>>
            ELSE document.users[user].authorization)

-----------------------------------------------------------------------------
(* The requests of ssh/mod.rs.                                             *)

(* classify_scp_exec_request: whether some option before a "--" has a t or *)
(* an f.                                                                   *)
IsScp(command) ==
    /\ command # Unreadable
    /\ command.executable = "scp"
    /\ \E i \in DOMAIN command.arguments :
          /\ {"t", "f"} \cap command.arguments[i] # {}
          /\ \A j \in 1 .. i : command.arguments[j] # DoubleDash

Permitted(policy, request) ==
    CASE request.kind = "direct-tcpip" -> policy["local"]
      [] request.kind \in {"tcpip-forward", "cancel-tcpip-forward"} -> policy["remote"]
      [] request.kind = "exec" -> policy["scp"] \/ ~IsScp(request.command)
      [] request.kind = "subsystem" -> policy["sftp"] \/ request.name # "sftp"
      [] request.kind = "shell" -> TRUE

-----------------------------------------------------------------------------
VARIABLES
    per_user_per_server,    \* of the paths, fixed when the process starts
    active,                 \* the configuration in force
    frontend,               \* what the server offers, and history: from which policy
    connection              \* one client, from the menu to the end

vars == <<per_user_per_server, active, frontend, connection>>

Effective == [Fields -> BOOLEAN]

NotServing == [pc |-> "starting"]
AtMenu == [pc |-> "menu"]

TypeOK ==
    /\ per_user_per_server \in BOOLEAN
    /\ IsDocument(active)
    /\ frontend.pc \in {"starting", "failed", "serving"}
    /\ frontend.pc = "serving" => frontend.offer.kex_policy \in KexPolicyConfig
    /\ connection.pc \in {"menu", "selected", "unresolved", "resolved", "refused", "open", "over"}
    /\ connection.pc # "menu" => connection.user \in Users /\ connection.server \in Servers
    /\ connection.pc \notin {"menu", "selected"} => IsDocument(connection.source)
    /\ connection.pc \in {"resolved", "refused", "open", "over"} =>
          connection.policy \in Effective
    /\ connection.pc \in {"open", "over"} =>
          /\ DOMAIN connection = {"pc", "user", "server", "policy", "source", "offer", "request",
                                  "permitted"}
          /\ connection.offer.kex_policy \in KexPolicyConfig
          /\ connection.request \in Requests
          /\ connection.permitted \in BOOLEAN

Init ==
    /\ active \in {d \in Documents : ValidSemantics(d, d.per_user_per_server)}
    /\ per_user_per_server = active.per_user_per_server
    /\ frontend = NotServing
    /\ connection = AtMenu

(* run_gateway_server: apply_server_transport_config, once and for all.    *)
Serve ==
    /\ frontend = NotServing
    /\ LET summary == FrontendSummary(active.kex_policy)
       IN  frontend' = IF summary.offered = Refused
                       THEN [pc |-> "failed"]
                       ELSE [pc |-> "serving",
                             offer |-> [summary |-> summary, kex_policy |-> active.kex_policy]]
    /\ UNCHANGED <<per_user_per_server, active, connection>>

(* ConfigStore::reload; what is not valid changes nothing.                 *)
Reload ==
    /\ \E document \in Replacements :
          /\ ValidSemantics(document, per_user_per_server)
          /\ active' = [document EXCEPT !.per_user_per_server = per_user_per_server]
    /\ UNCHANGED <<per_user_per_server, frontend, connection>>

(* A target is selected, first or again.                                   *)
SelectTarget ==
    /\ frontend.pc = "serving"
    /\ connection.pc \in {"menu", "open"}
    /\ \E user \in DOMAIN active.users :
          /\ connection.pc = "open" => user = connection.user
          /\ \E server \in active.users[user].allowed_servers :
                connection' = [pc |-> "selected", user |-> user, server |-> server]
    /\ UNCHANGED <<per_user_per_server, active, frontend>>

(* resolve_target_policy looks at a snapshot of its own.                   *)
ResolveTargetPolicy ==
    /\ connection.pc = "selected"
    /\ connection' =
          IF connection.user \in DOMAIN active.users
          THEN [pc |-> "resolved", user |-> connection.user, server |-> connection.server,
                policy |-> EffectivePolicy(active, connection.user, connection.server,
                                           per_user_per_server),
                source |-> active]
          ELSE [pc |-> "unresolved", user |-> connection.user, server |-> connection.server,
                source |-> active]
    /\ UNCHANGED <<per_user_per_server, active, frontend>>

(* ProxySession::connect: apply_client_transport_config, of another one.   *)
ConnectTarget ==
    /\ connection.pc = "resolved"
    /\ LET summary == BackendSummary(active.kex_policy)
       IN  connection' =
              IF summary.offered = Refused
              THEN [connection EXCEPT !.pc = "refused"]
              ELSE [pc |-> "open", user |-> connection.user, server |-> connection.server,
                    policy |-> connection.policy, source |-> connection.source,
                    offer |-> [summary |-> summary, kex_policy |-> active.kex_policy],
                    request |-> Shell, permitted |-> TRUE]
    /\ UNCHANGED <<per_user_per_server, active, frontend>>

Answer(request, pc) ==
    connection' = [connection EXCEPT !.pc = pc,
                                     !.request = request,
                                     !.permitted = Permitted(connection.policy, request)]

(* channel_open_direct_tcpip, tcpip_forward and cancel_tcpip_forward: a    *)
(* denial ends nothing.                                                    *)
RequestForwarding ==
    /\ connection.pc = "open"
    /\ \E request \in Forwardings : Answer(request, "open")
    /\ UNCHANGED <<per_user_per_server, active, frontend>>

(* exec_request and subsystem_request; deny_protocol_and_disconnect.       *)
RequestOnChannel ==
    /\ connection.pc = "open"
    /\ \E request \in ChannelRequests :
          Answer(request, IF Permitted(connection.policy, request) THEN "open" ELSE "over")
    /\ UNCHANGED <<per_user_per_server, active, frontend>>

Next ==
    \/ Serve
    \/ Reload
    \/ SelectTarget
    \/ ResolveTargetPolicy
    \/ ConnectTarget
    \/ RequestForwarding
    \/ RequestOnChannel

Spec == Init /\ [][Next]_vars

-----------------------------------------------------------------------------
(* Properties.                                                             *)

(* What the validation of a configuration accepts does not fail when it is *)
(* used, at the start, after a reload or in the middle of a selection; but *)
(* for a user who is gone since the target was selected.                   *)
AcceptedResolves ==
    /\ frontend.pc # "failed"
    /\ connection.pc # "refused"
    /\ connection.pc = "unresolved" => connection.user \notin DOMAIN connection.source.users

FirstIndex(preferred, name) ==
    CHOOSE i \in DOMAIN preferred :
        preferred[i] = name /\ \A j \in 1 .. i - 1 : preferred[j] # name

(* What is to be offered: the listed key exchanges, without the classical  *)
(* ones if post-quantum ones are required, each once, in the order they    *)
(* are listed; a classical fallback is told if and only if there is one.   *)
OffersListed(summary, preferred, require_post_quantum) ==
    /\ \A name \in KexNames :
          Contains(summary.offered, name)
          <=> Contains(preferred, name) /\ (require_post_quantum => name \in PostQuantum)
    /\ \A i, j \in DOMAIN summary.offered :
          i < j => FirstIndex(preferred, summary.offered[i])
                   < FirstIndex(preferred, summary.offered[j])
    /\ summary.classical_fallback
       <=> \E name \in KexNames \ PostQuantum : Contains(preferred, name) /\ ~require_post_quantum

(* The server offers its clients what the configuration of its start lists *)
(* for the frontend; a connection to a target offers what the one in force *)
(* by then lists for the backend.                                          *)
OfferAsPreferred ==
    /\ frontend.pc = "serving" =>
          LET kex == frontend.offer.kex_policy
          IN  OffersListed(frontend.offer.summary, kex.frontend_preferred,
                           kex.frontend_require_post_quantum)
    /\ connection.pc \in {"open", "over"} =>
          LET kex == connection.offer.kex_policy
          IN  OffersListed(connection.offer.summary, kex.backend_preferred,
                           kex.backend_require_post_quantum)

(* What a document says of a field for a user at a server, in either place *)
(* and whatever the mode of the process.                                   *)
Written(document, user, server, f) ==
    {document.users[user].authorization[g] :
        g \in {f} \cap DOMAIN document.users[user].authorization}
    \cup UNION {{document.server_user_policies[p][g] :
                    g \in {f} \cap DOMAIN document.server_user_policies[p]} :
                p \in {<<server, user>>} \cap DOMAIN document.server_user_policies}

Governs(request) ==
    CASE request.kind = "direct-tcpip" -> "local"
      [] request.kind \in {"tcpip-forward", "cancel-tcpip-forward"} -> "remote"
      [] request.kind = "exec" /\ IsScp(request.command) -> "scp"
      [] request.kind = "subsystem" /\ request.name = "sftp" -> "sftp"
      [] OTHER -> "nothing"

(* A request is answered by what the configuration, when the target was    *)
(* selected, says for this user at this server, wherever it says it, and   *)
(* by the default if it says nothing: no field that was written is without *)
(* effect, and none of another user or server has one.                     *)
DecisionAsWritten ==
    connection.pc \in {"open", "over"} =>
        LET f == Governs(connection.request)
        IN  IF f = "nothing"
            THEN connection.permitted
            ELSE LET written == Written(connection.source, connection.user, connection.server, f)
                 IN  IF written = {} THEN connection.permitted = Default[f]
                                     ELSE written = {connection.permitted}

=============================================================================
