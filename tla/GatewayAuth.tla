---------------------------- MODULE GatewayAuth ----------------------------
(***************************************************************************)
(* GatewayHandler of src/ssh/mod.rs from the connection to the target's    *)
(* session: the keyboard-interactive dialogue, the enrollment it may end   *)
(* in, the selection, the connection to the target and the menu a finished *)
(* shell drops to.                                                         *)
(*                                                                         *)
(* russh runs one callback of a connection at a time, to its end.  A       *)
(* callback is cut where it touches what others may change: the served     *)
(* snapshot, the ban of the address, the credentials it stores.  What it   *)
(* does between two such points is local to the connection and taken as    *)
(* one step.  The store itself is ConfigStore, the bans are AbuseTracker,  *)
(* the refusals of the rate limiter RateLimit; here the store changes at   *)
(* once, any failure may ban, a ban ends at any time and the limiter may   *)
(* refuse any attempt.  All connections come from one address.             *)
(*                                                                         *)
(* auth_none, auth_publickey and auth_password only reject, and a callback *)
(* of a banned address is rejected before it looks at the dialogue, which  *)
(* is kept: neither changes anything, so neither is an action.             *)
(***************************************************************************)
EXTENDS Integers, Sequences, FiniteSets

CONSTANTS
    Clients,        \* connections
    Names,          \* user names as typed, trimmed
    Passwords,      \* each stands for its Argon2id hash as well
    Empty,          \* the empty string among them
    Secrets,        \* TOTP secrets; each stands for its current code
    Targets,        \* servers of servers.toml
    Tables,         \* what a valid config.toml may say of the users
    EnforcePolicy,  \* settings.enforce_password_policy
    None,
    MaxReloads      \* bound

Record ==
    [password : Passwords, totp_secret : Secrets \cup {None},
     must_change_password : BOOLEAN, allowed_servers : Seq(Targets)]

ASSUME TablesAssumption == Tables \subseteq [Names -> Record \cup {None}]

ASSUME NoneAssumption ==
    /\ None \notin Record /\ None \notin Secrets /\ None \notin Passwords
    /\ None \notin Targets /\ None \notin Names

ASSUME TargetsAssumption == IsFiniteSet(Targets)

ASSUME BoundAssumption == MaxReloads \in Nat

-----------------------------------------------------------------------------
VARIABLES
    users,          \* the users of the served snapshot
    reloads,        \* history: how often the snapshot was replaced
    banned,         \* the address has an active ban
    handler,        \* the fields of each connection's GatewayHandler
    menu_active,    \* of the connection's session channel
    call,           \* where the connection's callback is
    screen,         \* history: the menu shown last
    proven          \* history: what this dialogue has established

vars == <<users, reloads, banned, handler, menu_active, call, screen, proven>>

(* PendingAuthContext; the user is the record that was verified.  Only its *)
(* name matters once a target is to be selected.                           *)
Context == [name : Names, user : Record, new_password_hash : Passwords \cup {None}]

Prompts ==
    [await : {"password", "selection"}, username : Names]
    \cup [await : {"existing_totp"}, username : Names, password : Passwords]
    \cup [await : {"new_password"}, context : Context]
    \cup [await : {"confirm_password"}, context : Context, candidate : Passwords]
    \cup [await : {"enrollment_totp"}, context : Context, secret : Secrets]

KeyboardAuthState == {None} \cup Prompts

ASSUME PromptsAssumption == None \notin Prompts

Handler ==
    [keyboard_auth_state : KeyboardAuthState, authenticated_username : Names \cup {None},
     pending_target : Targets \cup {None}, active_policy : Targets \cup {None},
     proxy_session : Targets \cup {None}]

NewClient ==
    [keyboard_auth_state |-> None, authenticated_username |-> None,
     pending_target |-> None, active_policy |-> None, proxy_session |-> None]

Closed == [pc |-> "closed"]
Waiting == [pc |-> "waiting"]       \* no callback is running

Calls ==
    {Closed, Waiting}
    \cup [pc : {"password"}, username : Names, password : Passwords]
    \cup [pc : {"totp"}, username : Names, password : Passwords, code : Secrets \cup {None}]
    \cup [pc : {"failure"}]
    \cup [pc : {"commit"}, context : Context, secret : Secrets]
    \cup [pc : {"show"}, username : Names]
    \cup [pc : {"select"}, username : Names, choice : Nat]
    \cup [pc : {"menu_select"}, choice : Nat]
    \cup [pc : {"connect"}, target : Targets]

Facts == {"password", "totp", "must_change", "changed", "stored"} \X Names
         \cup {"code"} \X Secrets

TypeOK ==
    /\ users \in [Names -> Record \cup {None}]
    /\ reloads \in 0 .. MaxReloads
    /\ banned \in BOOLEAN
    /\ handler \in [Clients -> Handler]
    /\ menu_active \in [Clients -> BOOLEAN]
    /\ call \in [Clients -> Calls]
    /\ screen \in [Clients -> [entries : Seq(Targets), reloads : Nat]]
    /\ proven \in [Clients -> SUBSET Facts]

Init ==
    /\ users \in Tables
    /\ reloads = 0
    /\ banned = FALSE
    /\ handler = [c \in Clients |-> NewClient]
    /\ menu_active = [c \in Clients |-> FALSE]
    /\ call = [c \in Clients |-> Waiting]
    /\ screen = [c \in Clients |-> [entries |-> << >>, reloads |-> 0]]
    /\ proven = [c \in Clients |-> {}]

(* The user's entry in served snapshot and server list; none is an error.  *)
AllowedServerEntries(n) == IF users[n] = None THEN << >> ELSE users[n].allowed_servers

(* Fault: the entry after the one of that number.                          *)
ChosenFromZero(entries, i) == entries[IF i < Len(entries) THEN i + 1 ELSE i]

Chosen(entries, i) == entries[i]

State(c) == handler[c].keyboard_auth_state

SetState(c, s) == handler' = [handler EXCEPT ![c].keyboard_auth_state = s]

Go(c, next) == call' = [call EXCEPT ![c] = next]

Learn(c, facts) == proven' = [proven EXCEPT ![c] = @ \cup facts]

(* The connection ends and its GatewayHandler with it.                     *)
Close(c) ==
    /\ Go(c, Closed)
    /\ handler' = [handler EXCEPT ![c] = NewClient]
    /\ menu_active' = [menu_active EXCEPT ![c] = FALSE]
    /\ proven' = [proven EXCEPT ![c] = {}]

(* generate_totp_secret draws 256 random bits.                             *)
FreshSecrets ==
    Secrets \ ({users[n].totp_secret : n \in {m \in Names : users[m] # None}}
               \cup {State(c).secret : c \in {d \in Clients :
                        State(d) # None /\ State(d).await = "enrollment_totp"}}
               \cup {call[c].secret : c \in {d \in Clients : call[d].pc = "commit"}})

-----------------------------------------------------------------------------
(* Outside: clients, the reload on SIGHUP, time.                           *)

Connect(c) ==
    /\ call[c] = Closed
    /\ Go(c, Waiting)
    /\ UNCHANGED <<users, reloads, banned, handler, menu_active, screen, proven>>

(* The client leaves, or is disconnected as a callback asked for.          *)
HangUp(c) ==
    /\ call[c] = Waiting
    /\ Close(c)
    /\ UNCHANGED <<users, reloads, banned, screen>>

Reload ==
    /\ reloads < MaxReloads
    /\ reloads' = reloads + 1
    /\ users' \in Tables
    /\ UNCHANGED <<banned, handler, menu_active, call, screen, proven>>

BanEnds ==
    /\ banned
    /\ banned' = FALSE
    /\ UNCHANGED <<users, reloads, handler, menu_active, call, screen, proven>>

-----------------------------------------------------------------------------
(* auth_keyboard_interactive.  russh asks no more once it was accepted.    *)

Asked(c) ==
    call[c] = Waiting /\ handler[c].authenticated_username = None /\ ~banned

(* A request without an answer starts the dialogue over, whatever its      *)
(* state; so does an empty first answer when there is none.                *)
StartOver(c) ==
    /\ Asked(c)
    /\ \E n \in Names : SetState(c, [await |-> "password", username |-> n])
    /\ proven' = [proven EXCEPT ![c] = {}]
    /\ UNCHANGED <<users, reloads, banned, menu_active, call, screen>>

(* An empty user name is a failure and leaves the dialogue as it is.       *)
EmptyName(c) ==
    /\ Asked(c)
    /\ Go(c, [pc |-> "failure"])
    /\ UNCHANGED <<users, reloads, banned, handler, menu_active, screen, proven>>

(* An answer takes the state; every handler must put the next one back.    *)
AnswerPassword(c) ==
    /\ Asked(c)
    /\ \E n \in Names, p \in Passwords :
          /\ IF State(c) = None
             THEN p # Empty
             ELSE State(c) = [await |-> "password", username |-> n]
          /\ Go(c, [pc |-> "password", username |-> n, password |-> p])
    /\ SetState(c, None)
    /\ UNCHANGED <<users, reloads, banned, menu_active, screen, proven>>

AnswerTotp(c) ==
    /\ Asked(c) /\ State(c) # None /\ State(c).await = "existing_totp"
    /\ \E code \in Secrets \cup {None} :
          Go(c, [pc |-> "totp", username |-> State(c).username,
                 password |-> State(c).password, code |-> code])
    /\ SetState(c, None)
    /\ UNCHANGED <<users, reloads, banned, menu_active, screen, proven>>

(* advance_after_initial_auth.                                             *)
ShouldPromptExistingTotp(r) ==
    r # None => ~r.must_change_password /\ r.totp_secret # None

PromptSelection(c, n) ==
    /\ SetState(c, [await |-> "selection", username |-> n])
    /\ Go(c, [pc |-> "show", username |-> n])

PromptEnrollment(c, context) ==
    /\ \E s \in FreshSecrets :
          SetState(c, [await |-> "enrollment_totp", context |-> context, secret |-> s])
    /\ Go(c, Waiting)

(* Fault: a stored secret is looked at before must_change_password.        *)
AdvanceTotpFirst(c, context) ==
    \/ /\ context.user.totp_secret # None
       /\ PromptSelection(c, context.name)
    \/ /\ context.user.totp_secret = None
       /\ PromptEnrollment(c, context)

AdvanceAfterInitialAuth(c, context) ==
    \/ /\ context.user.must_change_password
       /\ SetState(c, [await |-> "new_password", context |-> context])
       /\ Go(c, Waiting)
    \/ /\ ~context.user.must_change_password /\ context.user.totp_secret # None
       /\ PromptSelection(c, context.name)
    \/ /\ ~context.user.must_change_password /\ context.user.totp_secret = None
       /\ PromptEnrollment(c, context)

NewContext(n) == [name |-> n, user |-> users[n], new_password_hash |-> None]

(* What a password, and a code, have shown about the served record of n.   *)
Established(n) ==
    {<<"password", n>>}
    \cup (IF users[n].must_change_password THEN {<<"must_change", n>>} ELSE {})

(* The rate limiter may refuse, which counts as a failure too.             *)
Refuse(c) ==
    /\ Go(c, [pc |-> "failure"])
    /\ UNCHANGED <<handler, proven>>

(* handle_password_response: prompts and verifies by one snapshot.         *)
HandlePasswordResponse(c) ==
    /\ call[c].pc = "password"
    /\ LET n == call[c].username
           r == users[n]
       IN  \/ /\ ShouldPromptExistingTotp(r)
              /\ SetState(c, [await |-> "existing_totp", username |-> n,
                              password |-> call[c].password])
              /\ Go(c, Waiting)
              /\ UNCHANGED proven
           \/ ~ShouldPromptExistingTotp(r) /\ Refuse(c)
           \/ /\ ~ShouldPromptExistingTotp(r)
              /\ call[c].password = r.password
              /\ Learn(c, Established(n))
              /\ AdvanceAfterInitialAuth(c, NewContext(n))
    /\ UNCHANGED <<users, reloads, banned, menu_active, screen>>

(* handle_existing_totp_response: the record may have changed since.       *)
HandleExistingTotpResponse(c) ==
    /\ call[c].pc = "totp"
    /\ LET n == call[c].username
           r == users[n]
       IN  \/ Refuse(c)
           \/ /\ r # None
              /\ call[c].password = r.password
              /\ r.totp_secret # None => call[c].code = r.totp_secret
              /\ Learn(c, Established(n) \cup
                          (IF r.totp_secret # None THEN {<<"totp", n>>} ELSE {}))
              /\ AdvanceAfterInitialAuth(c, NewContext(n))
    /\ UNCHANGED <<users, reloads, banned, menu_active, screen>>

(* record_failure; the delay before the answer only takes time.            *)
RecordFailure(c) ==
    /\ call[c].pc = "failure"
    /\ banned' \in {TRUE, banned}
    /\ Go(c, Waiting)
    /\ UNCHANGED <<users, reloads, handler, menu_active, screen, proven>>

-----------------------------------------------------------------------------
(* First login: a new password, a new secret, and both stored at once.     *)

AnswerNewPassword(c) ==
    /\ Asked(c) /\ State(c) # None /\ State(c).await = "new_password"
    /\ \E p \in Passwords :
          SetState(c, [await |-> "confirm_password", context |-> State(c).context,
                       candidate |-> p])
    /\ UNCHANGED <<users, reloads, banned, menu_active, call, screen, proven>>

(* enforce_password_policy; the lengths are left out but for the empty     *)
(* password.                                                               *)
Refused(p, context) == p = Empty \/ (EnforcePolicy /\ p = context.user.password)

AnswerConfirmPassword(c) ==
    /\ Asked(c) /\ State(c) # None /\ State(c).await = "confirm_password"
    /\ LET context == State(c).context
           p       == State(c).candidate
       IN  \/ /\ SetState(c, [await |-> "new_password", context |-> context])
              /\ UNCHANGED call     \* the two differ, or the policy refuses
           \/ /\ ~Refused(p, context)
              /\ PromptEnrollment(c, [context EXCEPT !.new_password_hash = p])
    /\ UNCHANGED <<users, reloads, banned, menu_active, screen, proven>>

(* Fault: any code will do.                                                *)
AnswerEnrollmentUnchecked(c) ==
    /\ Asked(c) /\ State(c) # None /\ State(c).await = "enrollment_totp"
    /\ \E code \in Secrets \cup {None} :
          /\ Go(c, [pc |-> "commit", context |-> State(c).context, secret |-> State(c).secret])
          /\ Learn(c, {<<"code", code>>})
    /\ SetState(c, None)
    /\ UNCHANGED <<users, reloads, banned, menu_active, screen>>

(* handle_enrollment_response, up to the commit.  A wrong code is counted  *)
(* and the same secret asked for again.                                    *)
AnswerEnrollmentTotp(c) ==
    /\ Asked(c) /\ State(c) # None /\ State(c).await = "enrollment_totp"
    /\ \E code \in Secrets \cup {None} :
          \/ /\ code = State(c).secret
             /\ Go(c, [pc |-> "commit", context |-> State(c).context, secret |-> code])
             /\ SetState(c, None)
             /\ Learn(c, {<<"code", code>>})
          \/ /\ code # State(c).secret
             /\ Go(c, [pc |-> "failure"])
             /\ UNCHANGED <<handler, proven>>
    /\ UNCHANGED <<users, reloads, banned, menu_active, screen>>

(* Fault: the password is stored whether or not there is a new one.        *)
UpdatedAlways(r, context, secret) ==
    [r EXCEPT !.password = context.new_password_hash, !.totp_secret = secret,
              !.must_change_password = FALSE]

(* update_user_credentials on a record, with Some(false) for the flag.     *)
Updated(r, context, secret) ==
    [r EXCEPT !.password = IF context.new_password_hash = None THEN @
                           ELSE context.new_password_hash,
              !.totp_secret = secret,
              !.must_change_password = FALSE]

(* commit_pending_updates: the record is the one served by now, not the    *)
(* one that was verified.  A write that fails leaves it changed in memory  *)
(* and ends the connection.                                                *)
CommitPendingUpdates(c) ==
    /\ call[c].pc = "commit"
    /\ LET n       == call[c].context.name
           context == call[c].context
       IN  \/ users[n] = None /\ Close(c) /\ UNCHANGED users
           \/ /\ users[n] # None
              /\ users' = [users EXCEPT ![n] = Updated(@, context, call[c].secret)]
              /\ \/ Close(c)
                 \/ /\ PromptSelection(c, n)
                    /\ Learn(c, {<<"stored", n>>} \cup
                                (IF context.new_password_hash = None THEN {}
                                 ELSE {<<"changed", n>>}))
                    /\ UNCHANGED menu_active
    /\ UNCHANGED <<reloads, banned, screen>>

-----------------------------------------------------------------------------
(* Selection.                                                              *)

(* selection_prompt.                                                       *)
SelectionPrompt(c) ==
    /\ call[c].pc = "show"
    /\ LET entries == AllowedServerEntries(call[c].username)
       IN  \/ entries = << >> /\ Close(c) /\ UNCHANGED screen
           \/ /\ entries # << >>
              /\ screen' = [screen EXCEPT ![c] = [entries |-> entries, reloads |-> reloads]]
              /\ Go(c, Waiting)
              /\ UNCHANGED <<handler, menu_active, proven>>
    /\ UNCHANGED <<users, reloads, banned>>

Choices == 0 .. Cardinality(Targets)

AnswerSelection(c) ==
    /\ Asked(c) /\ State(c) # None /\ State(c).await = "selection"
    /\ \/ Close(c)      \* q
       \/ /\ \E i \in Choices :
                Go(c, [pc |-> "select", username |-> State(c).username, choice |-> i])
          /\ SetState(c, None)
          /\ UNCHANGED <<menu_active, proven>>
    /\ UNCHANGED <<users, reloads, banned, screen>>

(* handle_selection_response: by a snapshot of its own.                    *)
HandleSelectionResponse(c) ==
    /\ call[c].pc = "select"
    /\ LET n       == call[c].username
           entries == AllowedServerEntries(n)
           i       == call[c].choice
       IN  \/ entries = << >> /\ Close(c)
           \/ /\ entries # << >> /\ i \notin 1 .. Len(entries)
              /\ PromptSelection(c, n)
              /\ UNCHANGED <<menu_active, proven>>
           \/ /\ i \in 1 .. Len(entries)
              /\ handler' = [handler EXCEPT ![c].pending_target = Chosen(entries, i),
                                            ![c].authenticated_username = n]
              /\ Go(c, [pc |-> "connect", target |-> Chosen(entries, i)])
              /\ UNCHANGED <<menu_active, proven>>
    /\ UNCHANGED <<users, reloads, banned, screen>>

(* connect_selected_target.  No policy without a user, which is an error   *)
(* and ends the connection.  When the target cannot be reached the policy  *)
(* goes, the session before it stays, and the client is to be              *)
(* disconnected, which HangUp stands for: the handler itself returns       *)
(* without an error, and a callback may yet run before the connection is   *)
(* over.                                                                   *)
ConnectSelectedTarget(c) ==
    /\ call[c].pc = "connect"
    /\ \/ users[handler[c].authenticated_username] = None /\ Close(c)
       \/ /\ users[handler[c].authenticated_username] # None
          /\ \/ handler' = [handler EXCEPT ![c].active_policy = call[c].target,
                                           ![c].proxy_session = call[c].target]
             \/ handler' = [handler EXCEPT ![c].active_policy = None]
          /\ Go(c, Waiting)
          /\ UNCHANGED <<menu_active, proven>>
    /\ UNCHANGED <<users, reloads, banned, screen>>

-----------------------------------------------------------------------------
(* The menu a finished shell drops to.                                     *)

(* activate_menu_after_disconnect: the channel takes menu input before it  *)
(* is known whether there is a menu to show.                               *)
ActivateMenu(c) ==
    /\ call[c] = Waiting /\ handler[c].proxy_session # None /\ ~menu_active[c]
    /\ menu_active' = [menu_active EXCEPT ![c] = TRUE]
    /\ LET entries == AllowedServerEntries(handler[c].authenticated_username)
       IN  screen' = IF entries = << >> THEN screen
                     ELSE [screen EXCEPT ![c] = [entries |-> entries, reloads |-> reloads]]
    /\ UNCHANGED <<users, reloads, banned, handler, call, proven>>

(* handle_menu_channel_input, once a line is complete.                     *)
MenuLine(c) ==
    /\ call[c] = Waiting /\ menu_active[c]
    /\ \/ Close(c)      \* q
       \/ /\ \E i \in Choices : Go(c, [pc |-> "menu_select", choice |-> i])
          /\ UNCHANGED <<handler, menu_active, proven>>
    /\ UNCHANGED <<users, reloads, banned, screen>>

MenuSelect(c) ==
    /\ call[c].pc = "menu_select"
    /\ LET n       == handler[c].authenticated_username
           entries == AllowedServerEntries(n)
           i       == call[c].choice
       IN  \/ entries = << >> /\ Close(c)
           \/ /\ entries # << >> /\ i \notin 1 .. Len(entries)
              /\ Go(c, [pc |-> "show", username |-> n])
              /\ UNCHANGED <<handler, menu_active, proven>>
           \/ /\ i \in 1 .. Len(entries)
              /\ menu_active' = [menu_active EXCEPT ![c] = FALSE]
              /\ Go(c, [pc |-> "connect", target |-> Chosen(entries, i)])
              /\ UNCHANGED <<handler, proven>>
    /\ UNCHANGED <<users, reloads, banned, screen>>

Next ==
    \/ Reload \/ BanEnds
    \/ \E c \in Clients :
          \/ Connect(c) \/ HangUp(c)
          \/ StartOver(c) \/ EmptyName(c)
          \/ AnswerPassword(c) \/ HandlePasswordResponse(c)
          \/ AnswerTotp(c) \/ HandleExistingTotpResponse(c)
          \/ RecordFailure(c)
          \/ AnswerNewPassword(c) \/ AnswerConfirmPassword(c)
          \/ AnswerEnrollmentTotp(c) \/ CommitPendingUpdates(c)
          \/ SelectionPrompt(c) \/ AnswerSelection(c) \/ HandleSelectionResponse(c)
          \/ ConnectSelectedTarget(c)
          \/ ActivateMenu(c) \/ MenuLine(c) \/ MenuSelect(c)

Spec == Init /\ [][Next]_vars

-----------------------------------------------------------------------------
(* Properties.                                                             *)

(* Who the connection selects for, None before it may.                     *)
SelectsFor(c) ==
    IF handler[c].authenticated_username # None
    THEN handler[c].authenticated_username
    ELSE IF State(c) # None /\ State(c).await = "selection"
    THEN State(c).username
    ELSE None

(***************************************************************************)
(* op-guide.md:310, 374: whoever is offered a target has in this very      *)
(* dialogue given that user's password, and a code of the stored secret or *)
(* stored a new one; a password that had to be changed was.  Reloads,      *)
(* other sessions of the user and started-over dialogues do not mix it up. *)
(***************************************************************************)
SelectionEarned ==
    \A c \in Clients : LET n == SelectsFor(c) IN
        n # None =>
            /\ <<"password", n>> \in proven[c]
            /\ <<"totp", n>> \in proven[c] \/ <<"stored", n>> \in proven[c]
            /\ <<"must_change", n>> \in proven[c] => <<"changed", n>> \in proven[c]

(***************************************************************************)
(* Between reloads, credentials change only by a connection that gave the  *)
(* user's password in this dialogue and a code of the very secret it       *)
(* stores, and a user is neither added nor removed.                        *)
(***************************************************************************)
CommitsEarned ==
    [][reloads' = reloads =>
          \A n \in Names : users'[n] # users[n] =>
              \E c \in Clients :
                  /\ call[c].pc = "commit" /\ call'[c] # call[c]
                  /\ <<"password", n>> \in proven[c]
                  /\ users[n] # None
                  /\ <<"code", users'[n].totp_secret>> \in proven[c]]_vars

(***************************************************************************)
(* Unless a reload came between, the connection goes to the target the     *)
(* menu on the screen shows under that number.                             *)
(***************************************************************************)
MenuHonest ==
    [][\A c \in Clients :
          (/\ call[c].pc \in {"select", "menu_select"} /\ call'[c].pc = "connect"
           /\ screen[c].reloads = reloads)
              => /\ call[c].choice \in DOMAIN screen[c].entries
                 /\ call'[c].target = screen[c].entries[call[c].choice]]_vars

=============================================================================
