-------------------------- MODULE GatewayAuthProofs -------------------------
(***************************************************************************)
(* Proofs about GatewayAuth for any clients, names, targets and tables.    *)
(*                                                                         *)
(* All state but the served users and the ban is that of one connection,   *)
(* so the inductive invariant is a predicate on the values one connection  *)
(* holds, and a step of one connection is followed through its own values. *)
(***************************************************************************)
EXTENDS GatewayAuth, FiniteSetTheorems, TLAPS

(* h, m, k, s, p: the handler, menu_active, call, screen and proven facts  *)
(* of a connection; us, r: the served users and how often they changed.    *)
Prompting(h, await) ==
    h.keyboard_auth_state # None /\ h.keyboard_auth_state.await = await

(* Who may use the menu, and who is past the dialogue, has a name.         *)
NameKnown(h, m, k) ==
    /\ h.proxy_session # None \/ m \/ k.pc \in {"menu_select", "connect"}
          => h.authenticated_username # None
    /\ k.pc \in {"password", "totp", "commit", "select"} => h.authenticated_username = None
    /\ k.pc = "show" =>
          IF h.authenticated_username # None
          THEN k.username = h.authenticated_username
          ELSE Prompting(h, "selection") /\ h.keyboard_auth_state.username = k.username

(* Before a password was verified nothing is known of anyone, so an        *)
(* abandoned dialogue leaves nothing to a later one.                       *)
NothingProven(h, k, p) ==
    (\/ k.pc \in {"password", "totp"}
     \/ /\ h.authenticated_username = None
        /\ k.pc \in {"closed", "waiting", "failure"}
        /\ \/ h.keyboard_auth_state = None
           \/ Prompting(h, "password") \/ Prompting(h, "existing_totp"))
    => p = {}

(* What is known of the user a context is of: once a secret is to be       *)
(* stored, a password that had to be changed comes with it.                *)
ContextProven(context, p) == <<"password", context.name>> \in p

ContextComplete(context, p) ==
    /\ ContextProven(context, p)
    /\ <<"must_change", context.name>> \in p => context.new_password_hash # None

ContextsProven(h, k, p) ==
    /\ Prompting(h, "new_password") \/ Prompting(h, "confirm_password")
          => ContextProven(h.keyboard_auth_state.context, p)
    /\ Prompting(h, "enrollment_totp") => ContextComplete(h.keyboard_auth_state.context, p)
    /\ k.pc = "commit" =>
          ContextComplete(k.context, p) /\ <<"code", k.secret>> \in p

EarnedBy(n, p) ==
    /\ <<"password", n>> \in p
    /\ <<"totp", n>> \in p \/ <<"stored", n>> \in p
    /\ <<"must_change", n>> \in p => <<"changed", n>> \in p

SelectionProven(h, k, p) ==
    /\ h.authenticated_username # None => EarnedBy(h.authenticated_username, p)
    /\ Prompting(h, "selection") => EarnedBy(h.keyboard_auth_state.username, p)
    /\ k.pc = "select" => EarnedBy(k.username, p)

(* The screen of a user who may select shows what is served, if nothing    *)
(* was reloaded since.                                                     *)
EntriesIn(us, n) == IF us[n] = None THEN << >> ELSE us[n].allowed_servers

Shows(s, us, r, n) == s.reloads = r => s.entries = EntriesIn(us, n)

ScreenCurrent(h, k, s, us, r) ==
    /\ s.reloads <= r
    /\ h.authenticated_username # None => Shows(s, us, r, h.authenticated_username)
    /\ (/\ h.authenticated_username = None /\ Prompting(h, "selection")
        /\ k.pc \in {"closed", "waiting", "failure"})
          => Shows(s, us, r, h.keyboard_auth_state.username)
    /\ k.pc = "select" => Shows(s, us, r, k.username)

ClientTyped(h, m, k, s, p) ==
    /\ h \in Handler
    /\ m \in BOOLEAN
    /\ k \in Calls
    /\ s \in [entries : Seq(Targets), reloads : Nat]
    /\ p \in SUBSET Facts

GoodClient(h, m, k, s, p, us, r) ==
    /\ ClientTyped(h, m, k, s, p)
    /\ NameKnown(h, m, k)
    /\ NothingProven(h, k, p)
    /\ ContextsProven(h, k, p)
    /\ SelectionProven(h, k, p)
    /\ ScreenCurrent(h, k, s, us, r)

Client(c) ==
    GoodClient(handler[c], menu_active[c], call[c], screen[c], proven[c], users, reloads)

GatewayInv ==
    /\ TypeOK
    /\ \A c \in Clients : Client(c)

-----------------------------------------------------------------------------
(* Shapes: what a prompt or a call of each kind carries.                   *)

LEMMA PromptShape ==
    ASSUME NEW st \in KeyboardAuthState, st # None
    PROVE  /\ st.await \in {"password", "selection", "existing_totp"} => st.username \in Names
           /\ st.await = "existing_totp" => st.password \in Passwords
           /\ st.await \in {"new_password", "confirm_password", "enrollment_totp"} =>
                 st.context \in Context
           /\ st.await = "confirm_password" => st.candidate \in Passwords
           /\ st.await = "enrollment_totp" => st.secret \in Secrets
  <1>1. st \in Prompts
    BY DEF KeyboardAuthState
  <1>2. CASE st \in [await : {"password", "selection"}, username : Names]
    BY <1>2
  <1>3. CASE st \in [await : {"existing_totp"}, username : Names, password : Passwords]
    BY <1>3
  <1>4. CASE st \in [await : {"new_password"}, context : Context]
    BY <1>4
  <1>5. CASE st \in [await : {"confirm_password"}, context : Context, candidate : Passwords]
    BY <1>5
  <1>6. CASE st \in [await : {"enrollment_totp"}, context : Context, secret : Secrets]
    BY <1>6
  <1>. QED  BY <1>1, <1>2, <1>3, <1>4, <1>5, <1>6 DEF Prompts

LEMMA PromptIntro ==
    /\ None \in KeyboardAuthState
    /\ \A a \in {"password", "selection"}, n \in Names :
          [await |-> a, username |-> n] \in KeyboardAuthState \ {None}
    /\ \A n \in Names, q \in Passwords :
          [await |-> "existing_totp", username |-> n, password |-> q]
              \in KeyboardAuthState \ {None}
    /\ \A x \in Context :
          /\ [await |-> "new_password", context |-> x] \in KeyboardAuthState \ {None}
          /\ \A q \in Passwords : [await |-> "confirm_password", context |-> x, candidate |-> q]
                \in KeyboardAuthState \ {None}
          /\ \A t \in Secrets : [await |-> "enrollment_totp", context |-> x, secret |-> t]
                \in KeyboardAuthState \ {None}
  BY PromptsAssumption DEF KeyboardAuthState, Prompts

LEMMA CallShape ==
    ASSUME NEW k \in Calls
    PROVE  /\ k.pc \in {"closed", "waiting", "password", "totp", "failure", "commit", "show",
                        "select", "menu_select", "connect"}
           /\ k.pc \in {"password", "totp", "show", "select"} => k.username \in Names
           /\ k.pc \in {"password", "totp"} => k.password \in Passwords
           /\ k.pc = "totp" => k.code \in Secrets \cup {None}
           /\ k.pc = "commit" => k.context \in Context /\ k.secret \in Secrets
           /\ k.pc \in {"select", "menu_select"} => k.choice \in Nat
           /\ k.pc = "connect" => k.target \in Targets
           /\ k.pc = "waiting" <=> k = Waiting
           /\ k.pc = "closed" <=> k = Closed
  <1>. USE DEF Closed, Waiting
  <1>1. CASE k \in {Closed, Waiting}
    BY <1>1
  <1>2. CASE k \in [pc : {"password"}, username : Names, password : Passwords]
    BY <1>2
  <1>3. CASE k \in [pc : {"totp"}, username : Names, password : Passwords,
                    code : Secrets \cup {None}]
    BY <1>3
  <1>4. CASE k \in [pc : {"failure"}]
    BY <1>4
  <1>5. CASE k \in [pc : {"commit"}, context : Context, secret : Secrets]
    BY <1>5
  <1>6. CASE k \in [pc : {"show"}, username : Names]
    BY <1>6
  <1>7. CASE k \in [pc : {"select"}, username : Names, choice : Nat]
    BY <1>7
  <1>8. CASE k \in [pc : {"menu_select"}, choice : Nat]
    BY <1>8
  <1>9. CASE k \in [pc : {"connect"}, target : Targets]
    BY <1>9
  <1>. QED
    BY <1>1, <1>2, <1>3, <1>4, <1>5, <1>6, <1>7, <1>8, <1>9 DEF Calls

LEMMA CallIntro ==
    /\ Closed \in Calls /\ Waiting \in Calls /\ [pc |-> "failure"] \in Calls
    /\ \A n \in Names :
          /\ [pc |-> "show", username |-> n] \in Calls
          /\ \A q \in Passwords :
                /\ [pc |-> "password", username |-> n, password |-> q] \in Calls
                /\ \A t \in Secrets \cup {None} :
                      [pc |-> "totp", username |-> n, password |-> q, code |-> t] \in Calls
          /\ \A i \in Nat : [pc |-> "select", username |-> n, choice |-> i] \in Calls
    /\ \A x \in Context, t \in Secrets :
          [pc |-> "commit", context |-> x, secret |-> t] \in Calls
    /\ \A i \in Nat : [pc |-> "menu_select", choice |-> i] \in Calls
    /\ \A t \in Targets : [pc |-> "connect", target |-> t] \in Calls
  BY DEF Calls

(* SetState on the values of one connection.                               *)
LEMMA SetStateShape ==
    ASSUME NEW h \in Handler, NEW st \in KeyboardAuthState
    PROVE  LET g == [h EXCEPT !.keyboard_auth_state = st] IN
           /\ g \in Handler
           /\ g.keyboard_auth_state = st
           /\ g.authenticated_username = h.authenticated_username
           /\ g.proxy_session = h.proxy_session
  BY DEF Handler

-----------------------------------------------------------------------------
(* A step of one connection keeps the invariant if the values it leaves    *)
(* that connection are good.                                               *)
LEMMA StepOfOne ==
    ASSUME GatewayInv, NEW c \in Clients,
           NEW h, NEW m, NEW k, NEW s, NEW p,
           handler' = [handler EXCEPT ![c] = h],
           menu_active' = [menu_active EXCEPT ![c] = m],
           call' = [call EXCEPT ![c] = k],
           screen' = [screen EXCEPT ![c] = s],
           proven' = [proven EXCEPT ![c] = p],
           users' \in [Names -> Record \cup {None}],
           \A n \in Names : EntriesIn(users', n) = EntriesIn(users, n),
           reloads' = reloads,
           banned' \in BOOLEAN,
           GoodClient(h, m, k, s, p, users, reloads)
    PROVE  GatewayInv'
  <1>1. TypeOK'
    BY DEF GatewayInv, TypeOK, GoodClient, ClientTyped
  <1>2. ASSUME NEW d \in Clients
        PROVE  Client(d)'
    <2>. DEFINE hd == handler'[d]  md == menu_active'[d]  kd == call'[d]
                sd == screen'[d]  pd == proven'[d]
    <2>1. GoodClient(hd, md, kd, sd, pd, users, reloads)
      <3>1. CASE d = c
        <4>1. hd = h /\ md = m /\ kd = k /\ sd = s /\ pd = p
          BY <3>1 DEF GatewayInv, TypeOK
        <4>. QED  BY <4>1
      <3>2. CASE d # c
        <4>1. /\ hd = handler[d] /\ md = menu_active[d] /\ kd = call[d]
              /\ sd = screen[d] /\ pd = proven[d]
          BY <3>2 DEF GatewayInv, TypeOK
        <4>2. Client(d)
          BY DEF GatewayInv
        <4>. QED  BY <4>1, <4>2 DEF Client
      <3>. QED  BY <3>1, <3>2
    <2>. HIDE DEF hd, md, kd, sd, pd
    <2>2. ScreenCurrent(hd, kd, sd, users', reloads)
      <3>1. hd.authenticated_username # None => hd.authenticated_username \in Names
        BY <2>1 DEF GoodClient, ClientTyped, Handler
      <3>2. Prompting(hd, "selection") => hd.keyboard_auth_state.username \in Names
        <4>1. hd.keyboard_auth_state \in KeyboardAuthState
          BY <2>1 DEF GoodClient, ClientTyped, Handler
        <4>. QED  BY <4>1, PromptShape DEF Prompting
      <3>3. kd.pc = "select" => kd.username \in Names
        BY <2>1, CallShape DEF GoodClient, ClientTyped
      <3>. QED  BY <2>1, <3>1, <3>2, <3>3 DEF GoodClient, ScreenCurrent, Shows
    <2>3. GoodClient(hd, md, kd, sd, pd, users', reloads)
      BY <2>1, <2>2 DEF GoodClient
    <2>. QED  BY <2>3 DEF Client, hd, md, kd, sd, pd
  <1>. QED  BY <1>1, <1>2 DEF GatewayInv

-----------------------------------------------------------------------------
(* The values of a connection, and those that do not change.               *)
LEMMA ClientFacts ==
    ASSUME GatewayInv, NEW c \in Clients
    PROVE  /\ GoodClient(handler[c], menu_active[c], call[c], screen[c], proven[c],
                         users, reloads)
           /\ handler[c] \in Handler /\ call[c] \in Calls
           /\ handler[c].keyboard_auth_state \in KeyboardAuthState
           /\ handler[c].authenticated_username \in Names \cup {None}
           /\ handler[c].proxy_session \in Targets \cup {None}
           /\ screen[c].reloads <= reloads
           /\ users \in [Names -> Record \cup {None}] /\ banned \in BOOLEAN
           /\ handler = [handler EXCEPT ![c] = handler[c]]
           /\ menu_active = [menu_active EXCEPT ![c] = menu_active[c]]
           /\ call = [call EXCEPT ![c] = call[c]]
           /\ screen = [screen EXCEPT ![c] = screen[c]]
           /\ proven = [proven EXCEPT ![c] = proven[c]]
  <1>1. GoodClient(handler[c], menu_active[c], call[c], screen[c], proven[c], users, reloads)
    BY DEF GatewayInv, Client
  <1>2. handler[c] \in Handler /\ call[c] \in Calls
    BY <1>1 DEF GoodClient, ClientTyped
  <1>3. /\ handler[c].keyboard_auth_state \in KeyboardAuthState
        /\ handler[c].authenticated_username \in Names \cup {None}
        /\ handler[c].proxy_session \in Targets \cup {None}
    BY <1>2 DEF Handler
  <1>. QED
    BY <1>1, <1>2, <1>3 DEF GatewayInv, TypeOK, GoodClient, ScreenCurrent

(* A step of a connection past the dialogue.                               *)
LEMMA MenuStep ==
    ASSUME GatewayInv, NEW c \in Clients, NEW m, NEW k, NEW s,
           menu_active' = [menu_active EXCEPT ![c] = m],
           call' = [call EXCEPT ![c] = k],
           screen' = [screen EXCEPT ![c] = s],
           UNCHANGED <<users, reloads, banned, handler, proven>>,
           GoodClient(handler[c], m, k, s, proven[c], users, reloads)
    PROVE  GatewayInv'
  <1>1. /\ handler' = [handler EXCEPT ![c] = handler[c]]
        /\ proven' = [proven EXCEPT ![c] = proven[c]]
        /\ users' \in [Names -> Record \cup {None}]
        /\ banned' \in BOOLEAN
        /\ reloads' = reloads
    BY ClientFacts
  <1>2. \A n \in Names : EntriesIn(users', n) = EntriesIn(users, n)
    OBVIOUS
  <1>. QED  BY <1>1, <1>2, StepOfOne

(* A connection that ends takes all but its last screen with it.           *)
LEMMA CloseGood ==
    ASSUME GatewayInv, NEW c \in Clients, Close(c),
           users' \in [Names -> Record \cup {None}],
           \A n \in Names : EntriesIn(users', n) = EntriesIn(users, n),
           UNCHANGED <<reloads, banned, screen>>
    PROVE  GatewayInv'
  <1>1. GoodClient(NewClient, FALSE, Closed, screen[c], {}, users, reloads)
    <2>1. /\ NewClient \in Handler
          /\ NewClient.keyboard_auth_state = None
          /\ NewClient.authenticated_username = None
          /\ NewClient.proxy_session = None
      BY PromptIntro DEF NewClient, Handler
    <2>2. /\ Closed \in Calls /\ Closed.pc = "closed"
      BY CallIntro DEF Closed
    <2>3. screen[c] \in [entries : Seq(Targets), reloads : Nat] /\ screen[c].reloads <= reloads
      BY ClientFacts DEF GoodClient, ClientTyped
    <2>. QED
      BY <2>1, <2>2, <2>3 DEF GoodClient, ClientTyped, NameKnown, NothingProven,
         ContextsProven, SelectionProven, ScreenCurrent, Prompting
  <1>. QED  BY <1>1, StepOfOne, ClientFacts DEF Close, Go

(* A step that changes only the dialogue.                                  *)
LEMMA DialogueStep ==
    ASSUME GatewayInv, NEW c \in Clients, NEW h, NEW k, NEW p,
           handler' = [handler EXCEPT ![c] = h],
           call' = [call EXCEPT ![c] = k],
           proven' = [proven EXCEPT ![c] = p],
           UNCHANGED <<users, reloads, menu_active, screen>>,
           banned' \in BOOLEAN,
           GoodClient(h, menu_active[c], k, screen[c], p, users, reloads)
    PROVE  GatewayInv'
  <1>1. /\ menu_active' = [menu_active EXCEPT ![c] = menu_active[c]]
        /\ screen' = [screen EXCEPT ![c] = screen[c]]
        /\ users' \in [Names -> Record \cup {None}]
        /\ reloads' = reloads
    BY ClientFacts
  <1>2. \A n \in Names : EntriesIn(users', n) = EntriesIn(users, n)
    OBVIOUS
  <1>. QED  BY <1>1, <1>2, StepOfOne

(* A step that changes only where the callback is.                         *)
LEMMA GoGood ==
    ASSUME GatewayInv, NEW c \in Clients, NEW k, Go(c, k),
           GoodClient(handler[c], menu_active[c], k, screen[c], proven[c], users, reloads),
           UNCHANGED <<users, reloads, handler, menu_active, screen, proven>>,
           banned' \in BOOLEAN
    PROVE  GatewayInv'
  <1>1. /\ handler' = [handler EXCEPT ![c] = handler[c]]
        /\ proven' = [proven EXCEPT ![c] = proven[c]]
    BY ClientFacts
  <1>2. call' = [call EXCEPT ![c] = k]
    BY DEF Go
  <1>. QED  BY <1>1, <1>2, DialogueStep

LEMMA ConnectGood ==
    ASSUME GatewayInv, NEW c \in Clients, Connect(c)
    PROVE  GatewayInv'
  <1>1. GoodClient(handler[c], menu_active[c], Waiting, screen[c], proven[c], users, reloads)
    <2>1. call[c].pc = "closed" /\ Waiting.pc = "waiting" /\ Waiting \in Calls
      BY CallIntro DEF Connect, Closed, Waiting
    <2>. QED
      BY <2>1, ClientFacts DEF GoodClient, ClientTyped, NameKnown, NothingProven,
         ContextsProven, SelectionProven, ScreenCurrent
  <1>. QED  BY <1>1, GoGood, ClientFacts DEF Connect

LEMMA HangUpGood ==
    ASSUME GatewayInv, NEW c \in Clients, HangUp(c)
    PROVE  GatewayInv'
  BY CloseGood, ClientFacts DEF HangUp

(* What Asked says of the connection.                                      *)
LEMMA AskedFacts ==
    ASSUME GatewayInv, NEW c \in Clients, Asked(c)
    PROVE  /\ call[c].pc = "waiting"
           /\ handler[c].authenticated_username = None
           /\ handler[c].proxy_session = None
           /\ menu_active[c] = FALSE
  <1>1. call[c].pc = "waiting" /\ handler[c].authenticated_username = None
    BY DEF Asked, Waiting
  <1>2. menu_active[c] \in BOOLEAN
    BY DEF GatewayInv, TypeOK
  <1>. QED  BY <1>1, <1>2, ClientFacts DEF GoodClient, NameKnown

LEMMA FailureGood ==
    ASSUME GatewayInv, NEW c \in Clients, EmptyName(c) \/ RecordFailure(c)
    PROVE  GatewayInv'
  <1>1. CASE EmptyName(c)
    <2>1. GoodClient(handler[c], menu_active[c], [pc |-> "failure"], screen[c], proven[c],
                     users, reloads)
      <3>1. call[c].pc = "waiting" /\ [pc |-> "failure"] \in Calls
        BY <1>1, CallIntro, AskedFacts DEF EmptyName
      <3>. QED
        BY <3>1, ClientFacts DEF GoodClient, ClientTyped, NameKnown, NothingProven,
           ContextsProven, SelectionProven, ScreenCurrent
    <2>. QED  BY <1>1, <2>1, GoGood, ClientFacts DEF EmptyName
  <1>2. CASE RecordFailure(c)
    <2>1. GoodClient(handler[c], menu_active[c], Waiting, screen[c], proven[c], users, reloads)
      <3>1. call[c].pc = "failure" /\ Waiting.pc = "waiting" /\ Waiting \in Calls
        BY <1>2, CallIntro DEF RecordFailure, Waiting
      <3>. QED
        BY <3>1, ClientFacts DEF GoodClient, ClientTyped, NameKnown, NothingProven,
           ContextsProven, SelectionProven, ScreenCurrent
    <2>2. banned' \in BOOLEAN
      BY <1>2, ClientFacts DEF RecordFailure
    <2>. QED  BY <1>2, <2>1, <2>2, GoGood DEF RecordFailure
  <1>. QED  BY <1>1, <1>2

-----------------------------------------------------------------------------
(* The dialogue: nobody is authenticated yet, so a step is judged by the   *)
(* prompt st, the call k and the facts p it leaves.                        *)
DialogueValues(st, k, s, p) ==
    /\ st \in KeyboardAuthState /\ k \in Calls /\ p \in SUBSET Facts
    /\ k.pc \notin {"menu_select", "connect"}
    /\ k.pc = "show" => st # None /\ st.await = "selection" /\ st.username = k.username
    /\ \/ k.pc \in {"password", "totp"}
       \/ /\ k.pc \in {"closed", "waiting", "failure"}
          /\ st # None => st.await \in {"password", "existing_totp"}
       => p = {}
    /\ st # None /\ st.await \in {"new_password", "confirm_password"}
          => ContextProven(st.context, p)
    /\ st # None /\ st.await = "enrollment_totp" => ContextComplete(st.context, p)
    /\ k.pc = "commit" => ContextComplete(k.context, p) /\ <<"code", k.secret>> \in p
    /\ st # None /\ st.await = "selection" =>
          /\ EarnedBy(st.username, p)
          /\ k.pc \in {"closed", "waiting", "failure"} => Shows(s, users, reloads, st.username)
    /\ k.pc = "select" => EarnedBy(k.username, p) /\ Shows(s, users, reloads, k.username)

LEMMA DialogueClient ==
    ASSUME GatewayInv, NEW c \in Clients, NEW st, NEW k, NEW p,
           handler[c].authenticated_username = None,
           call[c].pc \in {"waiting", "password", "totp", "commit", "select"},
           DialogueValues(st, k, screen[c], p)
    PROVE  GoodClient([handler[c] EXCEPT !.keyboard_auth_state = st], menu_active[c], k,
                      screen[c], p, users, reloads)
  <1>. DEFINE h == [handler[c] EXCEPT !.keyboard_auth_state = st]
  <1>1. GoodClient(handler[c], menu_active[c], call[c], screen[c], proven[c], users, reloads)
    BY ClientFacts
  <1>2. handler[c] \in Handler /\ st \in KeyboardAuthState
    BY ClientFacts DEF DialogueValues
  <1>3. handler[c].proxy_session = None /\ menu_active[c] = FALSE
    BY <1>1 DEF GoodClient, ClientTyped, NameKnown
  <1>4. /\ h \in Handler /\ h.keyboard_auth_state = st
        /\ h.authenticated_username = None
        /\ h.proxy_session = None
    BY <1>2, <1>3, SetStateShape
  <1>. HIDE DEF h
  <1>5. ClientTyped(h, menu_active[c], k, screen[c], p)
    BY <1>1, <1>4 DEF GoodClient, ClientTyped, DialogueValues
  <1>6. NameKnown(h, menu_active[c], k)
    BY <1>3, <1>4 DEF NameKnown, DialogueValues, Prompting
  <1>7. NothingProven(h, k, p) /\ ContextsProven(h, k, p) /\ SelectionProven(h, k, p)
    BY <1>4 DEF NothingProven, ContextsProven, SelectionProven, DialogueValues, Prompting
  <1>8. ScreenCurrent(h, k, screen[c], users, reloads)
    BY <1>1, <1>4 DEF GoodClient, ScreenCurrent, DialogueValues, Prompting
  <1>9. GoodClient(h, menu_active[c], k, screen[c], p, users, reloads)
    BY <1>4, <1>5, <1>6, <1>7, <1>8 DEF GoodClient
  <1>. QED  BY <1>9 DEF h

LEMMA DialogueGood ==
    ASSUME GatewayInv, NEW c \in Clients, NEW st, NEW k, NEW p,
           handler[c].authenticated_username = None,
           call[c].pc \in {"waiting", "password", "totp", "commit", "select"},
           handler' = [handler EXCEPT ![c].keyboard_auth_state = st],
           call' = [call EXCEPT ![c] = k],
           proven' = [proven EXCEPT ![c] = p],
           UNCHANGED <<users, reloads, menu_active, screen>>,
           banned' \in BOOLEAN,
           DialogueValues(st, k, screen[c], p)
    PROVE  GatewayInv'
  <1>. DEFINE h == [handler[c] EXCEPT !.keyboard_auth_state = st]
  <1>1. handler' = [handler EXCEPT ![c] = h]
    OBVIOUS
  <1>2. GoodClient(h, menu_active[c], k, screen[c], p, users, reloads)
    BY DialogueClient
  <1>. HIDE DEF h
  <1>. QED  BY <1>1, <1>2, DialogueStep

LEMMA StartOverGood ==
    ASSUME GatewayInv, NEW c \in Clients, StartOver(c)
    PROVE  GatewayInv'
  <1>1. PICK n \in Names : SetState(c, [await |-> "password", username |-> n])
    BY DEF StartOver
  <1>. DEFINE st == [await |-> "password", username |-> n]
  <1>2. st \in KeyboardAuthState /\ st # None /\ st.await = "password"
    BY PromptIntro
  <1>3. handler' = [handler EXCEPT ![c].keyboard_auth_state = st]
    BY <1>1 DEF SetState
  <1>. HIDE DEF st
  <1>4. DialogueValues(st, call[c], screen[c], {})
    BY <1>2, AskedFacts, ClientFacts DEF DialogueValues, StartOver
  <1>5. /\ call' = [call EXCEPT ![c] = call[c]]
        /\ proven' = [proven EXCEPT ![c] = {}]
        /\ UNCHANGED <<users, reloads, menu_active, screen>>
        /\ banned' \in BOOLEAN
    BY ClientFacts DEF StartOver
  <1>. QED  BY <1>3, <1>4, <1>5, AskedFacts, DialogueGood DEF StartOver

LEMMA AnswerPasswordGood ==
    ASSUME GatewayInv, NEW c \in Clients, AnswerPassword(c)
    PROVE  GatewayInv'
  <1>1. PICK n \in Names, q \in Passwords :
            /\ State(c) # None => State(c) = [await |-> "password", username |-> n]
            /\ Go(c, [pc |-> "password", username |-> n, password |-> q])
    BY DEF AnswerPassword
  <1>. DEFINE k == [pc |-> "password", username |-> n, password |-> q]
  <1>2. k \in Calls /\ k.pc = "password" /\ None \in KeyboardAuthState
    BY CallIntro, PromptIntro
  <1>3. proven[c] = {}
    <2>1. handler[c].keyboard_auth_state = None \/ Prompting(handler[c], "password")
      BY <1>1 DEF State, Prompting
    <2>. QED  BY <2>1, AskedFacts, ClientFacts DEF AnswerPassword, GoodClient, NothingProven
  <1>4. DialogueValues(None, k, screen[c], {})
    BY <1>2 DEF DialogueValues
  <1>5. /\ handler' = [handler EXCEPT ![c].keyboard_auth_state = None]
        /\ call' = [call EXCEPT ![c] = k]
        /\ proven' = [proven EXCEPT ![c] = {}]
        /\ UNCHANGED <<users, reloads, menu_active, screen>>
        /\ banned' \in BOOLEAN
    BY <1>1, <1>3, ClientFacts DEF AnswerPassword, SetState, Go
  <1>. HIDE DEF k
  <1>. QED  BY <1>4, <1>5, AskedFacts, DialogueGood DEF AnswerPassword

LEMMA AnswerTotpGood ==
    ASSUME GatewayInv, NEW c \in Clients, AnswerTotp(c)
    PROVE  GatewayInv'
  <1>1. PICK code \in Secrets \cup {None} :
            Go(c, [pc |-> "totp", username |-> State(c).username,
                   password |-> State(c).password, code |-> code])
    BY DEF AnswerTotp
  <1>. DEFINE k == [pc |-> "totp", username |-> State(c).username,
                    password |-> State(c).password, code |-> code]
  <1>2. State(c).username \in Names /\ State(c).password \in Passwords
    BY ClientFacts, PromptShape DEF State, AnswerTotp
  <1>3. k \in Calls /\ k.pc = "totp" /\ None \in KeyboardAuthState
    BY <1>2, CallIntro, PromptIntro
  <1>4. proven[c] = {}
    <2>1. Prompting(handler[c], "existing_totp")
      BY DEF AnswerTotp, State, Prompting
    <2>. QED  BY <2>1, AskedFacts, ClientFacts DEF AnswerTotp, GoodClient, NothingProven
  <1>5. DialogueValues(None, k, screen[c], {})
    BY <1>3 DEF DialogueValues
  <1>6. /\ handler' = [handler EXCEPT ![c].keyboard_auth_state = None]
        /\ call' = [call EXCEPT ![c] = k]
        /\ proven' = [proven EXCEPT ![c] = {}]
        /\ UNCHANGED <<users, reloads, menu_active, screen>>
        /\ banned' \in BOOLEAN
    BY <1>1, <1>4, ClientFacts DEF AnswerTotp, SetState, Go
  <1>. HIDE DEF k
  <1>. QED  BY <1>5, <1>6, AskedFacts, DialogueGood DEF AnswerTotp

(* advance_after_initial_auth: the first facts of a dialogue.              *)
LEMMA AdvanceGood ==
    ASSUME GatewayInv, NEW c \in Clients, NEW n \in Names, NEW facts,
           users[n] # None,
           call[c].pc \in {"password", "totp"},
           facts \in {Established(n), Established(n) \cup {<<"totp", n>>}},
           ~users[n].must_change_password /\ users[n].totp_secret # None
               => <<"totp", n>> \in facts,
           Learn(c, facts),
           AdvanceAfterInitialAuth(c, NewContext(n)),
           UNCHANGED <<users, reloads, banned, menu_active, screen>>
    PROVE  GatewayInv'
  <1>. DEFINE x == NewContext(n)
  <1>1. users[n] \in Record
    BY ClientFacts
  <1>2. x \in Context /\ x.name = n /\ x.user = users[n] /\ x.new_password_hash = None
    BY <1>1 DEF NewContext, Context
  <1>3. /\ proven[c] = {}
        /\ handler[c].authenticated_username = None
        /\ banned' \in BOOLEAN
    BY ClientFacts DEF GoodClient, NothingProven, NameKnown
  <1>4. /\ facts \in SUBSET Facts
        /\ <<"password", n>> \in facts
        /\ ~users[n].must_change_password => <<"must_change", n>> \notin facts
    BY DEF Established, Facts
  <1>5. proven' = [proven EXCEPT ![c] = facts]
    BY <1>3 DEF Learn
  <1>. HIDE DEF x
  <1>6. CASE users[n].must_change_password
    <2>. DEFINE st == [await |-> "new_password", context |-> x]
    <2>1. /\ handler' = [handler EXCEPT ![c].keyboard_auth_state = st]
          /\ call' = [call EXCEPT ![c] = Waiting]
      BY <1>6, <1>2 DEF AdvanceAfterInitialAuth, SetState, Go, x
    <2>2. /\ st \in KeyboardAuthState /\ st # None /\ st.await = "new_password" /\ st.context = x
          /\ Waiting \in Calls /\ Waiting.pc = "waiting"
      BY <1>2, PromptIntro, CallIntro DEF Waiting
    <2>. HIDE DEF st
    <2>3. DialogueValues(st, Waiting, screen[c], facts)
      BY <1>2, <1>4, <2>2 DEF DialogueValues, ContextProven
    <2>. QED  BY <1>3, <1>5, <2>1, <2>3, DialogueGood
  <1>7. CASE ~users[n].must_change_password /\ users[n].totp_secret # None
    <2>. DEFINE st == [await |-> "selection", username |-> n]
                k == [pc |-> "show", username |-> n]
    <2>1. /\ handler' = [handler EXCEPT ![c].keyboard_auth_state = st]
          /\ call' = [call EXCEPT ![c] = k]
      BY <1>7, <1>2 DEF AdvanceAfterInitialAuth, PromptSelection, SetState, Go, x
    <2>2. /\ st \in KeyboardAuthState /\ st # None /\ st.await = "selection" /\ st.username = n
          /\ k \in Calls /\ k.pc = "show" /\ k.username = n
      BY PromptIntro, CallIntro
    <2>. HIDE DEF st, k
    <2>3. DialogueValues(st, k, screen[c], facts)
      BY <1>4, <1>7, <2>2 DEF DialogueValues, EarnedBy
    <2>. QED  BY <1>3, <1>5, <2>1, <2>3, DialogueGood
  <1>8. CASE ~users[n].must_change_password /\ users[n].totp_secret = None
    <2>1. PICK t \in FreshSecrets :
              /\ SetState(c, [await |-> "enrollment_totp", context |-> x, secret |-> t])
              /\ Go(c, Waiting)
      BY <1>8, <1>2 DEF AdvanceAfterInitialAuth, PromptEnrollment, x
    <2>. DEFINE st == [await |-> "enrollment_totp", context |-> x, secret |-> t]
    <2>2. /\ handler' = [handler EXCEPT ![c].keyboard_auth_state = st]
          /\ call' = [call EXCEPT ![c] = Waiting]
      BY <2>1 DEF SetState, Go
    <2>3. /\ st \in KeyboardAuthState /\ st # None /\ st.await = "enrollment_totp"
          /\ st.context = x
          /\ Waiting \in Calls /\ Waiting.pc = "waiting"
      BY <1>2, PromptIntro, CallIntro DEF Waiting, FreshSecrets
    <2>. HIDE DEF st
    <2>4. DialogueValues(st, Waiting, screen[c], facts)
      BY <1>2, <1>4, <1>8, <2>3 DEF DialogueValues, ContextProven, ContextComplete
    <2>. QED  BY <1>3, <1>5, <2>2, <2>4, DialogueGood
  <1>9. users[n].must_change_password \in BOOLEAN
    BY <1>1 DEF Record
  <1>. QED  BY <1>6, <1>7, <1>8, <1>9

LEMMA RefuseGood ==
    ASSUME GatewayInv, NEW c \in Clients, Refuse(c),
           call[c].pc \in {"password", "totp"},
           UNCHANGED <<users, reloads, banned, menu_active, screen>>
    PROVE  GatewayInv'
  <1>1. GoodClient(handler[c], menu_active[c], [pc |-> "failure"], screen[c], proven[c],
                   users, reloads)
    <2>1. [pc |-> "failure"] \in Calls /\ proven[c] = {}
      BY CallIntro, ClientFacts DEF GoodClient, NothingProven
    <2>2. ~Prompting(handler[c], "selection")
      BY <2>1, ClientFacts DEF GoodClient, SelectionProven, EarnedBy
    <2>. QED
      BY <2>1, <2>2, ClientFacts DEF GoodClient, ClientTyped, NameKnown, NothingProven,
         ContextsProven, SelectionProven, ScreenCurrent
  <1>. QED  BY <1>1, GoGood, ClientFacts DEF Refuse

LEMMA HandlePasswordResponseGood ==
    ASSUME GatewayInv, NEW c \in Clients, HandlePasswordResponse(c)
    PROVE  GatewayInv'
  <1>. DEFINE n == call[c].username
  <1>1. /\ call[c].pc = "password"
        /\ n \in Names /\ call[c].password \in Passwords
        /\ UNCHANGED <<users, reloads, banned, menu_active, screen>>
    BY ClientFacts, CallShape DEF HandlePasswordResponse
  <1>2. CASE Refuse(c)
    BY <1>1, <1>2, RefuseGood
  <1>3. CASE /\ SetState(c, [await |-> "existing_totp", username |-> n,
                             password |-> call[c].password])
             /\ Go(c, Waiting)
             /\ UNCHANGED proven
    <2>. DEFINE st == [await |-> "existing_totp", username |-> n, password |-> call[c].password]
    <2>1. /\ handler' = [handler EXCEPT ![c].keyboard_auth_state = st]
          /\ call' = [call EXCEPT ![c] = Waiting]
          /\ proven' = [proven EXCEPT ![c] = {}]
          /\ proven[c] = {}
          /\ handler[c].authenticated_username = None
          /\ banned' \in BOOLEAN
      BY <1>1, <1>3, ClientFacts DEF SetState, Go, GoodClient, NothingProven, NameKnown
    <2>2. /\ st \in KeyboardAuthState /\ st.await = "existing_totp"
          /\ Waiting \in Calls /\ Waiting.pc = "waiting"
      BY <1>1, PromptIntro, CallIntro DEF Waiting
    <2>. HIDE DEF st
    <2>3. DialogueValues(st, Waiting, screen[c], {})
      BY <2>2 DEF DialogueValues
    <2>. QED  BY <1>1, <2>1, <2>3, DialogueGood
  <1>4. CASE /\ ~ShouldPromptExistingTotp(users[n])
             /\ Learn(c, Established(n))
             /\ AdvanceAfterInitialAuth(c, NewContext(n))
    <2>1. /\ users[n] # None
          /\ users[n].must_change_password \/ users[n].totp_secret = None
      BY <1>4 DEF ShouldPromptExistingTotp
    <2>. QED  BY <1>1, <1>4, <2>1, AdvanceGood
  <1>. QED  BY <1>2, <1>3, <1>4 DEF HandlePasswordResponse

LEMMA HandleExistingTotpResponseGood ==
    ASSUME GatewayInv, NEW c \in Clients, HandleExistingTotpResponse(c)
    PROVE  GatewayInv'
  <1>. DEFINE n == call[c].username
              facts == Established(n) \cup
                           (IF users[n].totp_secret # None THEN {<<"totp", n>>} ELSE {})
  <1>1. /\ call[c].pc = "totp"
        /\ n \in Names
        /\ UNCHANGED <<users, reloads, banned, menu_active, screen>>
    BY ClientFacts, CallShape DEF HandleExistingTotpResponse
  <1>2. CASE Refuse(c)
    BY <1>1, <1>2, RefuseGood
  <1>3. CASE /\ users[n] # None
             /\ Learn(c, facts)
             /\ AdvanceAfterInitialAuth(c, NewContext(n))
    <2>1. /\ facts \in {Established(n), Established(n) \cup {<<"totp", n>>}}
          /\ users[n].totp_secret # None => <<"totp", n>> \in facts
      OBVIOUS
    <2>. HIDE DEF facts
    <2>. QED  BY <1>1, <1>3, <2>1, AdvanceGood
  <1>. QED  BY <1>2, <1>3 DEF HandleExistingTotpResponse

-----------------------------------------------------------------------------
(* First login.                                                            *)

LEMMA AnswerNewPasswordGood ==
    ASSUME GatewayInv, NEW c \in Clients, AnswerNewPassword(c)
    PROVE  GatewayInv'
  <1>. DEFINE x == State(c).context
  <1>1. PICK q \in Passwords :
            SetState(c, [await |-> "confirm_password", context |-> x, candidate |-> q])
    BY DEF AnswerNewPassword
  <1>. DEFINE st == [await |-> "confirm_password", context |-> x, candidate |-> q]
  <1>2. x \in Context /\ ContextProven(x, proven[c])
    BY ClientFacts, PromptShape DEF AnswerNewPassword, State, GoodClient, ContextsProven, Prompting
  <1>3. st \in KeyboardAuthState /\ st # None /\ st.await = "confirm_password" /\ st.context = x
    BY <1>2, PromptIntro
  <1>4. handler' = [handler EXCEPT ![c].keyboard_auth_state = st]
    BY <1>1 DEF SetState
  <1>5. proven[c] \in SUBSET Facts
    BY ClientFacts DEF GoodClient, ClientTyped
  <1>. HIDE DEF st, x
  <1>6. DialogueValues(st, call[c], screen[c], proven[c])
    BY <1>2, <1>3, <1>5, AskedFacts, ClientFacts DEF DialogueValues, AnswerNewPassword
  <1>7. /\ call' = [call EXCEPT ![c] = call[c]]
        /\ proven' = [proven EXCEPT ![c] = proven[c]]
        /\ UNCHANGED <<users, reloads, menu_active, screen>>
        /\ banned' \in BOOLEAN
    BY ClientFacts DEF AnswerNewPassword
  <1>8. Asked(c)
    BY DEF AnswerNewPassword
  <1>. QED  BY <1>4, <1>6, <1>7, <1>8, AskedFacts, DialogueGood

LEMMA AnswerConfirmPasswordGood ==
    ASSUME GatewayInv, NEW c \in Clients, AnswerConfirmPassword(c)
    PROVE  GatewayInv'
  <1>. DEFINE x == State(c).context
              q == State(c).candidate
              y == [x EXCEPT !.new_password_hash = q]
  <1>1. x \in Context /\ q \in Passwords /\ ContextProven(x, proven[c])
    BY ClientFacts, PromptShape
    DEF AnswerConfirmPassword, State, GoodClient, ContextsProven, Prompting
  <1>2. /\ Asked(c)
        /\ UNCHANGED <<users, reloads, menu_active, screen>>
        /\ banned' \in BOOLEAN
        /\ proven' = [proven EXCEPT ![c] = proven[c]]
        /\ proven[c] \in SUBSET Facts
    BY ClientFacts DEF AnswerConfirmPassword, GoodClient, ClientTyped
  <1>3. CASE SetState(c, [await |-> "new_password", context |-> x]) /\ UNCHANGED call
    <2>. DEFINE st == [await |-> "new_password", context |-> x]
    <2>1. st \in KeyboardAuthState /\ st # None /\ st.await = "new_password" /\ st.context = x
      BY <1>1, PromptIntro
    <2>2. /\ handler' = [handler EXCEPT ![c].keyboard_auth_state = st]
          /\ call' = [call EXCEPT ![c] = call[c]]
      BY <1>3, ClientFacts DEF SetState
    <2>. HIDE DEF st, x
    <2>3. DialogueValues(st, call[c], screen[c], proven[c])
      BY <1>1, <1>2, <2>1, AskedFacts, ClientFacts DEF DialogueValues
    <2>. QED  BY <1>2, <2>2, <2>3, AskedFacts, DialogueGood
  <1>4. CASE PromptEnrollment(c, y)
    <2>1. PICK t \in FreshSecrets :
              SetState(c, [await |-> "enrollment_totp", context |-> y, secret |-> t])
      BY <1>4 DEF PromptEnrollment
    <2>. DEFINE st == [await |-> "enrollment_totp", context |-> y, secret |-> t]
    <2>2. y \in Context /\ y.name = x.name /\ y.new_password_hash = q /\ q # None
      BY <1>1, NoneAssumption DEF Context
    <2>3. /\ st \in KeyboardAuthState /\ st # None /\ st.await = "enrollment_totp"
          /\ st.context = y
          /\ Waiting \in Calls /\ Waiting.pc = "waiting"
      BY <2>2, PromptIntro, CallIntro DEF Waiting, FreshSecrets
    <2>4. /\ handler' = [handler EXCEPT ![c].keyboard_auth_state = st]
          /\ call' = [call EXCEPT ![c] = Waiting]
      BY <1>4, <2>1 DEF PromptEnrollment, SetState, Go
    <2>. HIDE DEF st, x, y, q
    <2>5. DialogueValues(st, Waiting, screen[c], proven[c])
      BY <1>1, <1>2, <2>2, <2>3 DEF DialogueValues, ContextProven, ContextComplete
    <2>. QED  BY <1>2, <2>4, <2>5, AskedFacts, DialogueGood
  <1>. QED  BY <1>3, <1>4 DEF AnswerConfirmPassword

LEMMA AnswerEnrollmentTotpGood ==
    ASSUME GatewayInv, NEW c \in Clients, AnswerEnrollmentTotp(c)
    PROVE  GatewayInv'
  <1>. DEFINE x == State(c).context
              t == State(c).secret
  <1>1. /\ x \in Context /\ t \in Secrets
        /\ Prompting(handler[c], "enrollment_totp")
        /\ ContextComplete(x, proven[c])
    BY ClientFacts, PromptShape
    DEF AnswerEnrollmentTotp, State, GoodClient, ContextsProven, Prompting
  <1>2. /\ Asked(c)
        /\ UNCHANGED <<users, reloads, menu_active, screen>>
        /\ banned' \in BOOLEAN
        /\ proven[c] \in SUBSET Facts
    BY ClientFacts DEF AnswerEnrollmentTotp, GoodClient, ClientTyped
  <1>3. CASE /\ Go(c, [pc |-> "commit", context |-> x, secret |-> t])
             /\ SetState(c, None)
             /\ Learn(c, {<<"code", t>>})
    <2>. DEFINE k == [pc |-> "commit", context |-> x, secret |-> t]
                p == proven[c] \cup {<<"code", t>>}
    <2>1. k \in Calls /\ k.pc = "commit" /\ k.context = x /\ k.secret = t
      BY <1>1, CallIntro
    <2>2. /\ p \in SUBSET Facts /\ <<"code", t>> \in p
          /\ ContextComplete(x, p)
      BY <1>1, <1>2 DEF Facts, ContextComplete, ContextProven
    <2>3. /\ handler' = [handler EXCEPT ![c].keyboard_auth_state = None]
          /\ call' = [call EXCEPT ![c] = k]
          /\ proven' = [proven EXCEPT ![c] = p]
      BY <1>3 DEF SetState, Go, Learn
    <2>. HIDE DEF k, p, x, t
    <2>4. DialogueValues(None, k, screen[c], p)
      BY <2>1, <2>2, PromptIntro DEF DialogueValues
    <2>. QED  BY <1>2, <2>3, <2>4, AskedFacts, DialogueGood
  <1>4. CASE Go(c, [pc |-> "failure"]) /\ UNCHANGED <<handler, proven>>
    <2>1. GoodClient(handler[c], menu_active[c], [pc |-> "failure"], screen[c], proven[c],
                     users, reloads)
      <3>1. /\ call[c].pc = "waiting" /\ [pc |-> "failure"] \in Calls
            /\ ~Prompting(handler[c], "password") /\ ~Prompting(handler[c], "existing_totp")
            /\ handler[c].keyboard_auth_state # None
        BY <1>1, <1>2, CallIntro, AskedFacts DEF Prompting
      <3>. QED
        BY <3>1, ClientFacts DEF GoodClient, ClientTyped, NameKnown, NothingProven,
           ContextsProven, SelectionProven, ScreenCurrent
    <2>. QED  BY <1>2, <1>4, <2>1, GoGood
  <1>. QED  BY <1>3, <1>4 DEF AnswerEnrollmentTotp

(* update_user_credentials changes no list of servers.                     *)
LEMMA UpdatedRecord ==
    ASSUME NEW r \in Record, NEW x \in Context, NEW t \in Secrets
    PROVE  /\ Updated(r, x, t) \in Record
           /\ Updated(r, x, t) # None
           /\ Updated(r, x, t).allowed_servers = r.allowed_servers
           /\ Updated(r, x, t).totp_secret = t
  <1>1. Updated(r, x, t) \in Record
    BY DEF Updated, Record, Context
  <1>. QED  BY <1>1, NoneAssumption DEF Updated, Record

LEMMA CommitPendingUpdatesGood ==
    ASSUME GatewayInv, NEW c \in Clients, CommitPendingUpdates(c)
    PROVE  GatewayInv'
  <1>. DEFINE x == call[c].context
              n == x.name
              t == call[c].secret
  <1>1. /\ x \in Context /\ n \in Names /\ t \in Secrets
        /\ ContextComplete(x, proven[c])
        /\ proven[c] \in SUBSET Facts
        /\ handler[c].authenticated_username = None
        /\ call[c].pc = "commit"
        /\ UNCHANGED <<reloads, banned, screen>>
    BY ClientFacts, CallShape DEF CommitPendingUpdates, GoodClient, ClientTyped, ContextsProven,
       NameKnown, Context
  <1>2. CASE users[n] = None /\ Close(c) /\ UNCHANGED users
    BY <1>1, <1>2, CloseGood, ClientFacts
  <1>3. CASE users[n] # None /\ users' = [users EXCEPT ![n] = Updated(@, x, t)]
    <2>1. users[n] \in Record /\ users \in [Names -> Record \cup {None}]
      BY <1>1, <1>3, ClientFacts
    <2>2. users' \in [Names -> Record \cup {None}]
      BY <1>1, <1>3, <2>1, UpdatedRecord
    <2>3. \A m \in Names : EntriesIn(users', m) = EntriesIn(users, m)
      <3>. SUFFICES ASSUME NEW m \in Names PROVE EntriesIn(users', m) = EntriesIn(users, m)
        OBVIOUS
      <3>1. CASE m = n
        <4>1. users'[m] = Updated(users[n], x, t)
          BY <1>1, <1>3, <2>1, <3>1
        <4>. QED  BY <1>1, <1>3, <2>1, <3>1, <4>1, UpdatedRecord DEF EntriesIn
      <3>2. CASE m # n
        BY <1>3, <2>1, <3>2 DEF EntriesIn
      <3>. QED  BY <3>1, <3>2
    <2>4. CASE Close(c)
      BY <1>1, <2>2, <2>3, <2>4, CloseGood
    <2>5. CASE /\ PromptSelection(c, n)
               /\ Learn(c, {<<"stored", n>>} \cup
                           (IF x.new_password_hash = None THEN {} ELSE {<<"changed", n>>}))
               /\ UNCHANGED menu_active
      <3>. DEFINE st == [await |-> "selection", username |-> n]
                  k == [pc |-> "show", username |-> n]
                  p == proven[c] \cup {<<"stored", n>>} \cup
                           (IF x.new_password_hash = None THEN {} ELSE {<<"changed", n>>})
                  h == [handler[c] EXCEPT !.keyboard_auth_state = st]
      <3>1. /\ st \in KeyboardAuthState /\ st # None /\ st.await = "selection" /\ st.username = n
            /\ k \in Calls /\ k.pc = "show" /\ k.username = n
        BY <1>1, PromptIntro, CallIntro
      <3>2. p \in SUBSET Facts /\ EarnedBy(n, p)
        BY <1>1 DEF Facts, EarnedBy, ContextComplete, ContextProven
      <3>3. /\ handler' = [handler EXCEPT ![c] = h]
            /\ call' = [call EXCEPT ![c] = k]
            /\ proven' = [proven EXCEPT ![c] = p]
            /\ menu_active' = [menu_active EXCEPT ![c] = menu_active[c]]
            /\ screen' = [screen EXCEPT ![c] = screen[c]]
        BY <1>1, <2>5, ClientFacts DEF PromptSelection, SetState, Go, Learn
      <3>. HIDE DEF st, k, p
      <3>4. DialogueValues(st, k, screen[c], p)
        BY <3>1, <3>2 DEF DialogueValues
      <3>5. GoodClient(h, menu_active[c], k, screen[c], p, users, reloads)
        BY <1>1, <3>4, DialogueClient
      <3>6. banned' \in BOOLEAN /\ reloads' = reloads
        BY <1>1, ClientFacts
      <3>. HIDE DEF h
      <3>. QED  BY <2>2, <2>3, <3>3, <3>5, <3>6, StepOfOne
    <2>. QED  BY <1>3, <2>4, <2>5 DEF CommitPendingUpdates
  <1>. QED  BY <1>1, <1>2, <1>3 DEF CommitPendingUpdates

-----------------------------------------------------------------------------
(* Selection.                                                              *)

(* Who may select; the name a connection selects for.                      *)
LEMMA EntriesServed ==
    ASSUME GatewayInv, NEW n \in Names
    PROVE  /\ AllowedServerEntries(n) = EntriesIn(users, n)
           /\ EntriesIn(users, n) \in Seq(Targets)
  <1>1. users[n] \in Record \cup {None}
    BY DEF GatewayInv, TypeOK
  <1>. QED  BY <1>1 DEF AllowedServerEntries, EntriesIn, Record

LEMMA SelectionPromptGood ==
    ASSUME GatewayInv, NEW c \in Clients, SelectionPrompt(c)
    PROVE  GatewayInv'
  <1>. DEFINE n == call[c].username
              s == [entries |-> EntriesIn(users, n), reloads |-> reloads]
  <1>1. /\ call[c].pc = "show" /\ n \in Names
        /\ UNCHANGED <<users, reloads, banned>>
    BY ClientFacts, CallShape DEF SelectionPrompt
  <1>2. CASE Close(c) /\ UNCHANGED screen
    BY <1>1, <1>2, CloseGood, ClientFacts
  <1>3. CASE /\ screen' = [screen EXCEPT ![c] = s]
             /\ Go(c, Waiting)
             /\ UNCHANGED <<handler, menu_active, proven>>
    <2>1. /\ s \in [entries : Seq(Targets), reloads : Nat]
          /\ s.reloads = reloads /\ s.entries = EntriesIn(users, n) /\ reloads \in Nat
      BY <1>1, EntriesServed DEF GatewayInv, TypeOK
    <2>. HIDE DEF s
    <2>2. GoodClient(handler[c], menu_active[c], Waiting, s, proven[c], users, reloads)
      <3>1. GoodClient(handler[c], menu_active[c], call[c], screen[c], proven[c], users, reloads)
        BY ClientFacts
      <3>2. Waiting \in Calls /\ Waiting.pc = "waiting"
        BY CallIntro DEF Waiting
      <3>3. IF handler[c].authenticated_username # None
            THEN n = handler[c].authenticated_username
            ELSE Prompting(handler[c], "selection") /\ handler[c].keyboard_auth_state.username = n
        BY <1>1, <3>1 DEF GoodClient, NameKnown
      <3>4. NameKnown(handler[c], menu_active[c], Waiting)
        BY <3>1, <3>2 DEF GoodClient, NameKnown
      <3>5. NothingProven(handler[c], Waiting, proven[c])
        BY <3>2, <3>3 DEF NothingProven, Prompting
      <3>6. ScreenCurrent(handler[c], Waiting, s, users, reloads)
        BY <2>1, <3>2, <3>3 DEF ScreenCurrent, Shows
      <3>. QED
        BY <2>1, <3>1, <3>2, <3>4, <3>5, <3>6 DEF GoodClient, ClientTyped, ContextsProven,
           SelectionProven
    <2>3. /\ menu_active' = [menu_active EXCEPT ![c] = menu_active[c]]
          /\ call' = [call EXCEPT ![c] = Waiting]
          /\ UNCHANGED <<users, reloads, banned, handler, proven>>
      BY <1>1, <1>3, ClientFacts DEF Go
    <2>. QED  BY <1>3, <2>2, <2>3, MenuStep
  <1>. QED  BY <1>1, <1>2, <1>3, EntriesServed DEF SelectionPrompt

(* An entry that is chosen is a target.                                    *)
LEMMA ChosenTarget ==
    ASSUME NEW e \in Seq(Targets), NEW i \in 1 .. Len(e)
    PROVE  Chosen(e, i) \in Targets
  BY DEF Chosen

LEMMA ChoiceIsNat == Choices \subseteq Nat
  BY TargetsAssumption, FS_CardinalityType DEF Choices

LEMMA AnswerSelectionGood ==
    ASSUME GatewayInv, NEW c \in Clients, AnswerSelection(c)
    PROVE  GatewayInv'
  <1>. DEFINE n == State(c).username
  <1>1. /\ Asked(c) /\ Prompting(handler[c], "selection")
        /\ n \in Names
        /\ UNCHANGED <<users, reloads, banned, screen>>
        /\ banned' \in BOOLEAN
        /\ proven[c] \in SUBSET Facts
    BY ClientFacts, PromptShape DEF AnswerSelection, State, Prompting, GoodClient, ClientTyped
  <1>2. CASE Close(c)
    BY <1>1, <1>2, CloseGood, ClientFacts
  <1>3. ASSUME NEW i \in Choices,
               Go(c, [pc |-> "select", username |-> n, choice |-> i]),
               SetState(c, None),
               UNCHANGED <<menu_active, proven>>
        PROVE  GatewayInv'
    <2>. DEFINE k == [pc |-> "select", username |-> n, choice |-> i]
    <2>1. k \in Calls /\ k.pc = "select" /\ k.username = n
      BY <1>1, CallIntro, ChoiceIsNat
    <2>2. EarnedBy(n, proven[c]) /\ Shows(screen[c], users, reloads, n)
      BY <1>1, AskedFacts, ClientFacts DEF GoodClient, SelectionProven, ScreenCurrent, State
    <2>3. /\ handler' = [handler EXCEPT ![c].keyboard_auth_state = None]
          /\ call' = [call EXCEPT ![c] = k]
          /\ proven' = [proven EXCEPT ![c] = proven[c]]
          /\ UNCHANGED <<users, reloads, menu_active, screen>>
      BY <1>1, <1>3, ClientFacts DEF SetState, Go
    <2>. HIDE DEF k, n
    <2>4. DialogueValues(None, k, screen[c], proven[c])
      BY <1>1, <2>1, <2>2, PromptIntro DEF DialogueValues
    <2>. QED  BY <1>1, <2>3, <2>4, AskedFacts, DialogueGood
  <1>. QED  BY <1>2, <1>3 DEF AnswerSelection

LEMMA HandleSelectionResponseGood ==
    ASSUME GatewayInv, NEW c \in Clients, HandleSelectionResponse(c)
    PROVE  GatewayInv'
  <1>. DEFINE n == call[c].username
              e == EntriesIn(users, n)
              i == call[c].choice
  <1>1. /\ call[c].pc = "select" /\ n \in Names
        /\ handler[c].authenticated_username = None
        /\ EarnedBy(n, proven[c]) /\ Shows(screen[c], users, reloads, n)
        /\ proven[c] \in SUBSET Facts
        /\ UNCHANGED <<users, reloads, banned, screen>>
        /\ banned' \in BOOLEAN
    BY ClientFacts, CallShape DEF HandleSelectionResponse, GoodClient, ClientTyped, NameKnown,
       SelectionProven, ScreenCurrent
  <1>2. e = AllowedServerEntries(n) /\ e \in Seq(Targets)
    BY <1>1, EntriesServed
  <1>3. CASE Close(c)
    BY <1>1, <1>3, CloseGood, ClientFacts
  <1>4. CASE PromptSelection(c, n) /\ UNCHANGED <<menu_active, proven>>
    <2>. DEFINE st == [await |-> "selection", username |-> n]
                k == [pc |-> "show", username |-> n]
    <2>1. /\ st \in KeyboardAuthState /\ st # None /\ st.await = "selection" /\ st.username = n
          /\ k \in Calls /\ k.pc = "show" /\ k.username = n
      BY <1>1, PromptIntro, CallIntro
    <2>2. /\ handler' = [handler EXCEPT ![c].keyboard_auth_state = st]
          /\ call' = [call EXCEPT ![c] = k]
          /\ proven' = [proven EXCEPT ![c] = proven[c]]
          /\ UNCHANGED <<users, reloads, menu_active, screen>>
      BY <1>1, <1>4, ClientFacts DEF PromptSelection, SetState, Go
    <2>. HIDE DEF st, k, n
    <2>3. DialogueValues(st, k, screen[c], proven[c])
      BY <1>1, <2>1 DEF DialogueValues
    <2>. QED  BY <1>1, <2>2, <2>3, DialogueGood
  <1>5. CASE /\ i \in 1 .. Len(e)
             /\ handler' = [handler EXCEPT ![c].pending_target = Chosen(e, i),
                                           ![c].authenticated_username = n]
             /\ Go(c, [pc |-> "connect", target |-> Chosen(e, i)])
             /\ UNCHANGED <<menu_active, proven>>
    <2>. DEFINE h == [handler[c] EXCEPT !.pending_target = Chosen(e, i),
                                        !.authenticated_username = n]
                k == [pc |-> "connect", target |-> Chosen(e, i)]
    <2>1. Chosen(e, i) \in Targets
      BY <1>2, <1>5, ChosenTarget
    <2>2. k \in Calls /\ k.pc = "connect"
      BY <2>1, CallIntro
    <2>3. GoodClient(handler[c], menu_active[c], call[c], screen[c], proven[c], users, reloads)
      BY ClientFacts
    <2>4. /\ h \in Handler
          /\ h.keyboard_auth_state = handler[c].keyboard_auth_state
          /\ h.authenticated_username = n /\ n # None
          /\ h.proxy_session = handler[c].proxy_session
      BY <1>1, <2>1, ClientFacts, NoneAssumption DEF Handler
    <2>5. /\ handler' = [handler EXCEPT ![c] = h]
          /\ call' = [call EXCEPT ![c] = k]
          /\ proven' = [proven EXCEPT ![c] = proven[c]]
          /\ UNCHANGED <<users, reloads, menu_active, screen>>
      BY <1>1, <1>5, ClientFacts DEF Go
    <2>. HIDE DEF h, k, n
    <2>6. GoodClient(h, menu_active[c], k, screen[c], proven[c], users, reloads)
      BY <1>1, <2>2, <2>3, <2>4 DEF GoodClient, ClientTyped, NameKnown, NothingProven,
         ContextsProven, SelectionProven, ScreenCurrent, Prompting
    <2>. QED  BY <1>1, <2>5, <2>6, DialogueStep
  <1>. QED  BY <1>1, <1>2, <1>3, <1>4, <1>5 DEF HandleSelectionResponse

LEMMA ConnectSelectedTargetGood ==
    ASSUME GatewayInv, NEW c \in Clients, ConnectSelectedTarget(c)
    PROVE  GatewayInv'
  <1>. DEFINE t == call[c].target
  <1>1. /\ call[c].pc = "connect" /\ t \in Targets
        /\ UNCHANGED <<users, reloads, banned, screen>>
        /\ banned' \in BOOLEAN
    BY ClientFacts, CallShape DEF ConnectSelectedTarget
  <1>2. CASE Close(c)
    BY <1>1, <1>2, CloseGood, ClientFacts
  <1>3. CASE /\ \/ handler' = [handler EXCEPT ![c].active_policy = t, ![c].proxy_session = t]
                \/ handler' = [handler EXCEPT ![c].active_policy = None]
             /\ Go(c, Waiting)
             /\ UNCHANGED <<menu_active, proven>>
    <2>. DEFINE h == handler'[c]
    <2>1. GoodClient(handler[c], menu_active[c], call[c], screen[c], proven[c], users, reloads)
      BY ClientFacts
    <2>2. /\ h \in Handler
          /\ h.keyboard_auth_state = handler[c].keyboard_auth_state
          /\ h.authenticated_username = handler[c].authenticated_username
          /\ handler' = [handler EXCEPT ![c] = h]
      BY <1>1, <1>3, ClientFacts DEF Handler
    <2>3. Waiting \in Calls /\ Waiting.pc = "waiting"
      BY CallIntro DEF Waiting
    <2>4. /\ call' = [call EXCEPT ![c] = Waiting]
          /\ proven' = [proven EXCEPT ![c] = proven[c]]
          /\ UNCHANGED <<users, reloads, menu_active, screen>>
      BY <1>1, <1>3, ClientFacts DEF Go
    <2>5. handler[c].authenticated_username # None
      BY <1>1, <2>1 DEF GoodClient, NameKnown
    <2>. HIDE DEF h
    <2>6. GoodClient(h, menu_active[c], Waiting, screen[c], proven[c], users, reloads)
      BY <1>1, <2>1, <2>2, <2>3, <2>5 DEF GoodClient, ClientTyped, NameKnown, NothingProven,
         ContextsProven, SelectionProven, ScreenCurrent, Prompting
    <2>. QED  BY <1>1, <2>2, <2>4, <2>6, DialogueStep
  <1>. QED  BY <1>2, <1>3 DEF ConnectSelectedTarget

-----------------------------------------------------------------------------
(* The menu.                                                               *)

LEMMA ActivateMenuGood ==
    ASSUME GatewayInv, NEW c \in Clients, ActivateMenu(c)
    PROVE  GatewayInv'
  <1>. DEFINE n == handler[c].authenticated_username
              e == EntriesIn(users, n)
              s == IF e = << >> THEN screen[c] ELSE [entries |-> e, reloads |-> reloads]
  <1>1. /\ call[c] = Waiting /\ call[c].pc = "waiting"
        /\ n # None /\ n \in Names
        /\ GoodClient(handler[c], menu_active[c], call[c], screen[c], proven[c], users, reloads)
        /\ UNCHANGED <<users, reloads, banned, handler, call, proven>>
    BY ClientFacts DEF ActivateMenu, GoodClient, NameKnown, Waiting
  <1>2. e = AllowedServerEntries(n) /\ e \in Seq(Targets)
    BY <1>1, EntriesServed
  <1>3. /\ menu_active' = [menu_active EXCEPT ![c] = TRUE]
        /\ call' = [call EXCEPT ![c] = call[c]]
        /\ screen' = [screen EXCEPT ![c] = s]
    BY <1>1, <1>2, ClientFacts DEF ActivateMenu
  <1>4. /\ s \in [entries : Seq(Targets), reloads : Nat]
        /\ s.reloads <= reloads
        /\ Shows(s, users, reloads, n)
    BY <1>1, <1>2 DEF GatewayInv, TypeOK, GoodClient, ClientTyped, ScreenCurrent, Shows
  <1>. HIDE DEF s
  <1>5. GoodClient(handler[c], TRUE, call[c], s, proven[c], users, reloads)
    BY <1>1, <1>4 DEF GoodClient, ClientTyped, NameKnown, ScreenCurrent
  <1>. QED  BY <1>1, <1>3, <1>5, MenuStep

LEMMA MenuLineGood ==
    ASSUME GatewayInv, NEW c \in Clients, MenuLine(c)
    PROVE  GatewayInv'
  <1>0. /\ call[c].pc = "waiting" /\ menu_active[c]
        /\ UNCHANGED <<users, reloads, banned, screen>>
    BY DEF MenuLine, Waiting
  <1>1. /\ banned' \in BOOLEAN
        /\ GoodClient(handler[c], menu_active[c], call[c], screen[c], proven[c], users, reloads)
    BY <1>0, ClientFacts
  <1>2. CASE Close(c)
    BY <1>0, <1>2, CloseGood, ClientFacts
  <1>3. ASSUME NEW i \in Choices,
               Go(c, [pc |-> "menu_select", choice |-> i]),
               UNCHANGED <<handler, menu_active, proven>>
        PROVE  GatewayInv'
    <2>. DEFINE k == [pc |-> "menu_select", choice |-> i]
    <2>1. k \in Calls /\ k.pc = "menu_select" /\ Go(c, k)
      BY <1>3, CallIntro, ChoiceIsNat
    <2>. HIDE DEF k
    <2>2. GoodClient(handler[c], menu_active[c], k, screen[c], proven[c], users, reloads)
      BY <1>0, <1>1, <2>1 DEF GoodClient, ClientTyped, NameKnown, NothingProven, ContextsProven,
         SelectionProven, ScreenCurrent
    <2>3. UNCHANGED <<users, reloads, handler, menu_active, screen, proven>>
      BY <1>0, <1>3
    <2>. QED  BY <1>1, <2>1, <2>2, <2>3, GoGood
  <1>. QED  BY <1>2, <1>3 DEF MenuLine

LEMMA MenuSelectGood ==
    ASSUME GatewayInv, NEW c \in Clients, MenuSelect(c)
    PROVE  GatewayInv'
  <1>. DEFINE n == handler[c].authenticated_username
              e == EntriesIn(users, n)
              i == call[c].choice
  <1>1. /\ call[c].pc = "menu_select" /\ n # None /\ n \in Names
        /\ UNCHANGED <<users, reloads, banned, screen>>
        /\ banned' \in BOOLEAN
        /\ GoodClient(handler[c], menu_active[c], call[c], screen[c], proven[c], users, reloads)
    BY ClientFacts DEF MenuSelect, GoodClient, NameKnown
  <1>2. e = AllowedServerEntries(n) /\ e \in Seq(Targets)
    BY <1>1, EntriesServed
  <1>3. CASE Close(c)
    BY <1>1, <1>3, CloseGood, ClientFacts
  <1>4. CASE /\ Go(c, [pc |-> "show", username |-> n])
             /\ UNCHANGED <<handler, menu_active, proven>>
    <2>. DEFINE k == [pc |-> "show", username |-> n]
    <2>1. k \in Calls /\ k.pc = "show" /\ k.username = n /\ Go(c, k)
      BY <1>1, <1>4, CallIntro
    <2>. HIDE DEF k
    <2>2. GoodClient(handler[c], menu_active[c], k, screen[c], proven[c], users, reloads)
      BY <1>1, <2>1 DEF GoodClient, ClientTyped, NameKnown, NothingProven, ContextsProven,
         SelectionProven, ScreenCurrent
    <2>. QED  BY <1>1, <1>4, <2>1, <2>2, GoGood
  <1>5. CASE /\ i \in 1 .. Len(e)
             /\ menu_active' = [menu_active EXCEPT ![c] = FALSE]
             /\ Go(c, [pc |-> "connect", target |-> Chosen(e, i)])
             /\ UNCHANGED <<handler, proven>>
    <2>. DEFINE k == [pc |-> "connect", target |-> Chosen(e, i)]
    <2>1. k \in Calls /\ k.pc = "connect"
      BY <1>2, <1>5, ChosenTarget, CallIntro
    <2>2. /\ menu_active' = [menu_active EXCEPT ![c] = FALSE]
          /\ call' = [call EXCEPT ![c] = k]
          /\ screen' = [screen EXCEPT ![c] = screen[c]]
          /\ UNCHANGED <<users, reloads, banned, handler, proven>>
      BY <1>1, <1>5, ClientFacts DEF Go
    <2>. HIDE DEF k
    <2>3. GoodClient(handler[c], FALSE, k, screen[c], proven[c], users, reloads)
      BY <1>1, <2>1 DEF GoodClient, ClientTyped, NameKnown, NothingProven, ContextsProven,
         SelectionProven, ScreenCurrent
    <2>. QED  BY <2>2, <2>3, MenuStep
  <1>. QED  BY <1>1, <1>2, <1>3, <1>4, <1>5 DEF MenuSelect

-----------------------------------------------------------------------------
(* Outside the connections.                                                *)

(* No screen was shown after a snapshot that is only served now.           *)
LEMMA ReloadGood ==
    ASSUME GatewayInv, Reload
    PROVE  GatewayInv'
  <1>1. TypeOK'
    BY TablesAssumption, BoundAssumption DEF Reload, GatewayInv, TypeOK
  <1>2. ASSUME NEW c \in Clients
        PROVE  Client(c)'
    <2>1. GoodClient(handler[c], menu_active[c], call[c], screen[c], proven[c], users, reloads)
      BY ClientFacts
    <2>2. /\ screen[c].reloads \in Nat /\ reloads \in Nat /\ reloads' = reloads + 1
          /\ screen[c].reloads <= reloads
          /\ UNCHANGED <<handler, menu_active, call, screen, proven>>
      BY <2>1 DEF GatewayInv, TypeOK, Reload, GoodClient, ScreenCurrent
    <2>3. screen[c].reloads <= reloads' /\ screen[c].reloads # reloads'
      BY <2>2
    <2>4. ScreenCurrent(handler[c], call[c], screen[c], users', reloads')
      BY <2>3 DEF ScreenCurrent, Shows
    <2>5. GoodClient(handler[c], menu_active[c], call[c], screen[c], proven[c], users', reloads')
      BY <2>1, <2>4 DEF GoodClient
    <2>. QED  BY <2>2, <2>5 DEF Client
  <1>. QED  BY <1>1, <1>2 DEF GatewayInv

(* A step that changes at most the ban.                                    *)
LEMMA BanGood ==
    ASSUME GatewayInv, banned' \in BOOLEAN,
           UNCHANGED <<users, reloads, handler, menu_active, call, screen, proven>>
    PROVE  GatewayInv'
  <1>1. TypeOK'
    BY DEF GatewayInv, TypeOK
  <1>2. ASSUME NEW c \in Clients
        PROVE  Client(c)'
    BY DEF GatewayInv, Client
  <1>. QED  BY <1>1, <1>2 DEF GatewayInv

-----------------------------------------------------------------------------
(* Every step.                                                             *)

LEMMA InitGood == Init => GatewayInv
  <1>. SUFFICES ASSUME Init PROVE GatewayInv
    OBVIOUS
  <1>1. /\ NewClient \in Handler
        /\ NewClient.keyboard_auth_state = None
        /\ NewClient.authenticated_username = None
        /\ NewClient.proxy_session = None
    BY PromptIntro DEF NewClient, Handler
  <1>2. Waiting \in Calls /\ Waiting.pc = "waiting"
    BY CallIntro DEF Waiting
  <1>. DEFINE blank == [entries |-> << >>, reloads |-> 0]
  <1>3. blank \in [entries : Seq(Targets), reloads : Nat] /\ blank.reloads = 0
    OBVIOUS
  <1>. HIDE DEF blank
  <1>4. TypeOK
    <2>1. screen = [c \in Clients |-> blank]
      BY DEF Init, blank
    <2>2. screen \in [Clients -> [entries : Seq(Targets), reloads : Nat]]
      BY <1>3, <2>1
    <2>3. users \in [Names -> Record \cup {None}]
      BY TablesAssumption DEF Init
    <2>4. reloads \in 0 .. MaxReloads /\ banned \in BOOLEAN
      <3>1. reloads = 0 /\ banned = FALSE
        BY DEF Init
      <3>2. 0 \in 0 .. MaxReloads
        BY BoundAssumption
      <3>. QED  BY <3>1, <3>2
    <2>5. handler \in [Clients -> Handler] /\ call \in [Clients -> Calls]
      BY <1>1, <1>2 DEF Init
    <2>6. menu_active \in [Clients -> BOOLEAN] /\ proven \in [Clients -> SUBSET Facts]
      BY DEF Init
    <2>. QED  BY <2>2, <2>3, <2>4, <2>5, <2>6 DEF TypeOK
  <1>5. ASSUME NEW c \in Clients
        PROVE  Client(c)
    <2>1. /\ handler[c] = NewClient /\ menu_active[c] = FALSE /\ call[c] = Waiting
          /\ proven[c] = {} /\ reloads = 0 /\ screen[c] = blank
      BY DEF Init, blank
    <2>2. GoodClient(NewClient, FALSE, Waiting, blank, {}, users, 0)
      BY <1>1, <1>2, <1>3 DEF GoodClient, ClientTyped, NameKnown, NothingProven,
         ContextsProven, SelectionProven, ScreenCurrent, Prompting
    <2>. QED  BY <2>1, <2>2 DEF Client
  <1>. QED  BY <1>4, <1>5 DEF GatewayInv

LEMMA NextGood == GatewayInv /\ [Next]_vars => GatewayInv'
  <1>. SUFFICES ASSUME GatewayInv, [Next]_vars PROVE GatewayInv'
    OBVIOUS
  <1>1. CASE UNCHANGED vars
    <2>1. UNCHANGED <<users, reloads, banned, handler, menu_active, call, screen, proven>>
      BY <1>1 DEF vars
    <2>2. banned' \in BOOLEAN
      BY <2>1 DEF GatewayInv, TypeOK
    <2>. QED  BY <2>1, <2>2, BanGood
  <1>2. CASE Reload
    BY <1>2, ReloadGood
  <1>3. CASE BanEnds
    BY <1>3, BanGood DEF BanEnds
  <1>4. ASSUME NEW c \in Clients,
               \/ Connect(c) \/ HangUp(c) \/ StartOver(c) \/ EmptyName(c)
               \/ AnswerPassword(c) \/ AnswerTotp(c) \/ RecordFailure(c)
               \/ HandlePasswordResponse(c) \/ HandleExistingTotpResponse(c)
        PROVE  GatewayInv'
    BY <1>4, ConnectGood, HangUpGood, StartOverGood, FailureGood, AnswerPasswordGood,
       AnswerTotpGood, HandlePasswordResponseGood, HandleExistingTotpResponseGood
  <1>5. ASSUME NEW c \in Clients,
               \/ AnswerNewPassword(c) \/ AnswerConfirmPassword(c)
               \/ AnswerEnrollmentTotp(c) \/ CommitPendingUpdates(c)
        PROVE  GatewayInv'
    BY <1>5, AnswerNewPasswordGood, AnswerConfirmPasswordGood, AnswerEnrollmentTotpGood,
       CommitPendingUpdatesGood
  <1>6. ASSUME NEW c \in Clients,
               \/ SelectionPrompt(c) \/ AnswerSelection(c) \/ HandleSelectionResponse(c)
               \/ ConnectSelectedTarget(c) \/ ActivateMenu(c) \/ MenuLine(c) \/ MenuSelect(c)
        PROVE  GatewayInv'
    BY <1>6, SelectionPromptGood, AnswerSelectionGood, HandleSelectionResponseGood,
       ConnectSelectedTargetGood, ActivateMenuGood, MenuLineGood, MenuSelectGood
  <1>. QED  BY <1>1, <1>2, <1>3, <1>4, <1>5, <1>6 DEF Next

(* GatewayInv is an inductive invariant.                                   *)
THEOREM GatewayInvariant == Spec => []GatewayInv
  BY InitGood, NextGood, PTL DEF Spec

-----------------------------------------------------------------------------
(* Invariants.                                                             *)

(***************************************************************************)
(* Type correctness: every variable keeps to its set, whatever the tables  *)
(* a reload brings and however the callbacks of the connections interleave.*)
(***************************************************************************)
THEOREM TypeCorrect == Spec => []TypeOK
  BY GatewayInvariant, PTL DEF GatewayInv

(***************************************************************************)
(* Whoever advance_after_initial_auth, commit_pending_updates or           *)
(* handle_selection_response lets select a target has given that user's    *)
(* password in this very dialogue, and a code of the stored secret or      *)
(* stored a new one; a password that had to be changed was.                *)
(***************************************************************************)
THEOREM SelectionIsEarned == Spec => []SelectionEarned
  <1>1. GatewayInv => SelectionEarned
    <2>. SUFFICES ASSUME GatewayInv, NEW c \in Clients, SelectsFor(c) # None
                  PROVE  EarnedBy(SelectsFor(c), proven[c])
      BY DEF SelectionEarned, EarnedBy
    <2>1. SelectionProven(handler[c], call[c], proven[c])
      BY ClientFacts DEF GoodClient
    <2>. QED  BY <2>1 DEF SelectionProven, SelectsFor, State, Prompting
  <1>. QED  BY <1>1, GatewayInvariant, PTL

-----------------------------------------------------------------------------
(* Action properties.                                                      *)

(* Every action but a reload and a commit leaves the served users alone.   *)
LEMMA UsersChange ==
    ASSUME [Next]_vars, reloads \in Nat, reloads' = reloads
    PROVE  UNCHANGED users \/ \E c \in Clients : CommitPendingUpdates(c)
  <1>1. CASE UNCHANGED vars
    BY <1>1 DEF vars
  <1>2. CASE Reload
    BY <1>2 DEF Reload
  <1>3. CASE BanEnds
    BY <1>3 DEF BanEnds
  <1>4. ASSUME NEW c \in Clients,
               \/ Connect(c) \/ HangUp(c) \/ StartOver(c) \/ EmptyName(c)
               \/ AnswerPassword(c) \/ AnswerTotp(c) \/ RecordFailure(c)
               \/ HandlePasswordResponse(c) \/ HandleExistingTotpResponse(c)
               \/ AnswerNewPassword(c) \/ AnswerConfirmPassword(c) \/ AnswerEnrollmentTotp(c)
        PROVE  UNCHANGED users
    BY <1>4 DEF Connect, HangUp, StartOver, EmptyName, AnswerPassword, AnswerTotp,
       RecordFailure, HandlePasswordResponse, HandleExistingTotpResponse, AnswerNewPassword,
       AnswerConfirmPassword, AnswerEnrollmentTotp
  <1>5. ASSUME NEW c \in Clients,
               \/ SelectionPrompt(c) \/ AnswerSelection(c) \/ HandleSelectionResponse(c)
               \/ ConnectSelectedTarget(c) \/ ActivateMenu(c) \/ MenuLine(c) \/ MenuSelect(c)
        PROVE  UNCHANGED users
    BY <1>5 DEF SelectionPrompt, AnswerSelection, HandleSelectionResponse,
       ConnectSelectedTarget, ActivateMenu, MenuLine, MenuSelect
  <1>. QED  BY <1>1, <1>2, <1>3, <1>4, <1>5 DEF Next

(***************************************************************************)
(* Between reloads only commit_pending_updates changes credentials: those  *)
(* of the user whose password this dialogue has verified, with the secret  *)
(* of which it has seen a code, and for a user who is still there.         *)
(***************************************************************************)
THEOREM CommitsAreEarned == Spec => CommitsEarned
  <1>. DEFINE Earned ==
                reloads' = reloads =>
                  \A n \in Names : users'[n] # users[n] =>
                      \E c \in Clients :
                          /\ call[c].pc = "commit" /\ call'[c] # call[c]
                          /\ <<"password", n>> \in proven[c]
                          /\ users[n] # None
                          /\ <<"code", users'[n].totp_secret>> \in proven[c]
  <1>1. GatewayInv /\ [Next]_vars => [Earned]_vars
    <2>. SUFFICES ASSUME GatewayInv, [Next]_vars, reloads' = reloads,
                         NEW n \in Names, users'[n] # users[n]
                  PROVE  \E c \in Clients :
                            /\ call[c].pc = "commit" /\ call'[c] # call[c]
                            /\ <<"password", n>> \in proven[c]
                            /\ users[n] # None
                            /\ <<"code", users'[n].totp_secret>> \in proven[c]
      OBVIOUS
    <2>1. PICK c \in Clients : CommitPendingUpdates(c)
      <3>1. reloads \in Nat
        BY DEF GatewayInv, TypeOK
      <3>. QED  BY <3>1, UsersChange
    <2>. DEFINE x == call[c].context
                t == call[c].secret
    <2>2. /\ call[c].pc = "commit" /\ x \in Context /\ x.name \in Names /\ t \in Secrets
          /\ ContextComplete(x, proven[c]) /\ <<"code", t>> \in proven[c]
          /\ users \in [Names -> Record \cup {None}]
      BY <2>1, ClientFacts, CallShape DEF CommitPendingUpdates, GoodClient, ContextsProven, Context
    <2>3. /\ users[x.name] # None
          /\ users' = [users EXCEPT ![x.name] = Updated(@, x, t)]
      BY <2>1, <2>2 DEF CommitPendingUpdates
    <2>4. n = x.name /\ users[n] \in Record
      BY <2>2, <2>3
    <2>5. users'[n] = Updated(users[n], x, t)
      BY <2>2, <2>3, <2>4
    <2>6. users'[n].totp_secret = t
      BY <2>2, <2>4, <2>5, UpdatedRecord
    <2>7. call'[c] # call[c]
      <3>1. call'[c].pc \in {"closed", "show"}
        BY <2>1 DEF CommitPendingUpdates, Close, PromptSelection, Go, GatewayInv, TypeOK, Closed
      <3>. QED  BY <2>2, <3>1
    <2>. QED  BY <2>2, <2>3, <2>4, <2>6, <2>7 DEF ContextComplete, ContextProven
  <1>. QED  BY <1>1, GatewayInvariant, PTL DEF Spec, CommitsEarned

(* What an action of one connection does to the others' callbacks, and by  *)
(* which a selection becomes a connection.                                 *)
LEMMA OnlyMenusConnect ==
    ASSUME GatewayInv, [Next]_vars, NEW c \in Clients,
           call[c].pc \in {"select", "menu_select"}, call'[c].pc = "connect"
    PROVE  HandleSelectionResponse(c) \/ MenuSelect(c)
  <1>0. call \in [Clients -> Calls]
    BY DEF GatewayInv, TypeOK
  <1>1. CASE UNCHANGED vars
    BY <1>1 DEF vars
  <1>2. CASE Reload \/ BanEnds
    BY <1>2 DEF Reload, BanEnds
  <1>3. ASSUME NEW d \in Clients,
               \/ Connect(d) \/ HangUp(d) \/ StartOver(d) \/ EmptyName(d)
               \/ AnswerPassword(d) \/ AnswerTotp(d) \/ RecordFailure(d)
        PROVE  FALSE
    <2>1. call[d].pc \in {"closed", "waiting", "failure"}
      <3>1. call[d] \in {Closed, Waiting} \/ call[d].pc = "failure"
        BY <1>3 DEF Connect, HangUp, StartOver, EmptyName, AnswerPassword, AnswerTotp,
           RecordFailure, Asked
      <3>. QED  BY <3>1 DEF Closed, Waiting
    <2>2. UNCHANGED call \/ \E k : call' = [call EXCEPT ![d] = k]
      BY <1>3 DEF Connect, HangUp, StartOver, EmptyName, AnswerPassword, AnswerTotp,
         RecordFailure, Close, Go
    <2>. QED  BY <1>0, <2>1, <2>2
  <1>4. ASSUME NEW d \in Clients,
               HandlePasswordResponse(d) \/ HandleExistingTotpResponse(d)
        PROVE  FALSE
    <2>1. call[d].pc \in {"password", "totp"}
      BY <1>4 DEF HandlePasswordResponse, HandleExistingTotpResponse
    <2>2. \E k : call' = [call EXCEPT ![d] = k]
      BY <1>4 DEF HandlePasswordResponse, HandleExistingTotpResponse, Refuse,
         AdvanceAfterInitialAuth, PromptSelection, PromptEnrollment, Go
    <2>. QED  BY <1>0, <2>1, <2>2
  <1>5. ASSUME NEW d \in Clients,
               \/ AnswerNewPassword(d) \/ AnswerConfirmPassword(d) \/ AnswerEnrollmentTotp(d)
               \/ CommitPendingUpdates(d)
        PROVE  FALSE
    <2>1. call[d].pc \in {"waiting", "commit"}
      BY <1>5 DEF AnswerNewPassword, AnswerConfirmPassword, AnswerEnrollmentTotp, Asked,
         CommitPendingUpdates, Waiting
    <2>2. UNCHANGED call \/ \E k : call' = [call EXCEPT ![d] = k]
      BY <1>5 DEF AnswerNewPassword, AnswerConfirmPassword, AnswerEnrollmentTotp,
         CommitPendingUpdates, PromptSelection, PromptEnrollment, Close, Go
    <2>. QED  BY <1>0, <2>1, <2>2
  <1>6. ASSUME NEW d \in Clients,
               SelectionPrompt(d) \/ AnswerSelection(d) \/ ConnectSelectedTarget(d)
        PROVE  FALSE
    BY <1>0, <1>6 DEF SelectionPrompt, AnswerSelection, ConnectSelectedTarget, Asked, Close, Go,
       Closed, Waiting
  <1>8. ASSUME NEW d \in Clients, ActivateMenu(d) \/ MenuLine(d)
        PROVE  FALSE
    <2>1. call[d].pc = "waiting"
      BY <1>8 DEF ActivateMenu, MenuLine, Waiting
    <2>2. UNCHANGED call \/ \E k : call' = [call EXCEPT ![d] = k]
      BY <1>8 DEF ActivateMenu, MenuLine, Close, Go
    <2>. QED  BY <1>0, <2>1, <2>2
  <1>7. ASSUME NEW d \in Clients, HandleSelectionResponse(d) \/ MenuSelect(d)
        PROVE  d = c
    BY <1>0, <1>7 DEF HandleSelectionResponse, MenuSelect, PromptSelection, Close, Go, Closed
  <1>. QED  BY <1>1, <1>2, <1>3, <1>4, <1>5, <1>6, <1>7, <1>8 DEF Next

(***************************************************************************)
(* handle_selection_response and the menu's selection each take a snapshot *)
(* of their own, yet unless one was replaced in between they connect to    *)
(* the entry the screen shows under the number that was typed.             *)
(***************************************************************************)
THEOREM MenuIsHonest == Spec => MenuHonest
  <1>. DEFINE Honest ==
                \A c \in Clients :
                  (/\ call[c].pc \in {"select", "menu_select"} /\ call'[c].pc = "connect"
                   /\ screen[c].reloads = reloads)
                  => /\ call[c].choice \in DOMAIN screen[c].entries
                     /\ call'[c].target = screen[c].entries[call[c].choice]
  <1>1. GatewayInv /\ [Next]_vars => [Honest]_vars
    <2>. SUFFICES ASSUME GatewayInv, [Next]_vars, NEW c \in Clients,
                         call[c].pc \in {"select", "menu_select"}, call'[c].pc = "connect",
                         screen[c].reloads = reloads
                  PROVE  /\ call[c].choice \in DOMAIN screen[c].entries
                         /\ call'[c].target = screen[c].entries[call[c].choice]
      OBVIOUS
    <2>. DEFINE i == call[c].choice
    <2>1. call \in [Clients -> Calls] /\ call[c] \in Calls
      BY DEF GatewayInv, TypeOK
    <2>2. GoodClient(handler[c], menu_active[c], call[c], screen[c], proven[c], users, reloads)
      BY ClientFacts
    <2>3. PICK n \in Names : /\ screen[c].entries = EntriesIn(users, n)
                             /\ i \in 1 .. Len(EntriesIn(users, n))
                             /\ call'[c].target = Chosen(EntriesIn(users, n), i)
      <3>1. CASE HandleSelectionResponse(c)
        <4>. DEFINE n == call[c].username
        <4>1. call[c].pc = "select" /\ n \in Names
          BY <2>1, <3>1, CallShape DEF HandleSelectionResponse
        <4>2. screen[c].entries = EntriesIn(users, n)
          BY <2>2, <4>1 DEF GoodClient, ScreenCurrent, Shows
        <4>3. AllowedServerEntries(n) = EntriesIn(users, n)
          BY <4>1, EntriesServed
        <4>4. /\ i \in 1 .. Len(EntriesIn(users, n))
              /\ call'[c].target = Chosen(EntriesIn(users, n), i)
          BY <2>1, <3>1, <4>3 DEF HandleSelectionResponse, PromptSelection, Close, Go, Closed
        <4>. QED  BY <4>1, <4>2, <4>4
      <3>2. CASE MenuSelect(c)
        <4>. DEFINE n == handler[c].authenticated_username
        <4>1. n # None /\ n \in Names
          BY <2>2, <3>2, ClientFacts DEF MenuSelect, GoodClient, NameKnown
        <4>2. screen[c].entries = EntriesIn(users, n)
          BY <2>2, <4>1 DEF GoodClient, ScreenCurrent, Shows
        <4>3. AllowedServerEntries(n) = EntriesIn(users, n)
          BY <4>1, EntriesServed
        <4>4. /\ i \in 1 .. Len(EntriesIn(users, n))
              /\ call'[c].target = Chosen(EntriesIn(users, n), i)
          BY <2>1, <3>2, <4>3 DEF MenuSelect, Close, Go, Closed
        <4>. QED  BY <4>1, <4>2, <4>4
      <3>. QED  BY <3>1, <3>2, OnlyMenusConnect
    <2>4. EntriesIn(users, n) \in Seq(Targets)
      BY EntriesServed
    <2>. QED  BY <2>3, <2>4 DEF Chosen
  <1>. QED  BY <1>1, GatewayInvariant, PTL DEF Spec, MenuHonest

=============================================================================
