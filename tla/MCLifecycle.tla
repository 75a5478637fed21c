---------------------------- MODULE MCLifecycle ----------------------------
(* Two users, two servers, and documents in both modes.                    *)
EXTENDS Lifecycle

CONSTANTS alice, bob, git, web

MCUsers == {alice, bob}
MCServers == {git, web}

(* The first document, one that adds a server, has tables and no           *)
(* [fail2ban], and one in the other mode with another user.                *)
OneServer == [allowed |-> {<<alice, git>>}, policies |-> "none",
              per_user_per_server |-> TRUE, fail2ban |-> TRUE]
TwoServers == [allowed |-> {<<alice, git>>, <<alice, web>>}, policies |-> "tables",
               per_user_per_server |-> TRUE, fail2ban |-> FALSE]
PerUser == [allowed |-> {<<alice, git>>, <<alice, web>>, <<bob, git>>}, policies |-> "users",
            per_user_per_server |-> FALSE, fail2ban |-> TRUE]

MCDocuments == {OneServer, TwoServers, PerUser}
=============================================================================
