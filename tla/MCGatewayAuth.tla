--------------------------- MODULE MCGatewayAuth ---------------------------
(* Small instances of GatewayAuth for TLC. *)
EXTENDS GatewayAuth, TLC

CONSTANTS alice, ghost, c1, c2, temporary, chosen, stored, git, db,
          new1, new2, new3

ClientSymmetry == Permutations({c1, c2})
SecretSymmetry == Permutations({new1, new2, new3})
Symmetry == ClientSymmetry \cup SecretSymmetry

User(secret, must_change, servers) ==
    [password |-> temporary, totp_secret |-> secret,
     must_change_password |-> must_change, allowed_servers |-> servers]

Only(r) == alice :> r @@ ghost :> None

(* First login, a forced change for an enrolled user, an enrolled user, a  *)
(* user without TOTP and other targets, and no user at all.                *)
AllTables ==
    {Only(User(None, TRUE, <<git, db>>)), Only(User(stored, TRUE, <<db, git>>)),
     Only(User(stored, FALSE, <<git, db>>)), Only(User(None, FALSE, <<db>>)), Only(None)}

=============================================================================
