--------------------------- MODULE MCConfigStore ---------------------------
(* Small instances of ConfigStore for TLC. *)
EXTENDS ConfigStore, TLC

CONSTANTS alice, bob, h1, h2, totp1, totp2, old, new, broken, s1, s2

SessionSymmetry == Permutations({s1, s2})

(* One user still has the bootstrap password, the other is to enroll TOTP. *)
FirstUsers ==
    alice :> [password |-> Plain, totp_secret |-> NoSecret, must_change_password |-> TRUE]
    @@ bob :> [password |-> h1, totp_secret |-> NoSecret, must_change_password |-> FALSE]

OneUser ==
    bob :> [password |-> h1, totp_secret |-> NoSecret, must_change_password |-> FALSE]

(* A new servers.toml needs the new config.toml, not the other way round.  *)
Fitting == {<<old, old>>, <<new, old>>, <<new, new>>}

=============================================================================
