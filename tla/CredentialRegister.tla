------------------------- MODULE CredentialRegister -------------------------
(***************************************************************************)
(* What ConfigStore promises of the credentials until an administrator     *)
(* edits a file: a register with a record for each user, which only        *)
(* two things change, each in one step.  All bootstrap passwords are       *)
(* hashed together; after that, a commit replaces the record of one user.  *)
(* There is no memory and disk here, no lock, no document in flight, no    *)
(* reload and no crash.                                                    *)
(***************************************************************************)
CONSTANTS
    Users, Hashes, Secrets, Absent,
    First           \* what is stored at first

VARIABLES
    stored,         \* the record of each user
    reported        \* the record a commit last reported as stored

Committed ==
    [password : Hashes, totp_secret : Secrets, must_change_password : {FALSE}]

Unhashed == {u \in Users : stored[u] # Absent /\ stored[u].password \notin Hashes}

Init ==
    /\ stored = First
    /\ reported = [u \in Users |-> Absent]

HashAll ==
    /\ Unhashed # {}
    /\ \E hash \in [Unhashed -> Hashes] :
          stored' = [u \in Users |->
                        IF u \in Unhashed
                        THEN [stored[u] EXCEPT !.password = hash[u],
                                               !.must_change_password = TRUE]
                        ELSE stored[u]]
    /\ UNCHANGED reported

(* Who asked is told that the record is stored, or, when the directory     *)
(* could not be synced, that it is not, though it is.                      *)
Commit(u) ==
    /\ Unhashed = {}
    /\ stored[u] # Absent
    /\ \E r \in Committed :
          /\ stored' = [stored EXCEPT ![u] = r]
          /\ \E answer \in {r, Absent} : reported' = [reported EXCEPT ![u] = answer]

Next == HashAll \/ \E u \in Users : Commit(u)

Spec == Init /\ [][Next]_<<stored, reported>>

=============================================================================
