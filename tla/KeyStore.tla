------------------------------ MODULE KeyStore ------------------------------
(***************************************************************************)
(* The key files a start of the gateway makes: the directories and key     *)
(* pairs of src/keys/mod.rs, one per user and server or one per user, and  *)
(* the host key of src/ssh/mod.rs.  A file is made by create_new and then  *)
(* written, a directory by create_dir and then set_permissions: a stop can *)
(* fall between any two of these steps, and the next start finds what is   *)
(* there.  Lifecycle composes these steps with the process they are of.    *)
(***************************************************************************)
EXTENDS Naturals, Sequences, FiniteSets

CONSTANTS
    Users, Servers,
    Keys,           \* key pairs PrivateKey::random may yield
    NoFile,         \* there is no such file
    Torn,           \* the file was made and not written
    Strict          \* enforce_strict_security

ASSUME KeysAssumption == NoFile \notin Keys /\ Torn \notin Keys /\ NoFile # Torn

(* Directories by their path below the key root: <<>>, <<user>> and        *)
(* <<user, server>>.                                                       *)
Root == <<>>
Pairs == Users \X Servers
KeyDirs == {<<u>> : u \in Users} \cup Pairs
Dirs == {Root} \cup KeyDirs

(* The directories from the root down to d.                                *)
PathTo(d) == {SubSeq(d, 1, n) : n \in 0 .. Len(d)}

(* Where the key of a user and server is, with and without                 *)
(* per_user_per_server.                                                    *)
KeyDir(p, per_user_per_server) == IF per_user_per_server THEN p ELSE <<p[1]>>

VARIABLES
    dirs,           \* absent, open (made under the umask) or private (0700)
    private_key,    \* id_ed25519 of each directory
    public_key,     \* id_ed25519.pub of each directory
    host_key,       \* host_ed25519
    boot,           \* where the start is in making them
    generated       \* history: the key pairs generated so far

key_files == <<private_key, public_key, host_key>>
key_vars == <<dirs, key_files, boot, generated>>

KeyFile == Keys \cup {NoFile, Torn}

Off == [pc |-> "off", todo |-> {}, at |-> Root, level |-> 0]

KeySteps == {"next", "dir", "chmod", "private", "private_write", "public", "public_write"}
HostSteps == {"host", "host_write", "host_load"}

KeyTypeOK ==
    /\ dirs \in [Dirs -> {"absent", "open", "private"}]
    /\ private_key \in [KeyDirs -> KeyFile]
    /\ public_key \in [KeyDirs -> KeyFile]
    /\ host_key \in KeyFile
    /\ boot \in [pc : {"off"} \cup KeySteps \cup HostSteps, todo : SUBSET KeyDirs,
                 at : Dirs, level : 0 .. 2]
    /\ boot.pc \in KeySteps \ {"next"} => boot.at \in boot.todo
    /\ generated \subseteq Keys
    /\ \A d \in KeyDirs :
          /\ dirs[d] # "absent" => \A e \in PathTo(d) : dirs[e] # "absent"
          /\ dirs[d] = "absent" => private_key[d] = NoFile /\ public_key[d] = NoFile

KeyInit ==
    /\ dirs = [d \in Dirs |-> "absent"]
    /\ private_key = [d \in KeyDirs |-> NoFile]
    /\ public_key = [d \in KeyDirs |-> NoFile]
    /\ host_key = NoFile
    /\ boot = Off
    /\ generated = {}

(* PrivateKey::random: a key pair that was never generated before.  Keys   *)
(* is the bound: the model goes on as long as it lasts.                    *)
KeysLast == \E k \in Keys : k \notin generated
RandomKey == CHOOSE k \in Keys : k \notin generated

-----------------------------------------------------------------------------
(* ensure_real_directory: one that exists is left with the mode it has.    *)
MakeDirectory(d) == dirs[d] = "absent" /\ dirs' = [dirs EXCEPT ![d] = "open"]

SetDirectoryMode(d) == dirs' = [dirs EXCEPT ![d] = "private"]

-----------------------------------------------------------------------------
(* ensure_private_keys_for_config_users; the order of the users and their  *)
(* servers is that of the document, thus any.                              *)

(* Fault: the loop over the servers ends after the first in either mode.   *)
FirstServersOnly(allowed, per_user_per_server) ==
    {KeyDir(CHOOSE p \in allowed : p[1] = u, per_user_per_server) : u \in {p[1] : p \in allowed}}

KeyDirsOf(allowed, per_user_per_server) ==
    {KeyDir(p, per_user_per_server) : p \in allowed}

BeginKeys(allowed, per_user_per_server) ==
    /\ boot' = [pc |-> "next", at |-> Root, level |-> 0,
                todo |-> KeyDirsOf(allowed, per_user_per_server)]
    /\ UNCHANGED <<dirs, key_files, generated>>

(* Fault: the directory of the server is made without that of the user.    *)
NextServerDir ==
    /\ boot.pc = "next"
    /\ \E d \in boot.todo : boot' = [boot EXCEPT !.pc = "dir", !.at = d, !.level = Len(d)]
    /\ UNCHANGED <<dirs, key_files, generated>>

NextKeyDir ==
    /\ boot.pc = "next"
    /\ \E d \in boot.todo : boot' = [boot EXCEPT !.pc = "dir", !.at = d, !.level = 1]
    /\ UNCHANGED <<dirs, key_files, generated>>

BootDir == SubSeq(boot.at, 1, boot.level)

BootDirDone ==
    IF boot.level < Len(boot.at)
    THEN [boot EXCEPT !.pc = "dir", !.level = @ + 1]
    ELSE [boot EXCEPT !.pc = "private"]

EnsureRealDirectory ==
    /\ boot.pc = "dir"
    /\ \/ /\ MakeDirectory(BootDir)
          /\ boot' = [boot EXCEPT !.pc = "chmod"]
       \/ /\ dirs[BootDir] # "absent"
          /\ boot' = BootDirDone
          /\ UNCHANGED dirs
    /\ UNCHANGED <<key_files, generated>>

SetPermissions ==
    /\ boot.pc = "chmod"
    /\ SetDirectoryMode(BootDir)
    /\ boot' = BootDirDone
    /\ UNCHANGED <<key_files, generated>>

-----------------------------------------------------------------------------
(* ensure_keypair_files.                                                   *)

(* Fault: a key without its public key is made anew.                       *)
EnsurePairOfFiles ==
    /\ boot.pc = "private"
    /\ \/ /\ NoFile \in {private_key[boot.at], public_key[boot.at]}
          /\ private_key' = [private_key EXCEPT ![boot.at] = Torn]
          /\ boot' = [boot EXCEPT !.pc = "private_write"]
       \/ /\ private_key[boot.at] \in Keys /\ public_key[boot.at] # NoFile
          /\ boot' = [boot EXCEPT !.pc = "public"]
          /\ UNCHANGED private_key
    /\ UNCHANGED <<dirs, public_key, host_key, generated>>

(* A private key that cannot be read ends the start: KeyRefused.           *)
EnsurePrivateKey ==
    /\ boot.pc = "private"
    /\ \/ /\ private_key[boot.at] = NoFile
          /\ private_key' = [private_key EXCEPT ![boot.at] = Torn]
          /\ boot' = [boot EXCEPT !.pc = "private_write"]
       \/ /\ private_key[boot.at] \in Keys
          /\ boot' = [boot EXCEPT !.pc = "public"]
          /\ UNCHANGED private_key
    /\ UNCHANGED <<dirs, public_key, host_key, generated>>

KeyRefused == boot.pc = "private" /\ private_key[boot.at] = Torn

WritePrivateKey ==
    /\ boot.pc = "private_write" /\ KeysLast
    /\ private_key' = [private_key EXCEPT ![boot.at] = RandomKey]
    /\ generated' = generated \cup {RandomKey}
    /\ boot' = [boot EXCEPT !.pc = "public"]
    /\ UNCHANGED <<dirs, public_key, host_key>>

KeyDirDone == [boot EXCEPT !.pc = "next", !.todo = @ \ {boot.at}, !.at = Root, !.level = 0]

(* Whatever is in a public key file, it is left alone.                     *)
EnsurePublicKey ==
    /\ boot.pc = "public"
    /\ \/ /\ public_key[boot.at] = NoFile
          /\ public_key' = [public_key EXCEPT ![boot.at] = Torn]
          /\ boot' = [boot EXCEPT !.pc = "public_write"]
       \/ /\ public_key[boot.at] # NoFile
          /\ boot' = KeyDirDone
          /\ UNCHANGED public_key
    /\ UNCHANGED <<dirs, private_key, host_key, generated>>

(* Fault: the public key is that of another key pair.                      *)
WriteNewPublicKey ==
    /\ boot.pc = "public_write"
    /\ public_key' = [public_key EXCEPT ![boot.at] = RandomKey]
    /\ generated' = generated \cup {RandomKey}
    /\ boot' = KeyDirDone
    /\ UNCHANGED <<dirs, private_key, host_key>>

WritePublicKey ==
    /\ boot.pc = "public_write"
    /\ public_key' = [public_key EXCEPT ![boot.at] = private_key[boot.at]]
    /\ boot' = KeyDirDone
    /\ UNCHANGED <<dirs, private_key, host_key, generated>>

KeysDone == boot.pc = "next" /\ boot.todo = {}

-----------------------------------------------------------------------------
(* ensure_server_host_key, and the load of the key.                        *)

BeginHostKey ==
    /\ KeysDone
    /\ boot' = [boot EXCEPT !.pc = "host"]
    /\ UNCHANGED <<dirs, key_files, generated>>

EnsureHostKey ==
    /\ boot.pc = "host"
    /\ \/ /\ host_key = NoFile
          /\ host_key' = Torn
          /\ boot' = [boot EXCEPT !.pc = "host_write"]
       \/ /\ host_key # NoFile
          /\ boot' = [boot EXCEPT !.pc = "host_load"]
          /\ UNCHANGED host_key
    /\ UNCHANGED <<dirs, private_key, public_key, generated>>

WriteHostKey ==
    /\ boot.pc = "host_write" /\ KeysLast
    /\ host_key' = RandomKey
    /\ generated' = generated \cup {RandomKey}
    /\ boot' = [boot EXCEPT !.pc = "host_load"]
    /\ UNCHANGED <<dirs, private_key, public_key>>

HostKeyRefused == boot.pc = "host_load" /\ host_key = Torn
HostKeyLoaded == boot.pc = "host_load" /\ host_key \in Keys

KeyStep ==
    \/ NextKeyDir
    \/ EnsureRealDirectory
    \/ SetPermissions
    \/ EnsurePrivateKey
    \/ WritePrivateKey
    \/ EnsurePublicKey
    \/ WritePublicKey
    \/ BeginHostKey
    \/ EnsureHostKey
    \/ WriteHostKey

-----------------------------------------------------------------------------
(* resolve_user_server_private_key_path and the load of the key it names:  *)
(* whether a session of that user can log in at that server.               *)
Exposed(d) == \E e \in PathTo(d) : dirs[e] = "open"

Usable(p, per_user_per_server) ==
    LET d == KeyDir(p, per_user_per_server)
    IN  /\ \A e \in PathTo(d) : dirs[e] # "absent"
        /\ Strict => ~Exposed(d)
        /\ private_key[d] \in Keys

=============================================================================
