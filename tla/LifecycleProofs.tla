-------------------------- MODULE LifecycleProofs --------------------------
(***************************************************************************)
(* Proofs about Lifecycle: for any users, servers, documents and bounds,   *)
(* and however often the start is stopped, keys are kept, public keys are  *)
(* those of the private keys beside them, and the configuration in force   *)
(* fits the mode of the process.                                           *)
(*                                                                         *)
(* TypeOK, and what needs it, is in StartUpProofs.                         *)
(***************************************************************************)
EXTENDS Lifecycle, TLAPS

USE KeysAssumption, DocumentsAssumption

-----------------------------------------------------------------------------
(* The inductive invariant.  A file that is being written is Torn, so the  *)
(* write replaces no key; a public key that was written has its private    *)
(* key beside it, so a Torn private key has no public key to disagree with. *)
KeyInv ==
    /\ boot \in [pc : {"off"} \cup KeySteps \cup HostSteps, todo : SUBSET KeyDirs,
                 at : Dirs, level : Nat]
    /\ boot.pc \in KeySteps \ {"next"} => boot.at \in KeyDirs
    /\ DOMAIN private_key = KeyDirs
    /\ DOMAIN public_key = KeyDirs
    /\ boot.pc = "private_write" => private_key[boot.at] = Torn
    /\ boot.pc = "host_write" => host_key = Torn
    /\ PublicMatches

(* Keys are made in one phase only.                                        *)
KeysInPhase == boot.pc # "off" => phase = "keys"

Fits(document) ==
    /\ document \in Documents
    /\ document.policies # IF per_user_per_server THEN "users" ELSE "tables"

(* What is in force, and what the loop is about to install, was validated  *)
(* under the mode the process has; there is no loop when the mode changes. *)
ConfigInv ==
    /\ phase \in {"down", "serving"} \cup Starting
    /\ config_toml.document \in Documents \cup {Broken}
    /\ phase \in {"tracker", "bootstrap", "keys", "serving"} => Fits(active.document)
    /\ loop \in [pc : {"none", "spawned", "waiting", "woken", "install", "refresh", "success",
                       "failure"},
                 config : {loop.config}]
    /\ loop.pc # "none" => phase \in {"bootstrap", "keys", "serving"}
    /\ loop.pc = "install" => Fits(loop.config.document)

LifecycleInv == KeyInv /\ KeysInPhase /\ ConfigInv

Kept ==
    /\ \A d \in KeyDirs : private_key[d] \in Keys => private_key'[d] = private_key[d]
    /\ host_key \in Keys => host_key' = host_key

-----------------------------------------------------------------------------
(* Where a key is, is one of the key directories.                          *)
LEMMA KeyDirOfPair ==
    ASSUME NEW p \in Pairs, NEW mode
    PROVE  KeyDir(p, mode) \in KeyDirs
BY DEF KeyDir, KeyDirs, Pairs

(* Initially there are no files.                                           *)
LEMMA InitLifecycleInv == Init => LifecycleInv
  <1>. SUFFICES ASSUME Init PROVE LifecycleInv
    OBVIOUS
  <1>1. KeyInv
    BY DEF Init, KeyInit, KeyInv, Off, KeySteps, HostSteps, Root, Dirs, PublicMatches
  <1>2. KeysInPhase
    BY DEF Init, KeyInit, KeysInPhase, Off
  <1>3. ConfigInv
    BY DEF Init, ConfigInv, NoLoop, Starting
  <1>. QED  BY <1>1, <1>2, <1>3 DEF LifecycleInv

(* A step that leaves the key files, and where the start is in making them, *)
(* alone.                                                                  *)
LEMMA KeyFrame ==
    ASSUME KeyInv, UNCHANGED key_files, boot' = boot \/ boot' = Off
    PROVE  KeyInv' /\ Kept
  <1>1. Off \in [pc : {"off"} \cup KeySteps \cup HostSteps, todo : SUBSET KeyDirs,
                 at : Dirs, level : Nat]
    BY DEF Off, Root, Dirs
  <1>2. /\ Off.pc = "off"
        /\ "off" \notin KeySteps
    BY DEF Off, KeySteps
  <1>3. Kept
    BY DEF Kept, key_files
  <1>. QED  BY <1>1, <1>2, <1>3 DEF KeyInv, key_files, PublicMatches

(* A step of the start that makes keys.                                    *)
LEMMA KeyStepKeyInv ==
    ASSUME KeyInv, KeyStep
    PROVE  /\ KeyInv'
           /\ Kept
           /\ boot.pc # "off"
  <1>. USE DEF KeyInv, Kept, KeySteps, HostSteps
  <1>. DEFINE Boots == [pc : {"off"} \cup KeySteps \cup HostSteps, todo : SUBSET KeyDirs,
                        at : Dirs, level : Nat]
  <1>1. CASE NextKeyDir
    <2>1. PICK d \in boot.todo : boot' = [boot EXCEPT !.pc = "dir", !.at = d, !.level = 1]
      BY <1>1 DEF NextKeyDir
    <2>2. boot' \in Boots /\ boot'.pc = "dir" /\ boot'.at \in KeyDirs
      BY <2>1 DEF Dirs
    <2>. QED  BY <1>1, <2>2 DEF NextKeyDir, key_files, PublicMatches
  <1>2. CASE EnsureRealDirectory \/ SetPermissions
    <2>1. boot.pc \in {"dir", "chmod"} /\ UNCHANGED key_files
      BY <1>2 DEF EnsureRealDirectory, SetPermissions
    <2>2. boot' = [boot EXCEPT !.pc = "chmod"] \/ boot' = BootDirDone
      BY <1>2 DEF EnsureRealDirectory, SetPermissions
    <2>3. /\ boot' \in Boots
          /\ boot'.pc \in {"dir", "chmod", "private"}
          /\ boot'.at = boot.at
      <3>1. CASE boot' = [boot EXCEPT !.pc = "dir", !.level = boot.level + 1]
        <4>1. boot.level + 1 \in Nat
          OBVIOUS
        <4>2. PICK n \in Nat : boot' = [boot EXCEPT !.pc = "dir", !.level = n]
          BY <3>1, <4>1
        <4>. QED  BY <4>2
      <3>2. CASE boot' = [boot EXCEPT !.pc = "chmod"] \/ boot' = [boot EXCEPT !.pc = "private"]
        BY <3>2
      <3>. QED  BY <2>2, <3>1, <3>2 DEF BootDirDone
    <2>. QED  BY <2>1, <2>3 DEF key_files, PublicMatches
  <1>3. CASE EnsurePrivateKey
    <2>1. boot.pc = "private" /\ boot.at \in KeyDirs
      BY <1>3 DEF EnsurePrivateKey
    <2>2. CASE private_key[boot.at] = NoFile
      <3>1. /\ private_key' = [private_key EXCEPT ![boot.at] = Torn]
            /\ boot' = [boot EXCEPT !.pc = "private_write"]
            /\ UNCHANGED <<public_key, host_key>>
        BY <1>3, <2>2 DEF EnsurePrivateKey
      <3>2. boot' \in Boots /\ boot'.pc = "private_write" /\ boot'.at = boot.at
        BY <3>1
      <3>3. /\ DOMAIN private_key' = KeyDirs
            /\ private_key'[boot.at] = Torn
            /\ \A d \in KeyDirs \ {boot.at} : private_key'[d] = private_key[d]
        BY <2>1, <3>1
      <3>4. PublicMatches'
        BY <2>2, <3>1, <3>3 DEF PublicMatches
      <3>. QED  BY <2>1, <2>2, <3>1, <3>2, <3>3, <3>4
    <2>3. CASE private_key[boot.at] # NoFile
      <3>1. /\ boot' = [boot EXCEPT !.pc = "public"]
            /\ UNCHANGED <<private_key, public_key, host_key>>
        BY <1>3, <2>3 DEF EnsurePrivateKey
      <3>2. boot' \in Boots /\ boot'.pc = "public" /\ boot'.at = boot.at
        BY <3>1
      <3>. QED  BY <2>1, <3>1, <3>2 DEF PublicMatches
    <2>. QED  BY <2>2, <2>3, <2>1
  <1>4. CASE WritePrivateKey
    <2>1. /\ boot.pc = "private_write" /\ boot.at \in KeyDirs
          /\ private_key[boot.at] = Torn
          /\ private_key' = [private_key EXCEPT ![boot.at] = RandomKey]
          /\ boot' = [boot EXCEPT !.pc = "public"]
          /\ UNCHANGED <<public_key, host_key>>
      BY <1>4 DEF WritePrivateKey
    <2>2. boot' \in Boots /\ boot'.pc = "public" /\ boot'.at = boot.at
      BY <2>1
    <2>3. /\ DOMAIN private_key' = KeyDirs
          /\ \A d \in KeyDirs \ {boot.at} : private_key'[d] = private_key[d]
      BY <2>1
    <2>4. PublicMatches'
      BY <2>1, <2>3 DEF PublicMatches
    <2>. QED  BY <2>1, <2>2, <2>3, <2>4
  <1>5. CASE EnsurePublicKey
    <2>1. /\ boot.pc = "public" /\ boot.at \in KeyDirs
          /\ UNCHANGED <<private_key, host_key>>
      BY <1>5 DEF EnsurePublicKey
    <2>2. boot' = [boot EXCEPT !.pc = "public_write"] \/ boot' = KeyDirDone
      BY <1>5 DEF EnsurePublicKey
    <2>3. /\ boot' \in Boots
          /\ boot'.pc \in {"public_write", "next"}
          /\ boot'.pc = "public_write" => boot'.at = boot.at
      <3>1. CASE boot' = [boot EXCEPT !.pc = "public_write"]
        BY <3>1
      <3>2. CASE boot' = KeyDirDone
        BY <3>2 DEF KeyDirDone, Dirs
      <3>. QED  BY <2>2, <3>1, <3>2
    <2>4. public_key' = public_key \/ public_key' = [public_key EXCEPT ![boot.at] = Torn]
      BY <1>5 DEF EnsurePublicKey
    <2>5. DOMAIN public_key' = KeyDirs /\ PublicMatches'
      BY <2>1, <2>4 DEF PublicMatches
    <2>. QED  BY <2>1, <2>3, <2>5
  <1>6. CASE WritePublicKey
    <2>1. /\ boot.pc = "public_write" /\ boot.at \in KeyDirs
          /\ public_key' = [public_key EXCEPT ![boot.at] = private_key[boot.at]]
          /\ boot' = KeyDirDone
          /\ UNCHANGED <<private_key, host_key>>
      BY <1>6 DEF WritePublicKey
    <2>2. boot' \in Boots /\ boot'.pc = "next"
      BY <2>1 DEF KeyDirDone, Dirs
    <2>3. DOMAIN public_key' = KeyDirs /\ PublicMatches'
      BY <2>1 DEF PublicMatches
    <2>. QED  BY <2>1, <2>2, <2>3
  <1>7. CASE BeginHostKey
    <2>1. boot' = [boot EXCEPT !.pc = "host"] /\ UNCHANGED key_files /\ boot.pc = "next"
      BY <1>7 DEF BeginHostKey, KeysDone
    <2>2. boot' \in Boots /\ boot'.pc = "host"
      BY <2>1
    <2>. QED  BY <2>1, <2>2 DEF key_files, PublicMatches
  <1>8. CASE EnsureHostKey
    <2>1. /\ boot.pc = "host"
          /\ \/ host_key = NoFile /\ host_key' = Torn /\ boot' = [boot EXCEPT !.pc = "host_write"]
             \/ host_key' = host_key /\ boot' = [boot EXCEPT !.pc = "host_load"]
          /\ UNCHANGED <<private_key, public_key>>
      BY <1>8 DEF EnsureHostKey
    <2>2. /\ boot' \in Boots
          /\ boot'.pc \in {"host_write", "host_load"}
          /\ boot'.pc = "host_write" => host_key' = Torn
      BY <2>1
    <2>. QED  BY <2>1, <2>2 DEF PublicMatches
  <1>9. CASE WriteHostKey
    <2>1. /\ boot.pc = "host_write" /\ host_key = Torn
          /\ boot' = [boot EXCEPT !.pc = "host_load"]
          /\ UNCHANGED <<private_key, public_key>>
      BY <1>9 DEF WriteHostKey
    <2>2. boot' \in Boots /\ boot'.pc = "host_load"
      BY <2>1
    <2>. QED  BY <2>1, <2>2 DEF PublicMatches
  <1>. QED
    BY <1>1, <1>2, <1>3, <1>4, <1>5, <1>6, <1>7, <1>8, <1>9 DEF KeyStep

(* No file changes when the process ends.                                  *)
LEMMA ExitLifecycleInv ==
    ASSUME LifecycleInv, Exit
    PROVE  LifecycleInv' /\ Kept
  <1>1. KeyInv' /\ Kept
    BY KeyFrame DEF LifecycleInv, Exit, key_files
  <1>2. KeysInPhase'
    BY DEF Exit, KeysInPhase, Off
  <1>3. ConfigInv'
    BY DEF LifecycleInv, ConfigInv, Exit, NoProcess, NoLoop, files, Starting
  <1>. QED  BY <1>1, <1>2, <1>3 DEF LifecycleInv

(* Every step keeps the invariant, and every key that was written.         *)
LEMMA StepLifecycleInv == LifecycleInv /\ [Next]_vars => LifecycleInv' /\ Kept
  <1>. SUFFICES ASSUME LifecycleInv, [Next]_vars PROVE LifecycleInv' /\ Kept
    OBVIOUS
  <1>. USE DEF LifecycleInv
  <1>a. ASSUME UNCHANGED <<key_files, boot>>
        PROVE  KeyInv' /\ Kept
    BY <1>a, KeyFrame DEF key_files
  <1>1. CASE EditConfig
    <2>1. UNCHANGED <<key_files, boot, phase, per_user_per_server, active, loop>>
      BY <1>1 DEF EditConfig, process_vars, key_vars
    <2>2. config_toml'.document \in Documents \cup {Broken}
      BY <1>1 DEF EditConfig
    <2>. QED  BY <1>a, <2>1, <2>2 DEF KeysInPhase, ConfigInv, Fits
  <1>2. CASE EditWhitelist
    <2>1. UNCHANGED <<key_files, boot, phase, per_user_per_server, active, loop, config_toml>>
      BY <1>2 DEF EditWhitelist, process_vars, key_vars
    <2>. QED  BY <1>a, <2>1 DEF KeysInPhase, ConfigInv, Fits
  <1>3. CASE Hangup
    <2>1. UNCHANGED <<key_files, boot, phase, per_user_per_server, active, loop, config_toml>>
      BY <1>3 DEF Hangup, files, key_vars
    <2>. QED  BY <1>a, <2>1 DEF KeysInPhase, ConfigInv, Fits
  <1>4. CASE Stop
    BY <1>4, ExitLifecycleInv DEF Stop
  <1>5. CASE RemoveTornKey
    <2>1. /\ boot.pc = "off"
          /\ UNCHANGED <<public_key, boot, phase, per_user_per_server, active, loop, config_toml>>
      BY <1>5 DEF RemoveTornKey, KeysInPhase, process_vars, files
    <2>2. CASE UNCHANGED private_key
      <3>1. host_key \notin Keys
        BY <1>5, <2>2 DEF RemoveTornKey, KeyInv
      <3>. QED  BY <2>1, <2>2, <3>1 DEF KeyInv, PublicMatches, Kept, KeysInPhase, ConfigInv, Fits
    <2>3. CASE \E d \in KeyDirs : /\ private_key[d] = Torn
                                  /\ private_key' = [private_key EXCEPT ![d] = NoFile]
                                  /\ UNCHANGED host_key
      <3>1. PICK d \in KeyDirs : /\ private_key[d] = Torn
                                 /\ private_key' = [private_key EXCEPT ![d] = NoFile]
                                 /\ UNCHANGED host_key
        BY <2>3
      <3>2. /\ DOMAIN private_key' = KeyDirs
            /\ \A e \in KeyDirs \ {d} : private_key'[e] = private_key[e]
        BY <3>1 DEF KeyInv
      <3>3. KeyInv' /\ Kept
        BY <2>1, <3>1, <3>2 DEF KeyInv, PublicMatches, Kept
      <3>. QED  BY <2>1, <3>3 DEF KeysInPhase, ConfigInv, Fits
    <2>. QED  BY <1>5, <2>2, <2>3 DEF RemoveTornKey
  <1>6. CASE Start
    <2>1. UNCHANGED <<key_files, boot, active, loop, config_toml>>
      BY <1>6 DEF Start, files, key_vars
    <2>2. /\ phase = "down" /\ phase' = "seed"
          /\ loop.pc = "none"
      BY <1>6 DEF Start, ConfigInv
    <2>. QED  BY <1>a, <2>1, <2>2 DEF KeysInPhase, ConfigInv, Starting
  <1>7. CASE EnsureKeyRoot \/ SetKeyRootPermissions
    <2>1. UNCHANGED <<key_files, boot, per_user_per_server, active, loop, config_toml>>
      BY <1>7 DEF EnsureKeyRoot, SetKeyRootPermissions, files
    <2>2. phase \in {"seed", "chmod"} /\ phase' \in {"chmod", "load"}
      BY <1>7 DEF EnsureKeyRoot, SetKeyRootPermissions
    <2>. QED  BY <1>a, <2>1, <2>2 DEF KeysInPhase, ConfigInv, Starting
  <1>8. CASE Load
    <2>1. CASE Exit
      BY <2>1, ExitLifecycleInv
    <2>2. CASE ~Exit
      <3>1. /\ phase = "load" /\ phase' = "tracker"
            /\ active' = config_toml
            /\ Valid(config_toml.document, per_user_per_server)
            /\ UNCHANGED <<key_files, boot, per_user_per_server, loop, config_toml>>
        BY <1>8, <2>2 DEF Load, files, key_vars
      <3>2. Fits(active.document)'
        BY <3>1 DEF Fits, Valid, ConfigInv
      <3>. QED  BY <1>a, <3>1, <3>2 DEF KeysInPhase, ConfigInv, Starting
    <2>. QED  BY <2>1, <2>2
  <1>9. CASE LoadTracker
    <2>1. CASE Exit
      BY <2>1, ExitLifecycleInv
    <2>2. CASE ~Exit
      <3>1. /\ phase = "tracker" /\ phase' = "bootstrap"
            /\ loop' = [NoLoop EXCEPT !.pc = "spawned"]
            /\ UNCHANGED <<key_files, boot, per_user_per_server, active, config_toml>>
        BY <1>9, <2>2 DEF LoadTracker, files, key_vars
      <3>2. loop' = [pc |-> "spawned", config |-> NoDocument]
        BY <3>1 DEF NoLoop
      <3>. QED  BY <1>a, <3>1, <3>2 DEF KeysInPhase, ConfigInv, Starting, Fits
    <2>. QED  BY <2>1, <2>2
  <1>10. CASE Bootstrap
    <2>1. /\ phase = "bootstrap" /\ phase' = "keys"
          /\ UNCHANGED <<per_user_per_server, active, loop, config_toml>>
          /\ UNCHANGED key_files
          /\ boot' = [pc |-> "next", at |-> Root, level |-> 0,
                      todo |-> KeyDirsOf(active.document.allowed, per_user_per_server)]
      BY <1>10 DEF Bootstrap, BeginKeys, files
    <2>2. active.document.allowed \subseteq Pairs
      BY <2>1 DEF ConfigInv, Fits, Document
    <2>3. KeyDirsOf(active.document.allowed, per_user_per_server) \subseteq KeyDirs
      BY <2>2, KeyDirOfPair DEF KeyDirsOf
    <2>4. KeyInv'
      BY <2>1, <2>3 DEF KeyInv, KeySteps, HostSteps, Dirs, key_files, PublicMatches
    <2>5. Kept
      BY <2>1 DEF Kept, key_files
    <2>. QED  BY <2>1, <2>4, <2>5 DEF KeysInPhase, ConfigInv, Starting, Fits
  <1>11. CASE MakeKeys
    <2>1. KeyInv' /\ Kept
      BY <1>11, KeyStepKeyInv DEF MakeKeys
    <2>2. /\ phase = "keys"
          /\ UNCHANGED <<phase, per_user_per_server, active, loop, config_toml>>
      BY <1>11 DEF MakeKeys, process_vars, files
    <2>. QED  BY <2>1, <2>2 DEF KeysInPhase, ConfigInv, Fits
  <1>12. CASE RefuseKey
    BY <1>12, ExitLifecycleInv DEF RefuseKey
  <1>13. CASE Serve
    <2>1. /\ phase = "keys" /\ phase' = "serving"
          /\ boot' = Off
          /\ UNCHANGED <<key_files, per_user_per_server, active, loop, config_toml>>
      BY <1>13 DEF Serve, files
    <2>2. KeyInv' /\ Kept
      BY <2>1, KeyFrame DEF key_files
    <2>. QED  BY <2>1, <2>2 DEF KeysInPhase, Off, ConfigInv, Fits
  <1>14. CASE Notify
    <2>1. UNCHANGED <<key_files, boot, phase, per_user_per_server, active, config_toml>>
      BY <1>14 DEF Notify, files, key_vars
    <2>2. loop' = loop \/ (loop.pc = "waiting" /\ loop' = [loop EXCEPT !.pc = "woken"])
      BY <1>14 DEF Notify
    <2>. QED  BY <1>a, <2>1, <2>2 DEF KeysInPhase, ConfigInv, Fits
  <1>15. CASE StartWaiting \/ AuditReload
    <2>1. UNCHANGED <<key_files, boot, phase, per_user_per_server, active, config_toml>>
      BY <1>15 DEF StartWaiting, AuditReload, files, key_vars
    <2>2. /\ loop.pc # "none"
          /\ loop'.pc = "waiting"
          /\ loop' = [pc |-> loop'.pc, config |-> loop'.config]
      BY <1>15 DEF StartWaiting, AuditReload, NoLoop, ConfigInv
    <2>. QED  BY <1>a, <2>1, <2>2 DEF KeysInPhase, ConfigInv, Fits
  <1>16. CASE ReadConfig
    <2>1. UNCHANGED <<key_files, boot, phase, per_user_per_server, active, config_toml>>
      BY <1>16 DEF ReadConfig, files, key_vars
    <2>2. /\ loop.pc = "woken"
          /\ loop'.config = config_toml
          /\ loop'.pc \in {"install", "failure"}
          /\ loop' = [pc |-> loop'.pc, config |-> loop'.config]
          /\ loop'.pc = "install" => Valid(config_toml.document, per_user_per_server)
      BY <1>16 DEF ReadConfig
    <2>3. loop'.pc = "install" => Fits(loop.config.document)'
      BY <2>1, <2>2 DEF Fits, Valid, ConfigInv
    <2>. QED  BY <1>a, <2>1, <2>2, <2>3 DEF KeysInPhase, ConfigInv, Fits
  <1>17. CASE InstallConfig
    <2>1. UNCHANGED <<key_files, boot, phase, per_user_per_server, config_toml>>
      BY <1>17 DEF InstallConfig, files, key_vars
    <2>2. /\ loop.pc = "install"
          /\ active' = loop.config
          /\ loop' = [loop EXCEPT !.pc = "refresh"]
      BY <1>17 DEF InstallConfig
    <2>3. Fits(active.document)'
      BY <2>1, <2>2 DEF Fits, ConfigInv
    <2>. QED  BY <1>a, <2>1, <2>2, <2>3 DEF KeysInPhase, ConfigInv
  <1>18. CASE RefreshTracker
    <2>1. UNCHANGED <<key_files, boot, phase, per_user_per_server, active, config_toml>>
      BY <1>18 DEF RefreshTracker, files, key_vars
    <2>2. loop.pc = "refresh" /\ loop' = [loop EXCEPT !.pc = "success"]
      BY <1>18 DEF RefreshTracker
    <2>. QED  BY <1>a, <2>1, <2>2 DEF KeysInPhase, ConfigInv, Fits
  <1>19. CASE UNCHANGED vars
    <2>1. UNCHANGED <<key_files, boot, phase, per_user_per_server, active, loop, config_toml>>
      BY <1>19 DEF vars, process_vars, files, key_vars
    <2>. QED  BY <1>a, <2>1 DEF KeysInPhase, ConfigInv, Fits
  <1>. QED
    BY <1>1, <1>2, <1>3, <1>4, <1>5, <1>6, <1>7, <1>8, <1>9, <1>10, <1>11, <1>12, <1>13,
       <1>14, <1>15, <1>16, <1>17, <1>18, <1>19 DEF Next, ReloadLoop

LEMMA LifecycleInvariant == Spec => []LifecycleInv
  <1>. QED  BY InitLifecycleInv, StepLifecycleInv, PTL DEF Spec

-----------------------------------------------------------------------------
(* The configuration in force is valid under the mode the process was      *)
(* started with, whatever main reads before it and the loop reads after.   *)
THEOREM ConfigurationFitsMode == Spec => []ActiveFits
  <1>1. LifecycleInv => ActiveFits
    BY DEF LifecycleInv, ConfigInv, Fits, ActiveFits, Starting
  <1>. QED  BY <1>1, LifecycleInvariant, PTL

(* A public key that ensure_keypair_files wrote is that of the private key *)
(* beside it, wherever earlier starts were stopped.                        *)
THEOREM PublicKeysMatch == Spec => []PublicMatches
  <1>1. LifecycleInv => PublicMatches
    BY DEF LifecycleInv, KeyInv
  <1>. QED  BY <1>1, LifecycleInvariant, PTL

(* No step replaces a private key or the host key once it was written.     *)
THEOREM WrittenKeysAreKept == Spec => KeysKept
  <1>1. LifecycleInv /\ [Next]_vars => [Kept]_vars
    BY StepLifecycleInv
  <1>. QED  BY <1>1, LifecycleInvariant, PTL DEF Spec, KeysKept, Kept

=============================================================================
