----------------------------- MODULE StartUpProofs -----------------------------
(***************************************************************************)
(* More about Lifecycle, for any users, servers, documents and bounds: its *)
(* types, that the settings of the abuse tracker follow the configuration  *)
(* in force, and that the keys a start was to make can be used by the      *)
(* sessions of the process it starts.                                      *)
(***************************************************************************)
EXTENDS LifecycleProofs, SequenceTheorems

(* What there is of revisions is bounded by the edits.                     *)
Typed ==
    /\ TypeOK
    /\ count["edits"] <= MaxEdits /\ config_toml.revision <= count["edits"] + 1

(* The settings are those of the configuration in force, or the last       *)
(* reload of the tracker was refused, except between the two steps of a    *)
(* reload.                                                                 *)
Following ==
    loop.pc \notin {"none", "refresh"} => settings = active.revision \/ refused

Prefix(d, n) == SubSeq(d, 1, n)

Made(d) == dirs[d] # "absent"

(* The start has made the directories above the one it is at.              *)
Above ==
    /\ phase \notin {"down", "seed"} => Made(Root)
    /\ boot.pc \in {"dir", "chmod"} => boot.level \in 1 .. Len(boot.at)
    /\ boot.pc = "dir" => \A n \in 0 .. boot.level - 1 : Made(Prefix(boot.at, n))
    /\ boot.pc = "chmod" => \A n \in 0 .. boot.level : Made(Prefix(boot.at, n))
    /\ boot.pc \in {"private", "private_write", "public", "public_write"} =>
          \A n \in 0 .. Len(boot.at) : Made(Prefix(boot.at, n))

(* A directory has the mode of the umask only until the next step, unless  *)
(* the process was stopped before it.                                      *)
Private ==
    \A d \in Dirs : dirs[d] = "open" =>
        \/ count["stops"] > 0
        \/ phase = "chmod" /\ d = Root
        \/ boot.pc = "chmod" /\ d = BootDir

Done(d) == private_key[d] \in Keys /\ \A e \in PathTo(d) : Made(e)

(* Each key of the snapshot the start began with is there or still to do.  *)
Progress ==
    /\ boot.pc \in {"public", "public_write"} => private_key[boot.at] \in Keys
    /\ phase = "keys" => boot.pc # "off"
    /\ boot.pc \in HostSteps \/ phase = "serving" => boot.todo = {}
    /\ phase \in {"keys", "serving"} =>
          \A d \in KeyDirsOf(provisioned, per_user_per_server) : d \in boot.todo \/ Done(d)

KeyWorld == KeyTypeOK /\ Above /\ Private /\ Progress

StartUpInv ==
    /\ LifecycleInv
    /\ Typed
    /\ Following
    /\ KeyWorld

-----------------------------------------------------------------------------
(* Directories.                                                            *)

LEMMA KeyDirIsPath ==
    ASSUME NEW d \in KeyDirs
    PROVE  /\ d \in Seq(Users \cup Servers) /\ Len(d) \in 1 .. 2
           /\ Len(d) = 2 => d[1] \in Users
  <1>1. CASE d \in {<<u>> : u \in Users}
    <2>1. PICK u \in Users : d = <<u>>
      BY <1>1
    <2>. QED  BY <2>1
  <1>2. CASE d \in Pairs
    <2>1. PICK u \in Users, s \in Servers : d = <<u, s>>
      BY <1>2 DEF Pairs
    <2>. QED  BY <2>1
  <1>. QED  BY <1>1, <1>2 DEF KeyDirs

LEMMA Prefixes ==
    ASSUME NEW d \in KeyDirs
    PROVE  /\ Len(d) \in 1 .. 2
           /\ Prefix(d, 0) = Root /\ Prefix(d, Len(d)) = d
           /\ \A n \in 1 .. Len(d) : Prefix(d, n) \in KeyDirs
           /\ PathTo(d) = {Prefix(d, n) : n \in 0 .. Len(d)}
           /\ \A m, n \in 0 .. Len(d) : Prefix(d, m) = Prefix(d, n) => m = n
           /\ \A n \in 0 .. Len(d) :
                 PathTo(Prefix(d, n)) = {Prefix(d, m) : m \in 0 .. n}
  <1>. DEFINE S == Users \cup Servers
  <1>0. d \in Seq(S) /\ Len(d) \in 1 .. 2
    BY KeyDirIsPath
  <1>. HIDE DEF S
  <1>1. /\ Prefix(d, 0) = Root /\ Prefix(d, Len(d)) = d
        /\ PathTo(d) = {Prefix(d, n) : n \in 0 .. Len(d)}
    BY <1>0, SubSeqEmpty, SubSeqFull DEF Prefix, Root, PathTo
  <1>2. \A n \in 0 .. Len(d) : Prefix(d, n) \in Seq(S) /\ Len(Prefix(d, n)) = n
    <2>. SUFFICES ASSUME NEW n \in 0 .. Len(d)
                  PROVE  Prefix(d, n) \in Seq(S) /\ Len(Prefix(d, n)) = n
      OBVIOUS
    <2>1. n \in Int /\ \A i \in 1 .. n : d[i] \in S
      BY <1>0
    <2>2. Prefix(d, n) \in Seq(S) /\ Len(Prefix(d, n)) = IF 1 <= n THEN n - 1 + 1 ELSE 0
      BY <2>1, SubSeqProperties DEF Prefix
    <2>. QED  BY <1>0, <2>2
  <1>3. ASSUME NEW n \in 1 .. Len(d)
        PROVE  Prefix(d, n) \in KeyDirs
    <2>1. CASE n = Len(d)
      BY <1>1, <2>1
    <2>2. CASE n # Len(d)
      <3>0. \A l \in 1 .. 2 : \A k \in 1 .. l : k # l => k = 1 /\ l = 2
        OBVIOUS
      <3>1. n = 1 /\ Len(d) = 2
        BY <1>0, <2>2, <3>0
      <3>2. Prefix(d, n) \in Seq(S) /\ Len(Prefix(d, n)) = 1
        BY <1>0, <1>2, <3>1
      <3>3. Prefix(d, n) = <<Prefix(d, n)[1]>>
        BY <3>2
      <3>4. Prefix(d, n)[1] = d[1]
        BY <1>0, <3>1, SubSeqProperties DEF Prefix
      <3>. QED  BY <3>1, <3>3, <3>4, KeyDirIsPath DEF KeyDirs
    <2>. QED  BY <2>1, <2>2
  <1>4. ASSUME NEW n \in 0 .. Len(d)
        PROVE  PathTo(Prefix(d, n)) = {Prefix(d, m) : m \in 0 .. n}
    <2>1. PathTo(Prefix(d, n)) = {SubSeq(Prefix(d, n), 1, m) : m \in 0 .. n}
      BY <1>2 DEF PathTo
    <2>2. ASSUME NEW m \in 0 .. n
          PROVE  SubSeq(Prefix(d, n), 1, m) = Prefix(d, m)
      <3>1. CASE m = 0
        BY <1>0, <1>2, <3>1, SubSeqEmpty DEF Prefix
      <3>2. CASE m # 0
        <4>1. /\ 1 \in 1 .. Len(d) /\ n \in 1 .. Len(d)
              /\ 1 \in 1 .. n - 1 + 1 /\ m \in 1 .. n - 1 + 1
              /\ 1 + 1 - 1 = 1 /\ 1 + m - 1 = m
          BY <1>0, <3>2
        <4>. QED  BY <1>0, <4>1, SubSeqOfSubSeq DEF Prefix
      <3>. QED  BY <3>1, <3>2
    <2>. QED  BY <2>1, <2>2
  <1>. QED  BY <1>0, <1>1, <1>2, <1>3, <1>4

-----------------------------------------------------------------------------
(* The steps that make keys.                                               *)

Boots == [pc : {"off"} \cup KeySteps \cup HostSteps, todo : SUBSET KeyDirs,
          at : Dirs, level : 0 .. 2]

LEMMA BootDirShape ==
    ASSUME boot \in Boots, boot.at \in KeyDirs, boot.level \in 1 .. Len(boot.at)
    PROVE  /\ BootDir = Prefix(boot.at, boot.level) /\ BootDir \in KeyDirs /\ BootDir \in Dirs
           /\ PathTo(BootDir) = {Prefix(boot.at, n) : n \in 0 .. boot.level}
           /\ \A n \in 0 .. boot.level - 1 : n \in 0 .. boot.level
           /\ \A n \in 0 .. boot.level : n \in 0 .. boot.level - 1 \/ n = boot.level
  <1>1. BootDir = Prefix(boot.at, boot.level)
    BY DEF BootDir, Prefix
  <1>2. Len(boot.at) \in 1 .. 2
    BY Prefixes
  <1>3. boot.level \in 0 .. Len(boot.at)
    BY <1>2
  <1>4. /\ \A n \in 0 .. boot.level - 1 : n \in 0 .. boot.level
        /\ \A n \in 0 .. boot.level : n \in 0 .. boot.level - 1 \/ n = boot.level
    BY <1>2
  <1>. QED  BY <1>1, <1>3, <1>4, Prefixes DEF Dirs

LEMMA BootDirDoneShape ==
    ASSUME boot \in Boots, boot.at \in KeyDirs, boot.level \in 1 .. Len(boot.at),
           boot' = BootDirDone
    PROVE  /\ boot' \in Boots /\ boot'.at = boot.at /\ boot'.todo = boot.todo
           /\ \/ /\ boot'.pc = "dir" /\ boot'.level \in 1 .. Len(boot.at)
                 /\ 0 .. boot'.level - 1 = 0 .. boot.level
              \/ /\ boot'.pc = "private" /\ boot.level = Len(boot.at)
  <1>0. Len(boot.at) \in 1 .. 2 /\ {"dir", "private"} \subseteq KeySteps
    BY Prefixes DEF KeySteps
  <1>1. CASE boot.level < Len(boot.at)
    <2>1. boot' = [boot EXCEPT !.pc = "dir", !.level = boot.level + 1]
      BY <1>1 DEF BootDirDone
    <2>0. \A l \in 1 .. 2 : \A k \in 1 .. l :
             k < l => k + 1 \in 0 .. 2 /\ k + 1 \in 1 .. l /\ k + 1 - 1 = k
      OBVIOUS
    <2>2. /\ boot.level + 1 \in 0 .. 2 /\ boot.level + 1 \in 1 .. Len(boot.at)
          /\ boot.level + 1 - 1 = boot.level
      BY <1>0, <1>1, <2>0
    <2>3. boot' \in Boots /\ boot'.pc = "dir" /\ boot'.level = boot.level + 1
          /\ boot'.at = boot.at /\ boot'.todo = boot.todo
      BY <1>0, <2>1, <2>2 DEF Boots
    <2>. QED  BY <2>2, <2>3
  <1>2. CASE ~(boot.level < Len(boot.at))
    <2>1. boot' = [boot EXCEPT !.pc = "private"]
      BY <1>2 DEF BootDirDone
    <2>2. boot.level = Len(boot.at)
      BY <1>0, <1>2
    <2>. QED  BY <1>0, <2>1, <2>2 DEF Boots
  <1>. QED  BY <1>1, <1>2

LEMMA KeyDirsOfPairs ==
    ASSUME NEW ps \in SUBSET Pairs, NEW mode
    PROVE  KeyDirsOf(ps, mode) \subseteq KeyDirs
BY KeyDirOfPair DEF KeyDirsOf

(* Where making a key stands, while its start goes on.                     *)
Starts ==
    /\ KeyWorld /\ phase = "keys" /\ provisioned \subseteq Pairs
    /\ UNCHANGED <<phase, per_user_per_server, provisioned, count>>

LEMMA StartsFacts ==
    ASSUME Starts
    PROVE  /\ dirs \in [Dirs -> {"absent", "open", "private"}]
           /\ boot \in Boots /\ Root \in Dirs /\ KeyDirs \subseteq Dirs
           /\ KeyDirsOf(provisioned, per_user_per_server) \subseteq KeyDirs
           /\ KeyDirsOf(provisioned, per_user_per_server)'
                 = KeyDirsOf(provisioned, per_user_per_server)
           /\ boot.pc \in KeySteps \ {"next"} => boot.at \in boot.todo /\ boot.at \in KeyDirs
           /\ Made(Root) /\ phase' = "keys"
  <1>1. /\ boot \in Boots /\ dirs \in [Dirs -> {"absent", "open", "private"}]
        /\ boot.pc \in KeySteps \ {"next"} => boot.at \in boot.todo
    BY DEF Starts, KeyWorld, KeyTypeOK, Boots
  <1>2. boot.todo \subseteq KeyDirs
    BY <1>1 DEF Boots
  <1>3. Made(Root)
    BY DEF Starts, KeyWorld, Above
  <1>. QED  BY <1>1, <1>2, <1>3, KeyDirsOfPairs DEF Starts, KeyDirsOf, Dirs

(* A directory is made, or the start goes on to the next.                  *)
LEMMA StepDirectories ==
    ASSUME Starts, NextKeyDir \/ EnsureRealDirectory \/ SetPermissions
    PROVE  KeyWorld'
  <1>0. /\ dirs \in [Dirs -> {"absent", "open", "private"}]
        /\ boot \in Boots /\ KeyDirs \subseteq Dirs
        /\ KeyDirsOf(provisioned, per_user_per_server) \subseteq KeyDirs
        /\ KeyDirsOf(provisioned, per_user_per_server)'
              = KeyDirsOf(provisioned, per_user_per_server)
        /\ boot.pc \in KeySteps \ {"next"} => boot.at \in boot.todo /\ boot.at \in KeyDirs
        /\ Made(Root) /\ phase' = "keys" /\ phase = "keys" /\ UNCHANGED count
        /\ KeyTypeOK /\ Above /\ Private /\ Progress
    BY StartsFacts DEF Starts, KeyWorld
  <1>1. UNCHANGED <<private_key, public_key, host_key, generated>>
    BY DEF NextKeyDir, EnsureRealDirectory, SetPermissions, key_files
  <1>2. ASSUME boot' \in Boots, boot'.todo = boot.todo, boot'.pc \in {"dir", "chmod", "private"},
               boot'.at \in boot.todo,
               dirs' \in [Dirs -> {"absent", "open", "private"}],
               \A d \in Dirs : Made(d) => Made(d)',
               \A d \in KeyDirs : Made(d)' /\ ~Made(d) => \A e \in PathTo(d) : Made(e)',
               \A d \in KeyDirs : PathTo(d) \subseteq Dirs
        PROVE  KeyTypeOK' /\ Progress'
    <2>1. \A d \in KeyDirs : Made(d)' => \A e \in PathTo(d) : Made(e)'
      BY <1>0, <1>2 DEF KeyTypeOK, Made
    <2>2. \A d \in KeyDirs : ~Made(d)' => private_key'[d] = NoFile /\ public_key'[d] = NoFile
      BY <1>0, <1>1, <1>2 DEF KeyTypeOK, Made
    <2>3. KeyTypeOK'
      BY <1>0, <1>1, <1>2, <2>1, <2>2 DEF KeyTypeOK, Boots, Made
    <2>4. \A d \in KeyDirs : Done(d) => Done(d)'
      BY <1>1, <1>2 DEF Done
    <2>. QED  BY <1>0, <1>2, <2>3, <2>4 DEF Progress, HostSteps
  <1>3. \A d \in KeyDirs : PathTo(d) \subseteq Dirs
    <2>. SUFFICES ASSUME NEW d \in KeyDirs, NEW n \in 0 .. Len(d) PROVE Prefix(d, n) \in Dirs
      BY Prefixes
    <2>1. n = 0 \/ n \in 1 .. Len(d)
      OBVIOUS
    <2>. QED  BY <2>1, Prefixes DEF Dirs
  <1>4. CASE NextKeyDir
    <2>1. PICK d \in boot.todo : boot' = [boot EXCEPT !.pc = "dir", !.at = d, !.level = 1]
      BY <1>4 DEF NextKeyDir
    <2>a. boot.pc = "next" /\ UNCHANGED dirs
      BY <1>4 DEF NextKeyDir
    <2>b. d \in KeyDirs /\ d \in Dirs
      BY <1>0 DEF Boots
    <2>c. 1 \in 0 .. 2 /\ "dir" \in {"off"} \cup KeySteps \cup HostSteps
      BY DEF KeySteps
    <2>2. /\ boot' \in Boots /\ boot'.pc = "dir" /\ boot'.at = d /\ boot'.level = 1
          /\ boot'.todo = boot.todo
      BY <1>0, <2>1, <2>b, <2>c DEF Boots
    <2>3. KeyTypeOK' /\ Progress'
      BY <1>0, <1>2, <1>3, <2>2, <2>a DEF Made
    <2>4. Above'
      <3>0. \A l \in 1 .. 2 : 1 \in 1 .. l
        OBVIOUS
      <3>1. 1 \in 1 .. Len(d) /\ Prefix(d, 0) = Root
        BY <2>b, <3>0, Prefixes
      <3>2. \A n \in 0 .. 1 - 1 : n = 0
        OBVIOUS
      <3>. QED  BY <1>0, <2>2, <2>a, <3>1, <3>2 DEF Above, Made
    <2>5. Private'
      BY <1>0, <2>2, <2>a DEF Private
    <2>. QED  BY <2>3, <2>4, <2>5 DEF KeyWorld
  <1>5. CASE EnsureRealDirectory \/ SetPermissions
    <2>0. /\ boot.pc \in {"dir", "chmod"} /\ boot.at \in boot.todo /\ boot.at \in KeyDirs
          /\ boot.level \in 1 .. Len(boot.at)
      BY <1>0, <1>5 DEF EnsureRealDirectory, SetPermissions, Above, KeySteps
    <2>1. /\ BootDir = Prefix(boot.at, boot.level) /\ BootDir \in KeyDirs /\ BootDir \in Dirs
          /\ PathTo(BootDir) = {Prefix(boot.at, n) : n \in 0 .. boot.level}
          /\ \A n \in 0 .. boot.level - 1 : n \in 0 .. boot.level
          /\ \A n \in 0 .. boot.level : n \in 0 .. boot.level - 1 \/ n = boot.level
      BY <1>0, <2>0, BootDirShape
    <2>2. \A n \in 0 .. boot.level : Prefix(boot.at, n) \in Dirs
      BY <1>3, <2>1
    <2>3. CASE boot.pc = "dir" /\ MakeDirectory(BootDir) /\ boot' = [boot EXCEPT !.pc = "chmod"]
      <3>1. /\ boot' \in Boots /\ boot'.pc = "chmod" /\ boot'.at = boot.at
            /\ boot'.level = boot.level /\ boot'.todo = boot.todo
        BY <1>0, <2>3 DEF Boots, KeySteps
      <3>2. PICK c \in KeyDirs : c = BootDir
        BY <2>1
      <3>3. /\ dirs' \in [Dirs -> {"absent", "open", "private"}]
            /\ dirs'[c] = "open" /\ dirs[c] = "absent"
            /\ \A d \in Dirs : d # c => dirs'[d] = dirs[d]
        BY <1>0, <2>1, <2>3, <3>2 DEF MakeDirectory
      <3>4. /\ \A d \in Dirs : Made(d) => Made(d)'
            /\ \A d \in KeyDirs : Made(d)' /\ ~Made(d) => d = c
            /\ Made(c)'
        BY <1>0, <3>3 DEF Made
      <3>5. \A n \in 0 .. boot.level : Made(Prefix(boot.at, n))'
        <4>. SUFFICES ASSUME NEW n \in 0 .. boot.level PROVE Made(Prefix(boot.at, n))'
          OBVIOUS
        <4>1. CASE n \in 0 .. boot.level - 1
          <5>1. Made(Prefix(boot.at, n))
            BY <1>0, <2>3, <4>1 DEF Above
          <5>2. Prefix(boot.at, n) \in Dirs
            BY <2>2
          <5>. QED  BY <3>1, <3>4, <5>1, <5>2 DEF Made
        <4>2. CASE n = boot.level
          BY <2>1, <3>1, <3>2, <3>4, <4>2 DEF Made
        <4>. QED  BY <2>1, <4>1, <4>2
      <3>6. KeyTypeOK' /\ Progress'
        <4>1. \A e \in PathTo(c) : Made(e)'
          BY <2>1, <3>1, <3>2, <3>5 DEF Made
        <4>. QED  BY <1>2, <1>3, <2>0, <3>1, <3>3, <3>4, <4>1
      <3>7. Above'
        BY <1>0, <2>0, <3>1, <3>4, <3>5 DEF Above, Made, Dirs
      <3>8. Private'
        <4>1. BootDir' = c
          BY <3>1, <3>2 DEF BootDir
        <4>. QED  BY <1>0, <2>3, <3>1, <3>3, <4>1 DEF Private
      <3>. QED  BY <3>6, <3>7, <3>8 DEF KeyWorld
    <2>4. CASE /\ boot' = BootDirDone /\ \A d \in Dirs : Made(d)' <=> Made(d)
               /\ dirs' \in [Dirs -> {"absent", "open", "private"}]
               /\ \A n \in 0 .. boot.level : Made(Prefix(boot.at, n))
               /\ \A d \in Dirs : dirs'[d] = "open" =>
                     dirs[d] = "open" /\ (boot.pc = "chmod" => d # BootDir)
      <3>1. /\ boot' \in Boots /\ boot'.at = boot.at /\ boot'.todo = boot.todo
            /\ \/ /\ boot'.pc = "dir" /\ boot'.level \in 1 .. Len(boot.at)
                  /\ 0 .. boot'.level - 1 = 0 .. boot.level
               \/ /\ boot'.pc = "private" /\ boot.level = Len(boot.at)
        BY <1>0, <2>0, <2>4, BootDirDoneShape
      <3>2. KeyTypeOK' /\ Progress'
        BY <1>0, <1>2, <1>3, <2>0, <2>4, <3>1
      <3>3. \A n \in 0 .. boot.level : Made(Prefix(boot.at, n))'
        BY <2>2, <2>4, <3>1 DEF Made
      <3>4. Made(Root)'
        BY <1>0, <2>4 DEF Dirs
      <3>5. Above'
        BY <1>0, <3>1, <3>3, <3>4 DEF Above, Made
      <3>6. Private'
        BY <1>0, <2>4 DEF Private
      <3>. QED  BY <3>2, <3>5, <3>6 DEF KeyWorld
    <2>5. CASE EnsureRealDirectory
      <3>1. CASE dirs[BootDir] # "absent" /\ boot' = BootDirDone /\ UNCHANGED dirs
        <4>1. boot.pc = "dir"
          BY <2>5 DEF EnsureRealDirectory
        <4>2. \A n \in 0 .. boot.level : Made(Prefix(boot.at, n))
          BY <1>0, <2>1, <3>1, <4>1 DEF Above, Made
        <4>. QED  BY <1>0, <2>4, <3>1, <4>1, <4>2 DEF Made
      <3>. QED  BY <2>3, <2>5, <3>1 DEF EnsureRealDirectory
    <2>6. CASE SetPermissions
      <3>1. /\ boot.pc = "chmod" /\ dirs' = [dirs EXCEPT ![BootDir] = "private"]
            /\ boot' = BootDirDone
        BY <2>6 DEF SetPermissions, SetDirectoryMode
      <3>2. \A n \in 0 .. boot.level : Made(Prefix(boot.at, n))
        BY <1>0, <3>1 DEF Above
      <3>3. Made(BootDir)
        BY <2>0, <2>1, <3>2
      <3>4. /\ dirs' \in [Dirs -> {"absent", "open", "private"}]
            /\ dirs'[BootDir] = "private"
            /\ \A d \in Dirs : d # BootDir => dirs'[d] = dirs[d]
        BY <1>0, <2>1, <3>1
      <3>5. \A d \in Dirs : Made(d)' <=> Made(d)
        BY <3>3, <3>4 DEF Made
      <3>. QED  BY <2>4, <3>1, <3>2, <3>4, <3>5
    <2>. QED  BY <1>5, <2>5, <2>6
  <1>. QED  BY <1>4, <1>5

(* The files are made where the start has made the directories.            *)
LEMMA StepFiles ==
    ASSUME Starts,
           \/ EnsurePrivateKey \/ WritePrivateKey \/ EnsurePublicKey \/ WritePublicKey
           \/ BeginHostKey \/ EnsureHostKey \/ WriteHostKey
    PROVE  KeyWorld'
  <1>0. /\ boot \in Boots /\ UNCHANGED <<dirs, count>>
        /\ KeyDirsOf(provisioned, per_user_per_server) \subseteq KeyDirs
        /\ KeyDirsOf(provisioned, per_user_per_server)'
              = KeyDirsOf(provisioned, per_user_per_server)
        /\ boot.pc \in KeySteps \ {"next"} => boot.at \in boot.todo /\ boot.at \in KeyDirs
        /\ Made(Root) /\ phase' = "keys" /\ phase = "keys"
        /\ KeyTypeOK /\ Above /\ Private /\ Progress
        /\ private_key \in [KeyDirs -> KeyFile] /\ public_key \in [KeyDirs -> KeyFile]
        /\ host_key \in KeyFile /\ generated \subseteq Keys /\ boot.todo \subseteq KeyDirs
    BY StartsFacts
       DEF Starts, KeyWorld, KeyTypeOK, Boots, EnsurePrivateKey, WritePrivateKey, EnsurePublicKey,
           WritePublicKey, BeginHostKey, EnsureHostKey, WriteHostKey, key_files
  <1>1. ASSUME KeysLast
        PROVE  RandomKey \in Keys
    BY <1>1 DEF KeysLast, RandomKey
  <1>2. {NoFile, Torn} \subseteq KeyFile /\ Keys \subseteq KeyFile
    BY DEF KeyFile
  <1>3. Private'
    <2>1. boot.pc # "chmod" /\ phase # "chmod"
      BY <1>0 DEF EnsurePrivateKey, WritePrivateKey, EnsurePublicKey,
           WritePublicKey, BeginHostKey, EnsureHostKey, WriteHostKey, KeysDone
    <2>. QED  BY <1>0, <2>1 DEF Private
  <1>4. ASSUME boot' \in Boots, boot'.pc \in KeySteps \cup HostSteps,
               boot'.pc \in KeySteps \ {"next"} => boot'.at \in boot'.todo,
               private_key' \in [KeyDirs -> KeyFile], public_key' \in [KeyDirs -> KeyFile],
               host_key' \in KeyFile, generated' \subseteq Keys,
               \A d \in KeyDirs : ~Made(d) =>
                  private_key'[d] = private_key[d] /\ public_key'[d] = public_key[d],
               \A d \in KeyDirs : private_key[d] \in Keys => private_key'[d] \in Keys,
               boot'.pc \in {"public", "public_write"} => private_key'[boot'.at] \in Keys,
               \A d \in KeyDirs : d \in boot.todo => d \in boot'.todo \/ Done(d)',
               boot'.pc \in HostSteps => boot'.todo = {}
        PROVE  KeyTypeOK' /\ Progress'
    <2>1. KeyTypeOK'
      BY <1>0, <1>4 DEF KeyTypeOK, Boots, Made
    <2>2. \A d \in KeyDirs : Done(d) => Done(d)'
      BY <1>0, <1>4 DEF Done, Made
    <2>3. \A d \in KeyDirsOf(provisioned, per_user_per_server) : d \in boot'.todo \/ Done(d)'
      BY <1>0, <1>4, <2>2 DEF Progress
    <2>4. boot'.pc # "off"
      BY <1>4 DEF KeySteps, HostSteps
    <2>. QED  BY <1>0, <1>4, <2>1, <2>3, <2>4 DEF Progress
  <1>5. CASE boot.pc \in {"private", "private_write", "public", "public_write"}
    <2>1. /\ boot.at \in boot.todo /\ boot.at \in KeyDirs
          /\ \A n \in 0 .. Len(boot.at) : Made(Prefix(boot.at, n))
      BY <1>0, <1>5 DEF KeySteps, Above
    <2>2. Made(boot.at) /\ \A e \in PathTo(boot.at) : Made(e)
      <3>1. Len(boot.at) \in 0 .. Len(boot.at)
        <4>1. \A l \in 1 .. 2 : l \in 0 .. l
          OBVIOUS
        <4>. QED  BY <2>1, <4>1, Prefixes
      <3>. QED  BY <2>1, <3>1, Prefixes
    <2>3. CASE \E p \in {"private_write", "public", "public_write"} :
                  boot' = [boot EXCEPT !.pc = p]
      <3>1. PICK p \in {"private_write", "public", "public_write"} :
               boot' = [boot EXCEPT !.pc = p]
        BY <2>3
      <3>2. /\ boot' \in Boots /\ boot'.pc = p /\ boot'.at = boot.at
            /\ boot'.todo = boot.todo /\ boot'.level = boot.level
            /\ p \in KeySteps \ {"next"} /\ p \notin HostSteps
        BY <1>0, <3>1 DEF Boots, KeySteps, HostSteps
      <3>3. Above'
        BY <1>0, <2>1, <3>2 DEF Above, Made, HostSteps
      <3>4. CASE EnsurePrivateKey
        <4>1. /\ \/ /\ private_key[boot.at] = NoFile /\ p = "private_write"
                    /\ private_key' = [private_key EXCEPT ![boot.at] = Torn]
                 \/ /\ private_key[boot.at] \in Keys /\ UNCHANGED private_key
              /\ UNCHANGED <<public_key, host_key, generated>>
          BY <1>0, <3>1, <3>2, <3>4 DEF EnsurePrivateKey, Boots
        <4>2. /\ private_key' \in [KeyDirs -> KeyFile]
              /\ \A d \in KeyDirs : d # boot.at => private_key'[d] = private_key[d]
              /\ private_key[boot.at] \in Keys => private_key'[boot.at] \in Keys
              /\ p # "private_write" => private_key'[boot.at] \in Keys
          BY <1>0, <1>2, <2>1, <4>1, KeysAssumption
        <4>3. KeyTypeOK' /\ Progress'
          BY <1>0, <1>4, <2>1, <2>2, <3>2, <4>1, <4>2 DEF Made
        <4>. QED  BY <1>3, <3>3, <4>3 DEF KeyWorld
      <3>5. CASE WritePrivateKey
        <4>1. /\ KeysLast /\ private_key' = [private_key EXCEPT ![boot.at] = RandomKey]
              /\ generated' = generated \cup {RandomKey}
              /\ UNCHANGED <<public_key, host_key>>
          BY <3>5 DEF WritePrivateKey
        <4>2. /\ private_key' \in [KeyDirs -> KeyFile] /\ generated' \subseteq Keys
              /\ \A d \in KeyDirs : d # boot.at => private_key'[d] = private_key[d]
              /\ private_key'[boot.at] \in Keys
          BY <1>0, <1>1, <1>2, <2>1, <4>1
        <4>3. KeyTypeOK' /\ Progress'
          BY <1>0, <1>4, <2>1, <2>2, <3>2, <4>1, <4>2 DEF Made
        <4>. QED  BY <1>3, <3>3, <4>3 DEF KeyWorld
      <3>6. CASE EnsurePublicKey
        <4>1. /\ boot.pc = "public"
              /\ \/ UNCHANGED public_key
                 \/ public_key' = [public_key EXCEPT ![boot.at] = Torn]
              /\ UNCHANGED <<private_key, host_key, generated>>
          BY <3>6 DEF EnsurePublicKey
        <4>2. /\ public_key' \in [KeyDirs -> KeyFile]
              /\ \A d \in KeyDirs : d # boot.at => public_key'[d] = public_key[d]
              /\ private_key[boot.at] \in Keys
          BY <1>0, <1>2, <2>1, <4>1 DEF Progress
        <4>3. KeyTypeOK' /\ Progress'
          BY <1>0, <1>4, <2>1, <2>2, <3>2, <4>1, <4>2 DEF Made
        <4>. QED  BY <1>3, <3>3, <4>3 DEF KeyWorld
      <3>7. ~WritePublicKey /\ ~BeginHostKey /\ ~EnsureHostKey /\ ~WriteHostKey
        BY <1>0, <1>5, <3>1, <3>2
           DEF WritePublicKey, BeginHostKey, EnsureHostKey, WriteHostKey, KeysDone, KeyDirDone, Boots
      <3>. QED  BY <3>4, <3>5, <3>6, <3>7
    <2>4. CASE boot' = KeyDirDone /\ (EnsurePublicKey \/ WritePublicKey)
      <3>1. boot' = [boot EXCEPT !.pc = "next", !.todo = boot.todo \ {boot.at},
                                 !.at = Root, !.level = 0]
        BY <2>4 DEF KeyDirDone
      <3>2. /\ boot.todo \ {boot.at} \subseteq KeyDirs /\ Root \in Dirs /\ 0 \in 0 .. 2
            /\ "next" \in KeySteps /\ "next" \notin HostSteps
        BY <1>0 DEF Dirs, KeySteps, HostSteps
      <3>3. /\ boot' \in Boots /\ boot'.pc = "next" /\ boot'.todo = boot.todo \ {boot.at}
        BY <1>0, <3>1, <3>2 DEF Boots
      <3>4. Above'
        BY <1>0, <3>3 DEF Above, Made
      <3>5. /\ boot.pc \in {"public", "public_write"}
            /\ \/ UNCHANGED public_key
               \/ public_key' = [public_key EXCEPT ![boot.at] = private_key[boot.at]]
               \/ public_key' = [public_key EXCEPT ![boot.at] = Torn]
            /\ UNCHANGED <<private_key, host_key, generated>>
        BY <2>4 DEF EnsurePublicKey, WritePublicKey
      <3>6. /\ public_key' \in [KeyDirs -> KeyFile]
            /\ \A d \in KeyDirs : d # boot.at => public_key'[d] = public_key[d]
            /\ private_key[boot.at] \in Keys
        BY <1>0, <1>2, <2>1, <3>5 DEF Progress
      <3>7. Done(boot.at) /\ \A d \in KeyDirs : Done(d) => Done(d)'
        BY <1>0, <2>2, <3>5, <3>6 DEF Done, Made
      <3>8. \A d \in KeyDirs : d \in boot.todo => d \in boot'.todo \/ Done(d)'
        BY <2>1, <3>3, <3>7
      <3>9. KeyTypeOK' /\ Progress'
        BY <1>0, <1>4, <2>1, <2>2, <3>2, <3>3, <3>5, <3>6, <3>8 DEF Made
      <3>. QED  BY <1>3, <3>4, <3>9 DEF KeyWorld
    <2>5. \/ \E p \in {"private_write", "public", "public_write"} : boot' = [boot EXCEPT !.pc = p]
          \/ boot' = KeyDirDone /\ (EnsurePublicKey \/ WritePublicKey)
      BY <1>5 DEF EnsurePrivateKey, WritePrivateKey, EnsurePublicKey,
           WritePublicKey, BeginHostKey, EnsureHostKey, WriteHostKey, KeysDone
    <2>. QED  BY <2>3, <2>4, <2>5
  <1>6. CASE BeginHostKey \/ EnsureHostKey \/ WriteHostKey
    <2>1. PICK p \in HostSteps : boot' = [boot EXCEPT !.pc = p]
      BY <1>6 DEF BeginHostKey, EnsureHostKey, WriteHostKey, HostSteps
    <2>2. /\ boot' \in Boots /\ boot'.pc = p /\ boot'.todo = boot.todo
          /\ p \notin KeySteps
      BY <1>0, <2>1 DEF Boots, KeySteps, HostSteps
    <2>3. boot.todo = {}
      BY <1>0, <1>6 DEF BeginHostKey, EnsureHostKey, WriteHostKey, KeysDone, Progress, HostSteps
    <2>4. /\ UNCHANGED <<private_key, public_key>>
          /\ host_key' \in KeyFile /\ generated' \subseteq Keys
      BY <1>0, <1>1, <1>2, <1>6 DEF BeginHostKey, EnsureHostKey, WriteHostKey, key_files
    <2>5. KeyTypeOK' /\ Progress'
      <3>1. p \notin {"public", "public_write"}
        BY <2>2 DEF KeySteps
      <3>. QED  BY <1>0, <1>4, <2>2, <2>3, <2>4, <3>1
    <2>6. Above'
      BY <1>0, <2>2 DEF Above, Made, KeySteps
    <2>. QED  BY <1>3, <2>5, <2>6 DEF KeyWorld
  <1>. QED
    BY <1>5, <1>6 DEF EnsurePrivateKey, WritePrivateKey, EnsurePublicKey, WritePublicKey

LEMMA KeyStepKeyWorld ==
    ASSUME Starts, KeyStep
    PROVE  KeyWorld'
BY StepDirectories, StepFiles DEF KeyStep

-----------------------------------------------------------------------------
(* The steps of the process around it.                                     *)

LEMMA Counting ==
    ASSUME TypeOK, NEW k \in {"edits", "signals", "stops"}, NEW bound, Bump(k, bound)
    PROVE  /\ count' \in [{"edits", "signals", "stops"} -> Nat]
           /\ count[k] < bound /\ count'[k] = count[k] + 1
           /\ \A j \in {"edits", "signals", "stops"} \ {k} : count'[j] = count[j]
           /\ count["stops"] > 0 => count'["stops"] > 0
           /\ k = "stops" => count'["stops"] > 0
  <1>1. count \in [{"edits", "signals", "stops"} -> Nat]
    BY DEF TypeOK
  <1>. QED  BY <1>1 DEF Bump

(* The process goes on with its files as they are.                         *)
LEMMA KeyWorldSame ==
    ASSUME KeyWorld, UNCHANGED <<phase, per_user_per_server, provisioned, key_vars>>,
           count["stops"] > 0 => count'["stops"] > 0
    PROVE  KeyWorld'
  <1>1. UNCHANGED <<dirs, private_key, public_key, host_key, boot, generated>>
    BY DEF key_vars, key_files
  <1>2. KeyTypeOK'
    BY <1>1 DEF KeyWorld, KeyTypeOK
  <1>3. Above'
    BY <1>1 DEF KeyWorld, Above, Made
  <1>4. Private'
    BY <1>1 DEF KeyWorld, Private, BootDir
  <1>5. Progress'
    BY <1>1 DEF KeyWorld, Progress, KeyDirsOf, Done, Made
  <1>. QED  BY <1>2, <1>3, <1>4, <1>5 DEF KeyWorld

(* The process ends.  A directory is left as the umask made it only by a   *)
(* stop.                                                                   *)
LEMMA ExitKeyWorld ==
    ASSUME KeyWorld, Exit,
           \/ count'["stops"] > 0
           \/ phase # "chmod" /\ boot.pc # "chmod" /\ UNCHANGED count
    PROVE  KeyWorld'
  <1>1. /\ UNCHANGED <<dirs, private_key, public_key, host_key, generated>>
        /\ phase' = "down" /\ boot' = Off
    BY DEF Exit, NoProcess, key_files
  <1>2. /\ Off \in Boots /\ Off.pc = "off" /\ "off" \notin KeySteps /\ "off" \notin HostSteps
    BY DEF Off, Boots, Root, Dirs, KeySteps, HostSteps
  <1>3. KeyTypeOK'
    BY <1>1, <1>2 DEF KeyWorld, KeyTypeOK, Boots
  <1>4. Above'
    BY <1>1, <1>2 DEF Above
  <1>5. Private'
    BY <1>1 DEF KeyWorld, Private
  <1>6. Progress'
    BY <1>1, <1>2 DEF Progress
  <1>. QED  BY <1>3, <1>4, <1>5, <1>6 DEF KeyWorld

LEMMA ProcessKeyWorld ==
    ASSUME StartUpInv, Next
    PROVE  KeyWorld'
  <1>0. /\ KeyWorld /\ KeyTypeOK /\ Above /\ Private /\ Progress /\ TypeOK
        /\ dirs \in [Dirs -> {"absent", "open", "private"}]
        /\ boot \in Boots /\ provisioned \subseteq Pairs
        /\ boot.pc # "off" => phase = "keys"
    BY DEF StartUpInv, KeyWorld, KeyTypeOK, Boots, Typed, TypeOK, LifecycleInv, KeysInPhase
  <1>a. "off" \notin KeySteps /\ "off" \notin HostSteps
    BY DEF KeySteps, HostSteps
  <1>b. Root \in Dirs /\ Root \notin KeyDirs
    BY DEF Root, Dirs, KeyDirs, Pairs
  <1>1. CASE EditConfig \/ EditWhitelist \/ Hangup \/ Notify \/ ReloadLoop
    <2>1. UNCHANGED <<phase, per_user_per_server, provisioned, key_vars>>
      BY <1>1 DEF EditConfig, EditWhitelist, Hangup, Notify, ReloadLoop, StartWaiting, ReadConfig,
                  InstallConfig, RefreshTracker, AuditReload, process_vars
    <2>2. \/ UNCHANGED count
          \/ Bump("edits", MaxEdits) \/ Bump("signals", MaxSignals)
      BY <1>1 DEF EditConfig, EditWhitelist, Hangup, Notify, ReloadLoop, StartWaiting, ReadConfig,
                  InstallConfig, RefreshTracker, AuditReload
    <2>3. count["stops"] > 0 => count'["stops"] > 0
      BY <1>0, <2>2, Counting
    <2>. QED  BY <1>0, <2>1, <2>3, KeyWorldSame
  <1>2. CASE Stop
    <2>1. count'["stops"] > 0 /\ Exit
      BY <1>0, <1>2, Counting DEF Stop
    <2>. QED  BY <1>0, <2>1, ExitKeyWorld
  <1>3. CASE RemoveTornKey
    <2>1. /\ phase = "down" /\ boot.pc = "off"
          /\ UNCHANGED <<phase, per_user_per_server, provisioned, dirs, public_key, boot, generated,
                         count>>
      BY <1>0, <1>3 DEF RemoveTornKey, process_vars
    <2>2. /\ private_key' \in [KeyDirs -> KeyFile] /\ host_key' \in KeyFile
          /\ \A d \in KeyDirs : private_key'[d] \in {private_key[d], NoFile}
      BY <1>0, <1>3 DEF RemoveTornKey, KeyTypeOK, KeyFile
    <2>3. KeyTypeOK'
      BY <1>0, <2>1, <2>2 DEF KeyTypeOK
    <2>4. Above'
      BY <1>0, <2>1 DEF Above, Made
    <2>5. Private'
      BY <1>0, <2>1 DEF Private, BootDir
    <2>6. Progress'
      BY <1>a, <2>1 DEF Progress
    <2>. QED  BY <2>3, <2>4, <2>5, <2>6 DEF KeyWorld
  <1>4. CASE /\ UNCHANGED <<dirs, private_key, public_key, host_key, boot, generated, count>>
             /\ \/ phase \notin {"down", "seed", "chmod"}
                \/ phase = "down" /\ phase' = "seed"
             /\ phase' \notin {"down", "keys", "serving"} /\ boot.pc = "off"
    <2>1. KeyTypeOK'
      BY <1>0, <1>4 DEF KeyTypeOK
    <2>2. Above'
      BY <1>0, <1>4, <1>a DEF Above, Made, KeySteps
    <2>3. Private'
      BY <1>0, <1>4 DEF Private, BootDir
    <2>4. Progress'
      BY <1>4, <1>a DEF Progress
    <2>. QED  BY <2>1, <2>2, <2>3, <2>4 DEF KeyWorld
  <1>5. CASE Start
    <2>1. /\ phase = "down" /\ phase' = "seed"
          /\ UNCHANGED <<dirs, private_key, public_key, host_key, boot, generated, count>>
      BY <1>5 DEF Start, key_vars, key_files
    <2>. QED  BY <1>0, <1>4, <2>1
  <1>6. CASE EnsureKeyRoot \/ SetKeyRootPermissions
    <2>1. /\ phase \in {"seed", "chmod"} /\ boot.pc = "off"
          /\ UNCHANGED <<private_key, public_key, host_key, boot, generated, count>>
          /\ \/ dirs[Root] = "absent" /\ dirs' = [dirs EXCEPT ![Root] = "open"] /\ phase' = "chmod"
             \/ /\ dirs[Root] # "absent" /\ UNCHANGED dirs
                /\ phase = "seed" /\ phase' = "load"
             \/ dirs' = [dirs EXCEPT ![Root] = "private"] /\ phase' = "load"
      BY <1>0, <1>6 DEF EnsureKeyRoot, SetKeyRootPermissions, MakeDirectory, SetDirectoryMode,
                        key_files
    <2>2. /\ dirs' \in [Dirs -> {"absent", "open", "private"}]
          /\ \A d \in Dirs : d # Root => dirs'[d] = dirs[d]
          /\ dirs'[Root] # "absent"
          /\ dirs'[Root] = "open" =>
                phase' = "chmod" \/ (dirs[Root] = "open" /\ phase = "seed")
      BY <1>0, <1>b, <2>1
    <2>3. KeyTypeOK'
      <3>1. \A d \in KeyDirs : dirs'[d] = dirs[d] /\ PathTo(d) \subseteq Dirs
        <4>. SUFFICES ASSUME NEW d \in KeyDirs
                      PROVE  dirs'[d] = dirs[d] /\ PathTo(d) \subseteq Dirs
          OBVIOUS
        <4>1. \A n \in 0 .. Len(d) : n = 0 \/ n \in 1 .. Len(d)
          OBVIOUS
        <4>2. \A n \in 0 .. Len(d) : Prefix(d, n) \in Dirs
          BY <4>1, Prefixes DEF Dirs
        <4>. QED  BY <1>b, <2>2, <4>2, Prefixes DEF Dirs
      <3>2. \A d \in KeyDirs : dirs'[d] # "absent" => \A e \in PathTo(d) : dirs'[e] # "absent"
        BY <1>0, <2>2, <3>1 DEF KeyTypeOK
      <3>. QED  BY <1>0, <2>1, <2>2, <3>1, <3>2 DEF KeyTypeOK
    <2>4. Above'
      BY <1>a, <2>1, <2>2 DEF Above, Made, KeySteps
    <2>5. Private'
      BY <1>0, <2>1, <2>2 DEF Private
    <2>6. Progress'
      BY <1>a, <2>1 DEF Progress
    <2>. QED  BY <2>3, <2>4, <2>5, <2>6 DEF KeyWorld
  <1>7. CASE Load \/ LoadTracker
    <2>1. phase \in {"load", "tracker"} /\ UNCHANGED count /\ boot.pc = "off"
      BY <1>0, <1>7 DEF Load, LoadTracker
    <2>2. CASE Exit
      BY <1>0, <2>1, <2>2, ExitKeyWorld
    <2>3. CASE ~Exit
      <3>1. /\ phase' \in {"tracker", "bootstrap"}
            /\ UNCHANGED <<dirs, private_key, public_key, host_key, boot, generated>>
        BY <1>7, <2>3 DEF Load, LoadTracker, key_vars, key_files
      <3>. QED  BY <1>4, <2>1, <3>1
    <2>. QED  BY <2>2, <2>3
  <1>8. CASE Bootstrap
    <2>1. /\ phase = "bootstrap" /\ phase' = "keys" /\ boot.pc = "off"
          /\ provisioned' = active.document.allowed
          /\ UNCHANGED <<per_user_per_server, dirs, private_key, public_key, host_key, generated,
                         count>>
          /\ boot' = [pc |-> "next", at |-> Root, level |-> 0,
                      todo |-> KeyDirsOf(active.document.allowed, per_user_per_server)]
      BY <1>0, <1>8 DEF Bootstrap, BeginKeys, key_files
    <2>2. active.document.allowed \subseteq Pairs
      BY <2>1, DocumentsAssumption DEF StartUpInv, LifecycleInv, ConfigInv, Fits, Document
    <2>3. KeyDirsOf(active.document.allowed, per_user_per_server) \subseteq KeyDirs
      BY <2>2, KeyDirsOfPairs
    <2>4. /\ boot' \in Boots /\ boot'.pc = "next"
          /\ boot'.todo = KeyDirsOf(active.document.allowed, per_user_per_server)
      BY <1>b, <2>1, <2>3 DEF Boots, KeySteps
    <2>5. KeyTypeOK'
      BY <1>0, <2>1, <2>4 DEF KeyTypeOK, Boots
    <2>6. Above'
      BY <1>0, <2>1, <2>4 DEF Above, Made
    <2>7. Private'
      BY <1>0, <2>1, <2>4 DEF Private
    <2>8. Progress'
      BY <2>1, <2>4 DEF Progress, HostSteps, KeyDirsOf
    <2>. QED  BY <2>5, <2>6, <2>7, <2>8 DEF KeyWorld
  <1>9. CASE MakeKeys
    <2>1. KeyStep /\ Starts
      BY <1>0, <1>9 DEF MakeKeys, Starts, process_vars
    <2>. QED  BY <2>1, KeyStepKeyWorld
  <1>10. CASE RefuseKey
    <2>1. /\ Exit /\ UNCHANGED count /\ phase # "chmod" /\ boot.pc # "chmod"
      BY <1>10 DEF RefuseKey, KeyRefused, HostKeyRefused
    <2>. QED  BY <1>0, <2>1, ExitKeyWorld
  <1>11. CASE Serve
    <2>1. /\ phase = "keys" /\ boot.pc = "host_load" /\ phase' = "serving" /\ boot' = Off
          /\ UNCHANGED <<per_user_per_server, provisioned, dirs, private_key, public_key, host_key,
                         generated, count>>
      BY <1>11 DEF Serve, HostKeyLoaded, key_files
    <2>2. Off \in Boots /\ Off.pc = "off" /\ Off.todo = {}
      BY <1>b DEF Off, Boots
    <2>3. boot.todo = {}
      BY <1>0, <2>1 DEF Progress, HostSteps
    <2>4. KeyTypeOK'
      BY <1>0, <1>a, <2>1, <2>2 DEF KeyTypeOK, Boots
    <2>5. Above'
      BY <1>0, <1>a, <2>1, <2>2 DEF Above, Made
    <2>6. Private'
      BY <1>0, <2>1, <2>2 DEF Private
    <2>7. Progress'
      BY <1>0, <1>a, <2>1, <2>2, <2>3 DEF Progress, KeyDirsOf, Done, Made
    <2>. QED  BY <2>4, <2>5, <2>6, <2>7 DEF KeyWorld
  <1>. QED
    BY <1>1, <1>2, <1>3, <1>5, <1>6, <1>7, <1>8, <1>9, <1>10, <1>11 DEF Next

-----------------------------------------------------------------------------
(* The types, and the settings of the abuse tracker.                       *)

LoopPCs == {"none", "spawned", "waiting", "woken", "install", "refresh", "success", "failure"}

LEMMA StartUpTyped ==
    ASSUME StartUpInv, [Next]_vars, KeyTypeOK'
    PROVE  Typed'
  <1>0. /\ TypeOK /\ active \in ConfigFiles \cup {NoDocument} /\ config_toml \in ConfigFiles
        /\ loop \in [pc : LoopPCs, config : ConfigFiles \cup {NoDocument}]
        /\ count \in [{"edits", "signals", "stops"} -> Nat]
        /\ count["edits"] <= MaxEdits /\ config_toml.revision <= count["edits"] + 1
        /\ per_user_per_server \in BOOLEAN
    BY DEF StartUpInv, Typed, TypeOK, LoopPCs
  <1>a. NoDocument.revision = 0 /\ \A f \in ConfigFiles : f.revision \in Revisions
    BY DEF NoDocument, ConfigFiles
  <1>b. [revision |-> 0, success |-> FALSE] \in [revision : Revisions \cup {0}, success : BOOLEAN]
    OBVIOUS
  <1>c. \A p \in LoopPCs, f \in ConfigFiles \cup {NoDocument} :
           [pc |-> p, config |-> f] \in [pc : LoopPCs, config : ConfigFiles \cup {NoDocument}]
    OBVIOUS
  <1>d. NoLoop = [pc |-> "none", config |-> NoDocument] /\ "none" \in LoopPCs
    BY DEF NoLoop, LoopPCs
  <1>1. ASSUME Exit, UNCHANGED count \/ Stop
        PROVE  Typed'
    <2>1. /\ count' \in [{"edits", "signals", "stops"} -> Nat]
          /\ count'["edits"] = count["edits"]
      BY <1>0, <1>1, Counting DEF Stop
    <2>2. /\ UNCHANGED files
          /\ phase' = "down" /\ per_user_per_server' = FALSE
          /\ active' = NoDocument /\ settings' = 0 /\ hup' = FALSE
          /\ provisioned' = {} /\ refused' = FALSE
          /\ audited' = [revision |-> 0, success |-> FALSE]
          /\ loop' = NoLoop
      BY <1>1 DEF Exit, NoProcess
    <2>3. loop' \in [pc : LoopPCs, config : ConfigFiles \cup {NoDocument}]
      BY <1>c, <1>d, <2>2
    <2>. QED  BY <1>0, <1>b, <2>1, <2>2, <2>3 DEF Typed, TypeOK, files, LoopPCs
  <1>2. CASE EditConfig
    <2>1. /\ UNCHANGED <<process_vars, whitelist>>
          /\ count' \in [{"edits", "signals", "stops"} -> Nat]
          /\ count["edits"] < MaxEdits /\ count'["edits"] = count["edits"] + 1
      BY <1>0, <1>2, Counting DEF EditConfig
    <2>2. PICK document \in Documents \cup {Broken} :
             config_toml' = [revision |-> config_toml.revision + 1, document |-> document]
      BY <1>2 DEF EditConfig
    <2>3. config_toml.revision \in 1 .. MaxEdits + 1
      BY <1>0, <1>a DEF Revisions
    <2>4. /\ config_toml.revision + 1 \in Revisions
          /\ count'["edits"] <= MaxEdits /\ config_toml.revision + 1 <= count'["edits"] + 1
      BY <1>0, <2>1, <2>3, EditsAssumption DEF Revisions
    <2>5. config_toml' \in ConfigFiles /\ config_toml'.revision = config_toml.revision + 1
      BY <2>2, <2>4 DEF ConfigFiles
    <2>. QED  BY <1>0, <2>1, <2>4, <2>5 DEF Typed, TypeOK, process_vars
  <1>3. CASE EditWhitelist
    <2>1. /\ UNCHANGED <<process_vars, config_toml>> /\ whitelist' \in {"good", "bad"}
          /\ count' \in [{"edits", "signals", "stops"} -> Nat]
          /\ count["edits"] < MaxEdits /\ count'["edits"] = count["edits"] + 1
      BY <1>0, <1>3, Counting DEF EditWhitelist
    <2>2. config_toml.revision \in Nat
      BY <1>0, <1>a DEF Revisions
    <2>3. count'["edits"] <= MaxEdits /\ config_toml.revision <= count'["edits"] + 1
      BY <1>0, <2>1, <2>2, EditsAssumption
    <2>. QED  BY <1>0, <2>1, <2>3 DEF Typed, TypeOK, process_vars
  <1>4. CASE Hangup
    <2>1. /\ UNCHANGED <<phase, per_user_per_server, active, settings, loop, provisioned, audited,
                         refused, files>>
          /\ hup' = TRUE
          /\ count' \in [{"edits", "signals", "stops"} -> Nat]
          /\ count'["edits"] = count["edits"]
      BY <1>0, <1>4, Counting DEF Hangup
    <2>. QED  BY <1>0, <2>1 DEF Typed, TypeOK, files
  <1>5. CASE RemoveTornKey \/ MakeKeys \/ UNCHANGED vars
    <2>1. UNCHANGED <<process_vars, files, count>>
      BY <1>5 DEF RemoveTornKey, MakeKeys, vars
    <2>. QED  BY <1>0, <2>1 DEF Typed, TypeOK, process_vars, files
  <1>6. CASE Start
    <2>1. config_toml.document \in Documents /\ config_toml.document \in Document
      BY <1>0, <1>6, DocumentsAssumption DEF Start, ConfigFiles
    <2>2. config_toml.document.per_user_per_server \in BOOLEAN
      BY <2>1 DEF Document
    <2>3. /\ phase' = "seed" /\ per_user_per_server' \in BOOLEAN
          /\ UNCHANGED <<active, settings, hup, loop, provisioned, audited, refused, files, count>>
      BY <1>6, <2>2 DEF Start
    <2>. QED  BY <1>0, <2>3 DEF Typed, TypeOK, files, Starting
  <1>7. CASE EnsureKeyRoot \/ SetKeyRootPermissions \/ Serve
    <2>1. /\ phase' \in {"chmod", "load", "serving"}
          /\ UNCHANGED <<per_user_per_server, active, settings, hup, loop, provisioned, audited,
                         refused, files, count>>
      BY <1>7 DEF EnsureKeyRoot, SetKeyRootPermissions, Serve
    <2>. QED  BY <1>0, <2>1 DEF Typed, TypeOK, files, Starting
  <1>8. CASE Load /\ ~Exit
    <2>1. /\ active' = config_toml /\ phase' = "tracker"
          /\ UNCHANGED <<per_user_per_server, settings, hup, loop, provisioned, audited,
                         refused, files, count>>
      BY <1>8 DEF Load
    <2>. QED  BY <1>0, <2>1 DEF Typed, TypeOK, files, Starting
  <1>9. CASE LoadTracker /\ ~Exit
    <2>1. /\ settings' = active.revision /\ loop' = [NoLoop EXCEPT !.pc = "spawned"]
          /\ phase' = "bootstrap"
          /\ UNCHANGED <<per_user_per_server, active, hup, provisioned, audited, refused, files,
                         count>>
      BY <1>9 DEF LoadTracker
    <2>2. settings' \in Revisions \cup {0}
      BY <1>0, <1>a, <2>1
    <2>3. loop' = [pc |-> "spawned", config |-> NoDocument]
      BY <1>d, <2>1
    <2>4. loop' \in [pc : LoopPCs, config : ConfigFiles \cup {NoDocument}]
      BY <1>c, <2>3 DEF LoopPCs
    <2>. QED  BY <1>0, <2>1, <2>2, <2>4 DEF Typed, TypeOK, files, Starting, LoopPCs
  <1>10. CASE Bootstrap
    <2>1. /\ phase = "bootstrap" /\ phase' = "keys" /\ provisioned' = active.document.allowed
          /\ UNCHANGED <<per_user_per_server, active, settings, hup, loop, audited, refused, files,
                         count>>
      BY <1>10 DEF Bootstrap
    <2>2. active.document.allowed \subseteq Pairs
      BY <2>1, DocumentsAssumption DEF StartUpInv, LifecycleInv, ConfigInv, Fits, Document
    <2>. QED  BY <1>0, <2>1, <2>2 DEF Typed, TypeOK, files, Starting
  <1>11. CASE Notify \/ StartWaiting \/ ReadConfig \/ InstallConfig \/ RefreshTracker \/ AuditReload
    <2>1. UNCHANGED <<phase, per_user_per_server, provisioned, files, count>>
      BY <1>11 DEF Notify, StartWaiting, ReadConfig, InstallConfig, RefreshTracker, AuditReload
    <2>2. active' \in {active, loop.config} /\ hup' \in {hup, FALSE} /\ refused' \in BOOLEAN
      BY <1>0, <1>11 DEF Notify, StartWaiting, ReadConfig, InstallConfig, RefreshTracker,
                         AuditReload, TypeOK
    <2>3. settings' \in {settings, active.revision}
      BY <1>11 DEF Notify, StartWaiting, ReadConfig, InstallConfig, RefreshTracker, AuditReload
    <2>4. loop.config.revision \in Revisions \cup {0} /\ active.revision \in Revisions \cup {0}
      BY <1>0, <1>a
    <2>5. \/ UNCHANGED audited
          \/ audited' = [revision |-> loop.config.revision, success |-> loop.pc = "success"]
      BY <1>11 DEF Notify, StartWaiting, ReadConfig, InstallConfig, RefreshTracker, AuditReload
    <2>6. audited' \in [revision : Revisions \cup {0}, success : BOOLEAN]
      <3>1. audited \in [revision : Revisions \cup {0}, success : BOOLEAN]
        BY <1>0 DEF TypeOK
      <3>2. (loop.pc = "success") \in BOOLEAN
        OBVIOUS
      <3>3. [revision |-> loop.config.revision, success |-> loop.pc = "success"]
              \in [revision : Revisions \cup {0}, success : BOOLEAN]
        BY <2>4, <3>2, Zenon
      <3>. QED  BY <2>5, <3>1, <3>3, Zenon
    <2>7. loop' \in [pc : LoopPCs, config : ConfigFiles \cup {NoDocument}]
      <3>1. CASE \E p \in LoopPCs : loop' = [loop EXCEPT !.pc = p]
        BY <1>0, <3>1
      <3>2. CASE loop' = [NoLoop EXCEPT !.pc = "waiting"]
        <4>1. loop' = [pc |-> "waiting", config |-> NoDocument]
          BY <1>d, <3>2
        <4>. QED  BY <1>c, <4>1 DEF LoopPCs
      <3>3. CASE ReadConfig
        <4>1. \E p \in {"install", "failure"} : loop' = [pc |-> p, config |-> config_toml]
          BY <3>3 DEF ReadConfig
        <4>. QED  BY <1>0, <1>c, <4>1 DEF LoopPCs
      <3>4. CASE UNCHANGED loop
        BY <1>0, <3>4
      <3>. QED
        BY <1>11, <3>1, <3>2, <3>3, <3>4
           DEF Notify, StartWaiting, InstallConfig, RefreshTracker, AuditReload, LoopPCs
    <2>. QED  BY <1>0, <2>1, <2>2, <2>3, <2>4, <2>6, <2>7 DEF Typed, TypeOK, files, LoopPCs
  <1>12. CASE RefuseKey
    BY <1>1, <1>12 DEF RefuseKey
  <1>13. CASE Stop
    BY <1>1, <1>13 DEF Stop
  <1>14. CASE (Load \/ LoadTracker) /\ Exit
    BY <1>1, <1>14 DEF Load, LoadTracker
  <1>. QED
    BY <1>2, <1>3, <1>4, <1>5, <1>6, <1>7, <1>8, <1>9, <1>10, <1>11, <1>12, <1>13, <1>14
       DEF Next, ReloadLoop

(* Only a reload changes the configuration of a process that has its loop, *)
(* and it goes on to the tracker.                                          *)
LEMMA StartUpFollowing ==
    ASSUME StartUpInv, [Next]_vars
    PROVE  Following'
  <1>0. /\ Following /\ (loop.pc # "none" => phase \in {"bootstrap", "keys", "serving"})
        /\ loop \in [pc : LoopPCs, config : ConfigFiles \cup {NoDocument}]
    BY DEF StartUpInv, LifecycleInv, ConfigInv, Typed, TypeOK, LoopPCs
  <1>1. CASE Exit
    BY <1>1 DEF Exit, NoProcess, NoLoop, Following
  <1>2. CASE /\ UNCHANGED <<settings, active, refused>>
             /\ \/ loop' = loop
                \/ loop.pc \notin {"none", "refresh"} /\ loop'.pc \notin {"none", "refresh"}
    BY <1>0, <1>2 DEF Following
  <1>3. CASE Load /\ ~Exit
    <2>1. phase = "load" /\ UNCHANGED loop
      BY <1>3 DEF Load
    <2>. QED  BY <1>0, <2>1 DEF Following
  <1>4. CASE LoadTracker /\ ~Exit
    BY <1>4 DEF LoadTracker, Following
  <1>5. CASE InstallConfig
    <2>1. loop'.pc = "refresh"
      BY <1>0, <1>5 DEF InstallConfig
    <2>. QED  BY <2>1 DEF Following
  <1>6. CASE RefreshTracker
    <2>1. /\ whitelist = "good" => settings' = active.revision
          /\ whitelist = "bad" => refused' = TRUE
          /\ UNCHANGED active /\ whitelist \in {"good", "bad"}
      BY <1>6 DEF RefreshTracker, StartUpInv, Typed, TypeOK
    <2>. QED  BY <2>1 DEF Following
  <1>7. CASE Notify \/ StartWaiting \/ ReadConfig \/ AuditReload
    <2>1. UNCHANGED <<settings, active, refused>>
      BY <1>7 DEF Notify, StartWaiting, ReadConfig, AuditReload
    <2>2. CASE ReadConfig
      BY <1>2, <2>1, <2>2 DEF ReadConfig
    <2>3. CASE AuditReload
      <3>1. loop.pc \in {"success", "failure"} /\ loop'.pc = "waiting"
        BY <2>3 DEF AuditReload, NoLoop
      <3>. QED  BY <1>2, <2>1, <3>1
    <2>4. CASE Notify \/ StartWaiting
      <3>1. \/ loop' = loop
            \/ loop.pc = "waiting" /\ loop' = [loop EXCEPT !.pc = "woken"]
            \/ loop.pc = "spawned" /\ loop' = [loop EXCEPT !.pc = "waiting"]
        BY <2>4 DEF Notify, StartWaiting
      <3>2. \/ loop' = loop
            \/ loop.pc = "waiting" /\ loop'.pc = "woken"
            \/ loop.pc = "spawned" /\ loop'.pc = "waiting"
        BY <1>0, <3>1
      <3>. QED  BY <1>2, <2>1, <3>2
    <2>. QED  BY <1>7, <2>2, <2>3, <2>4
  <1>8. CASE \/ EditConfig \/ EditWhitelist \/ Hangup \/ RemoveTornKey \/ Start \/ EnsureKeyRoot
             \/ SetKeyRootPermissions \/ Bootstrap \/ MakeKeys \/ Serve \/ UNCHANGED vars
    BY <1>2, <1>8 DEF EditConfig, EditWhitelist, Hangup, RemoveTornKey, Start, EnsureKeyRoot,
             SetKeyRootPermissions, Bootstrap, MakeKeys, Serve, vars, process_vars
  <1>. QED
    BY <1>1, <1>3, <1>4, <1>5, <1>6, <1>7, <1>8 DEF Next, ReloadLoop, Stop, RefuseKey

LEMMA StartUpInit == Init => StartUpInv
  <1>. SUFFICES ASSUME Init PROVE StartUpInv
    OBVIOUS
  <1>1. KeyInit /\ Root \in Dirs
    BY DEF Init, Dirs
  <1>2. /\ Off \in Boots /\ Off.pc = "off" /\ "off" \notin KeySteps /\ "off" \notin HostSteps
    BY <1>1 DEF Off, Boots, KeySteps, HostSteps
  <1>3. /\ boot = Off /\ generated = {} /\ host_key = NoFile
        /\ dirs = [d \in Dirs |-> "absent"]
        /\ private_key = [d \in KeyDirs |-> NoFile] /\ public_key = [d \in KeyDirs |-> NoFile]
        /\ KeyDirs \subseteq Dirs /\ NoFile \in KeyFile
    BY <1>1 DEF KeyInit, KeyFile, Dirs
  <1>4. KeyTypeOK
    BY <1>2, <1>3 DEF KeyTypeOK, Boots
  <1>5. KeyWorld
    BY <1>2, <1>3, <1>4 DEF Init, KeyWorld, Above, Private, Progress
  <1>6. config_toml \in ConfigFiles /\ config_toml.revision = 1
    BY DocumentsAssumption, EditsAssumption DEF Init, ConfigFiles, Revisions
  <1>7. /\ loop = [pc |-> "none", config |-> NoDocument]
        /\ loop \in [pc : LoopPCs, config : ConfigFiles \cup {NoDocument}] /\ loop.pc = "none"
    BY DEF Init, NoLoop, LoopPCs
  <1>8. /\ count \in [{"edits", "signals", "stops"} -> Nat] /\ count["edits"] = 0
    BY DEF Init
  <1>9. 0 <= MaxEdits /\ 1 <= 0 + 1
    BY EditsAssumption
  <1>10. Typed
    BY <1>4, <1>6, <1>7, <1>8, <1>9 DEF Init, Typed, TypeOK, LoopPCs
  <1>. QED  BY <1>5, <1>7, <1>10, InitLifecycleInv DEF StartUpInv, Following

(***************************************************************************)
(* StartUpInv holds in every state: the start leaves behind what the next  *)
(* step, or the next start, counts on.                                     *)
(***************************************************************************)
THEOREM StartUpInvariant == Spec => []StartUpInv
  <1>1. StartUpInv /\ [Next]_vars => StartUpInv'
    <2>. SUFFICES ASSUME StartUpInv, [Next]_vars PROVE StartUpInv'
      OBVIOUS
    <2>1. LifecycleInv'
      BY StepLifecycleInv DEF StartUpInv
    <2>2. KeyWorld'
      <3>1. CASE UNCHANGED vars
        BY <3>1, KeyWorldSame DEF vars, process_vars, StartUpInv
      <3>. QED  BY <3>1, ProcessKeyWorld
    <2>3. Typed' /\ Following'
      BY <2>2, StartUpTyped, StartUpFollowing DEF KeyWorld
    <2>. QED  BY <2>1, <2>2, <2>3 DEF StartUpInv
  <1>. QED  BY <1>1, StartUpInit, PTL DEF Spec

(***************************************************************************)
(* TypeOK: whatever was stopped and edited, a directory has its parents, a *)
(* key file its directory, and no revision is in force that config.toml    *)
(* never had.                                                              *)
(***************************************************************************)
THEOREM TypeCorrect == Spec => []TypeOK
  <1>1. StartUpInv => TypeOK
    BY DEF StartUpInv, Typed
  <1>. QED  BY <1>1, StartUpInvariant, PTL

(***************************************************************************)
(* TrackerFollows: whenever reload_on_signal_loop waits, the abuse tracker *)
(* applies the settings of the configuration in force, unless its own last *)
(* reload was refused.                                                     *)
(***************************************************************************)
THEOREM TrackerFollowsConfiguration == Spec => []TrackerFollows
  <1>1. StartUpInv => TrackerFollows
    BY DEF StartUpInv, Following, TrackerFollows
  <1>. QED  BY <1>1, StartUpInvariant, PTL

(***************************************************************************)
(* KeysUsable: while the gateway serves, every pair whose key the start    *)
(* was to make has it, in directories a strict gateway accepts, but for    *)
(* those a stopped start left as the umask made them.                      *)
(***************************************************************************)
THEOREM KeysAreUsable == Spec => []KeysUsable
  <1>1. StartUpInv => KeysUsable
    <2>. SUFFICES ASSUME StartUpInv, phase = "serving", NEW p \in active.document.allowed,
                         NEW q \in provisioned,
                         KeyDir(p, per_user_per_server) = KeyDir(q, per_user_per_server)
                  PROVE  \/ Usable(p, per_user_per_server)
                         \/ /\ Strict /\ count["stops"] > 0
                            /\ Exposed(KeyDir(p, per_user_per_server))
      BY DEF KeysUsable
    <2>. DEFINE d == KeyDir(q, per_user_per_server)
    <2>1. provisioned \subseteq Pairs /\ boot.todo = {} /\ boot.pc = "off"
      BY DEF StartUpInv, KeyWorld, Progress, Typed, TypeOK, LifecycleInv, KeysInPhase
    <2>2. d \in KeyDirs /\ d \in KeyDirsOf(provisioned, per_user_per_server)
      BY <2>1, KeyDirOfPair DEF KeyDirsOf
    <2>3. Done(d)
      BY <2>1, <2>2 DEF StartUpInv, KeyWorld, Progress
    <2>4. PathTo(d) \subseteq Dirs
      <3>1. \A n \in 0 .. Len(d) : n = 0 \/ n \in 1 .. Len(d)
        OBVIOUS
      <3>. QED  BY <2>2, <3>1, Prefixes DEF Dirs
    <2>. HIDE DEF d
    <2>5. Exposed(d) => count["stops"] > 0
      BY <2>1, <2>4 DEF Exposed, StartUpInv, KeyWorld, Private
    <2>6. CASE Strict /\ Exposed(d)
      BY <2>5, <2>6 DEF d
    <2>7. CASE ~(Strict /\ Exposed(d))
      <3>1. KeyDir(p, per_user_per_server) = d
        BY DEF d
      <3>. QED  BY <2>3, <2>7, <3>1 DEF Usable, Done, Made
    <2>. QED  BY <2>6, <2>7
  <1>. QED  BY <1>1, StartUpInvariant, PTL

=============================================================================
