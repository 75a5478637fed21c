------------------------- MODULE AbuseTrackerProofs -------------------------
(***************************************************************************)
(* Proofs about AbuseTracker for any addresses, tasks, settings and        *)
(* bounds.  The inductive invariant says of every copy of an entry, in the *)
(* table, in a state file or in a reload, that it is well formed for the   *)
(* present time; each operation on entries is shown to keep that.          *)
(*                                                                         *)
(* What bans promise over restarts, what they take, and how far a window   *)
(* may be overshot, holds under conditions that are stated as hypotheses,  *)
(* Dependable and Steady; their invariants RegisterInv, HistoryInv and     *)
(* OvershootInv stand beside that of all specifications and relate table,  *)
(* files, calls in flight and the failures since the last success.         *)
(***************************************************************************)
EXTENDS AbuseHistory, FiniteSetTheorems, SequenceTheorems, TLAPS

GoodEntry(e, t) ==
    /\ e \in AbuseEntry
    /\ WithinCap(e, t)
    /\ InOrder(e.recent_failures, t)
    /\ Earned(e)

-----------------------------------------------------------------------------
(* The operations on entries.                                              *)

(* prune_failures leaves a suffix of the failures.                         *)
LEMMA PruneIsSuffix ==
    ASSUME NEW q \in Seq(Nat), NEW t \in Nat, NEW w \in Nat
    PROVE  \E k \in 0 .. Len(q) :
              /\ PruneFailures(q, t, w) \in Seq(Nat)
              /\ Len(PruneFailures(q, t, w)) = Len(q) - k
              /\ \A i \in 1 .. Len(q) - k : PruneFailures(q, t, w)[i] = q[k + i]
<1> DEFINE stale == {i \in 1 .. Len(q) : \A j \in 1 .. i : q[j] + w < t}
           k == Cardinality(stale)
<1>1. Len(q) \in Nat /\ \A i \in 1 .. Len(q) : q[i] \in Nat
  BY LenProperties, ElementOfSeq
<1>2. IsFiniteSet(1 .. Len(q)) /\ Cardinality(1 .. Len(q)) = Len(q)
  BY <1>1, FS_Interval
<1>3. IsFiniteSet(stale) /\ k <= Len(q)
  BY <1>2, FS_Subset
<1>4. k \in Nat
  BY <1>3, FS_CardinalityType
<1>5. k \in 0 .. Len(q)
  BY <1>1, <1>3, <1>4
<1>6. PruneFailures(q, t, w) = SubSeq(q, k + 1, Len(q))
  BY DEF PruneFailures
<1> HIDE DEF k
<1>7. \A i \in k + 1 .. Len(q) : q[i] \in Nat
  BY <1>1, <1>4
<1>8. /\ SubSeq(q, k + 1, Len(q)) \in Seq(Nat)
      /\ Len(SubSeq(q, k + 1, Len(q))) = Len(q) - k
      /\ \A i \in 1 .. Len(q) - k : SubSeq(q, k + 1, Len(q))[i] = q[k + i]
  <2>1. /\ SubSeq(q, k + 1, Len(q)) \in Seq(Nat)
        /\ Len(SubSeq(q, k + 1, Len(q))) =
              IF k + 1 <= Len(q) THEN Len(q) - (k + 1) + 1 ELSE 0
        /\ \A i \in 1 .. Len(q) - (k + 1) + 1 :
              SubSeq(q, k + 1, Len(q))[i] = q[(k + 1) + i - 1]
    BY <1>1, <1>4, <1>7, SubSeqProperties
  <2>2. \A i \in 1 .. Len(q) - k : (k + 1) + i - 1 = k + i
    BY <1>1, <1>4
  <2> QED BY <2>1, <2>2, <1>1, <1>5
<1> QED BY <1>5, <1>6, <1>8

(* compute_ban_duration is positive and at most max_ban_time.              *)
LEMMA BanDurationBounds ==
    ASSUME NEW s \in Settings, NEW n \in BanCounts
    PROVE  ComputeBanDuration(s, n) \in 1 .. s.max_ban_time
<1>1. /\ s.ban_time \in Nat \ {0} /\ s.max_ban_time \in Nat
      /\ s.ban_time <= s.max_ban_time /\ s.scale[n] \in Nat \ {0}
  BY SettingsAssumption DEF ValidSettings
<1>2. ScaledBan(s, n) \in Nat \ {0}
  BY <1>1 DEF ScaledBan
<1> QED BY <1>1, <1>2 DEF ComputeBanDuration

(* The entry of an address that was never seen is good.                    *)
LEMMA GoodDefault ==
    ASSUME NEW t \in Nat
    PROVE  GoodEntry(DefaultEntry, t)
<1>1. DefaultEntry \in AbuseEntry
  BY BoundsAssumption DEF DefaultEntry, AbuseEntry, BanCounts, NoBan
<1> QED BY <1>1 DEF GoodEntry, DefaultEntry, WithinCap, InOrder, Earned, NoBan

(* An entry that is good stays good as time passes.                        *)
LEMMA GoodLater ==
    ASSUME NEW t \in Nat, NEW u \in Nat, t <= u, NEW e, GoodEntry(e, t)
    PROVE  GoodEntry(e, u)
<1>1. e \in AbuseEntry /\ e.ban_until \in Nat /\ e.recent_failures \in Seq(Nat)
  BY DEF GoodEntry, AbuseEntry
<1>2. WithinCap(e, u)
  <2>1. CASE e.ban_until = NoBan
    BY <2>1 DEF WithinCap
  <2>2. CASE \E s \in Settings : e.ban_until <= t + s.max_ban_time
    <3>1. PICK s \in Settings : e.ban_until <= t + s.max_ban_time
      BY <2>2
    <3>2. s.max_ban_time \in Nat
      BY SettingsAssumption DEF ValidSettings
    <3>3. e.ban_until <= u + s.max_ban_time
      BY <1>1, <3>1, <3>2
    <3> QED BY <3>3 DEF WithinCap
  <2> QED BY <2>1, <2>2 DEF GoodEntry, WithinCap
<1>3. InOrder(e.recent_failures, u)
  <2>1. \A i \in 1 .. Len(e.recent_failures) : e.recent_failures[i] \in Nat
    BY <1>1, ElementOfSeq
  <2> QED BY <2>1 DEF GoodEntry, InOrder
<1> QED BY <1>1, <1>2, <1>3 DEF GoodEntry

(* prune_failures keeps an entry good: what is left is a suffix.           *)
LEMMA GoodPruned ==
    ASSUME NEW t \in Nat, NEW w \in Nat, NEW e, GoodEntry(e, t)
    PROVE  /\ GoodEntry(PruneEntry(e, t, w), t)
           /\ PruneEntry(e, t, w).ban_until = e.ban_until
           /\ PruneEntry(e, t, w).ban_count = e.ban_count
<1> DEFINE q == e.recent_failures
           p == PruneEntry(e, t, w)
           r == PruneFailures(q, t, w)
<1>1. e \in AbuseEntry /\ q \in Seq(Nat) /\ e.total_failures \in Nat
      /\ InOrder(q, t) /\ Earned(e) /\ WithinCap(e, t)
  BY DEF GoodEntry, AbuseEntry
<1>2. p = [e EXCEPT !.recent_failures = r]
  BY <1>1 DEF PruneEntry, AbuseEntry
<1>3. PICK k \in 0 .. Len(q) :
          /\ r \in Seq(Nat)
          /\ Len(r) = Len(q) - k
          /\ \A i \in 1 .. Len(q) - k : r[i] = q[k + i]
  BY <1>1, PruneIsSuffix
<1>4. Len(q) \in Nat /\ \A i \in 1 .. Len(q) : q[i] \in Nat
  BY <1>1, LenProperties, ElementOfSeq
<1>5. /\ p \in AbuseEntry /\ p.recent_failures = r
      /\ p.ban_until = e.ban_until /\ p.ban_count = e.ban_count
      /\ p.total_failures = e.total_failures
  BY <1>1, <1>2, <1>3 DEF AbuseEntry
<1> HIDE DEF p, q, r
<1>6. InOrder(r, t)
  <2> SUFFICES ASSUME NEW i \in 1 .. Len(r)
               PROVE  r[i] <= t /\ \A j \in i .. Len(r) : r[i] <= r[j]
    BY DEF InOrder
  <2>1. k + i \in 1 .. Len(q) /\ r[i] = q[k + i]
    BY <1>3, <1>4
  <2>2. \A j \in i .. Len(r) : k + j \in k + i .. Len(q) /\ r[j] = q[k + j]
    BY <1>3, <1>4
  <2> QED BY <1>1, <2>1, <2>2 DEF InOrder
<1>7. Earned(p)
  BY <1>1, <1>3, <1>4, <1>5 DEF Earned, q, AbuseEntry
<1>8. WithinCap(p, t)
  BY <1>1, <1>5 DEF WithinCap
<1>9. GoodEntry(p, t)
  BY <1>5, <1>6, <1>7, <1>8 DEF GoodEntry
<1> QED BY <1>5, <1>9 DEF p

(* check_ip: prune, then clear a ban that has expired.                     *)
LEMMA GoodExpired ==
    ASSUME NEW t \in Nat, NEW s \in Settings, NEW e, GoodEntry(e, t)
    PROVE  /\ GoodEntry(ExpireBan(e, t, s), t)
           /\ Banned(e, t) => ExpireBan(e, t, s).ban_until = e.ban_until
<1> DEFINE p == PruneEntry(e, t, s.find_time)
<1>1. s.find_time \in Nat
  BY SettingsAssumption DEF ValidSettings
<1>2. GoodEntry(p, t) /\ p.ban_until = e.ban_until
  BY <1>1, GoodPruned
<1>3. e.ban_until \in Nat
  BY DEF GoodEntry, AbuseEntry
<1> HIDE DEF p
<1>4. GoodEntry([p EXCEPT !.ban_until = NoBan], t)
  BY <1>2 DEF GoodEntry, AbuseEntry, WithinCap, Earned, NoBan
<1>5. ExpireBan(e, t, s) =
        IF p.ban_until <= t THEN [p EXCEPT !.ban_until = NoBan] ELSE p
  BY DEF ExpireBan, p
<1>6. Banned(e, t) => ~(p.ban_until <= t)
  BY <1>2, <1>3 DEF Banned
<1> QED BY <1>2, <1>4, <1>5, <1>6

(* record_failure up to the threshold: one more failure, the latest.       *)
LEMMA GoodCounted ==
    ASSUME NEW t \in Nat, NEW s \in Settings, NEW e, GoodEntry(e, t)
    PROVE  /\ GoodEntry(CountFailure(e, t, s), t)
           /\ CountFailure(e, t, s).ban_until = e.ban_until
           /\ CountFailure(e, t, s).ban_count + 1
                 <= CountFailure(e, t, s).total_failures
<1> DEFINE p == PruneEntry(e, t, s.find_time)
           q == p.recent_failures
           c == CountFailure(e, t, s)
<1>1. s.find_time \in Nat
  BY SettingsAssumption DEF ValidSettings
<1>2. GoodEntry(p, t) /\ p.ban_until = e.ban_until
  BY <1>1, GoodPruned
<1>3. /\ p \in AbuseEntry /\ q \in Seq(Nat) /\ InOrder(q, t)
      /\ p.total_failures \in Nat /\ p.ban_count \in Nat
      /\ Len(q) <= p.total_failures /\ p.ban_count <= p.total_failures
      /\ WithinCap(p, t)
  BY <1>2, BoundsAssumption DEF GoodEntry, AbuseEntry, Earned, BanCounts
<1>4. c = [p EXCEPT !.recent_failures = Append(q, t),
                    !.total_failures = p.total_failures + 1,
                    !.last_failure = TRUE]
  BY DEF CountFailure
<1>5. /\ Append(q, t) \in Seq(Nat) /\ Len(Append(q, t)) = Len(q) + 1
      /\ Len(q) \in Nat
      /\ \A i \in 1 .. Len(q) : Append(q, t)[i] = q[i] /\ q[i] \in Nat
      /\ Append(q, t)[Len(q) + 1] = t
  BY <1>3
<1> HIDE DEF p, c
<1>6. /\ c \in AbuseEntry /\ c.recent_failures = Append(q, t)
      /\ c.total_failures = p.total_failures + 1
      /\ c.ban_until = p.ban_until /\ c.ban_count = p.ban_count
  <2>1. p.total_failures + 1 \in Nat
    BY <1>3
  <2> HIDE DEF q
  <2> QED BY <1>3, <1>4, <1>5, <2>1 DEF AbuseEntry
<1>7. InOrder(Append(q, t), t)
  <2> SUFFICES ASSUME NEW i \in 1 .. Len(q) + 1
               PROVE  /\ Append(q, t)[i] <= t
                      /\ \A j \in i .. Len(q) + 1 : Append(q, t)[i] <= Append(q, t)[j]
    BY <1>5 DEF InOrder
  <2>1. CASE i = Len(q) + 1
    BY <1>5, <2>1
  <2>2. CASE i \in 1 .. Len(q)
    <3>1. Append(q, t)[i] = q[i] /\ q[i] <= t
      BY <1>3, <1>5, <2>2 DEF InOrder
    <3>2. ASSUME NEW j \in i .. Len(q) PROVE q[i] <= q[j] /\ Append(q, t)[j] = q[j]
      BY <1>3, <1>5, <2>2 DEF InOrder
    <3> QED BY <1>5, <2>2, <3>1, <3>2
  <2> QED BY <1>5, <2>1, <2>2
<1>8. Earned(c) /\ c.ban_count + 1 <= c.total_failures
  BY <1>3, <1>5, <1>6 DEF Earned
<1>9. WithinCap(c, t)
  BY <1>3, <1>6 DEF WithinCap
<1>10. GoodEntry(c, t)
  BY <1>6, <1>7, <1>8, <1>9 DEF GoodEntry
<1> QED BY <1>2, <1>6, <1>8, <1>10 DEF c

(* record_failure at the threshold.                                        *)
LEMMA GoodBanned ==
    ASSUME NEW t \in Nat, NEW s \in Settings, NEW e, GoodEntry(e, t),
           e.ban_count + 1 <= e.total_failures
    PROVE  GoodEntry(Ban(e, t, s), t) /\ Banned(Ban(e, t, s), t)
<1> DEFINE d == ComputeBanDuration(s, e.ban_count)
           b == Ban(e, t, s)
<1>1. e \in AbuseEntry /\ e.ban_count \in BanCounts /\ Earned(e)
  BY DEF GoodEntry, AbuseEntry
<1>2. d \in 1 .. s.max_ban_time /\ s.max_ban_time \in Nat
  BY <1>1, BanDurationBounds, SettingsAssumption DEF ValidSettings
<1>3. SaturatingInc(e.ban_count) \in BanCounts
      /\ SaturatingInc(e.ban_count) <= e.ban_count + 1
  BY <1>1, BoundsAssumption DEF SaturatingInc, BanCounts
<1>4. b = [e EXCEPT !.ban_until = t + d, !.ban_count = SaturatingInc(e.ban_count)]
  BY DEF Ban
<1>5. t + d \in Nat /\ t + d > t /\ t + d <= t + s.max_ban_time
  BY <1>2
<1> HIDE DEF b, d
<1>6. /\ b \in AbuseEntry /\ b.ban_until = t + d
      /\ b.ban_count = SaturatingInc(e.ban_count)
      /\ b.recent_failures = e.recent_failures
      /\ b.total_failures = e.total_failures
  BY <1>1, <1>3, <1>4, <1>5 DEF AbuseEntry
<1>7. Earned(b)
  <2>1. e.ban_count \in Nat /\ e.total_failures \in Nat
    BY <1>1, BoundsAssumption DEF AbuseEntry, BanCounts
  <2>2. SaturatingInc(e.ban_count) \in Nat
    BY <1>3, BoundsAssumption DEF BanCounts
  <2> QED BY <1>1, <1>3, <1>6, <2>1, <2>2 DEF Earned
<1>8. WithinCap(b, t)
  BY <1>5, <1>6 DEF WithinCap
<1>9. GoodEntry(b, t) /\ Banned(b, t)
  BY <1>5, <1>6, <1>7, <1>8 DEF GoodEntry, Banned
<1> QED BY <1>9 DEF b

(* record_success.                                                         *)
LEMMA GoodForgot ==
    ASSUME NEW t \in Nat, NEW e, GoodEntry(e, t)
    PROVE  /\ GoodEntry(ForgetFailures(e, t), t)
           /\ Banned(e, t) => ForgetFailures(e, t) = e
<1> DEFINE f == [e EXCEPT !.recent_failures = << >>]
<1>1. e \in AbuseEntry /\ e.total_failures \in Nat /\ Earned(e) /\ WithinCap(e, t)
  BY DEF GoodEntry, AbuseEntry
<1>2. /\ f \in AbuseEntry /\ f.recent_failures = << >>
      /\ f.total_failures = e.total_failures
      /\ f.ban_count = e.ban_count /\ f.ban_until = e.ban_until
  BY <1>1, EmptySeq DEF AbuseEntry
<1> HIDE DEF f
<1>3. GoodEntry(f, t)
  BY <1>1, <1>2 DEF GoodEntry, InOrder, Earned, WithinCap
<1> QED BY <1>3 DEF ForgetFailures, f

-----------------------------------------------------------------------------
(* The operations on tables.                                               *)

GoodTable(es, t) ==
    /\ es \in [IPs -> AbuseEntry]
    /\ \A ip \in IPs : GoodEntry(es[ip], t)

(* The table of a process that found no state file is good.                *)
LEMMA GoodEmptyTable ==
    ASSUME NEW t \in Nat
    PROVE  GoodTable(NoEntries, t)
BY GoodDefault DEF GoodTable, NoEntries, GoodEntry

(* A good table stays good as time passes.                                 *)
LEMMA GoodTableLater ==
    ASSUME NEW t \in Nat, NEW u \in Nat, t <= u, NEW es, GoodTable(es, t)
    PROVE  GoodTable(es, u)
BY GoodLater DEF GoodTable

(* A call that puts a good entry in a good table leaves it good.           *)
LEMMA GoodTableUpdate ==
    ASSUME NEW t \in Nat, NEW es, GoodTable(es, t),
           NEW ip \in IPs, NEW e, GoodEntry(e, t)
    PROVE  GoodTable([es EXCEPT ![ip] = e], t)
<1>1. e \in AbuseEntry
  BY DEF GoodEntry
<1> QED BY <1>1 DEF GoodTable

(* The snapshot prunes and drops entries; it drops no active ban.          *)
LEMMA GoodSnapshot ==
    ASSUME NEW t \in Nat, NEW s \in Settings, NEW es, GoodTable(es, t)
    PROVE  /\ GoodTable(SnapshotForPersistence(es, t, s), t)
           /\ \A ip \in IPs : Banned(es[ip], t) =>
                 Banned(SnapshotForPersistence(es, t, s)[ip], t)
<1> DEFINE p(ip) == PruneEntry(es[ip], t, s.find_time)
           new == SnapshotForPersistence(es, t, s)
<1>1. s.find_time \in Nat
  BY SettingsAssumption DEF ValidSettings
<1>2. ASSUME NEW ip \in IPs
      PROVE  GoodEntry(p(ip), t) /\ p(ip).ban_until = es[ip].ban_until
  BY <1>1, GoodPruned DEF GoodTable
<1>3. \A ip \in IPs : new[ip] = IF IsActive(p(ip), t) THEN p(ip) ELSE DefaultEntry
  BY DEF SnapshotForPersistence
<1>4. new = [ip \in IPs |-> new[ip]]
  BY DEF SnapshotForPersistence
<1> HIDE DEF new, p
<1>5. \A ip \in IPs : GoodEntry(new[ip], t) /\ new[ip] \in AbuseEntry
  BY <1>2, <1>3, GoodDefault DEF GoodEntry
<1>6. GoodTable(new, t)
  BY <1>4, <1>5 DEF GoodTable
<1>7. \A ip \in IPs : Banned(es[ip], t) => Banned(new[ip], t)
  BY <1>2, <1>3 DEF IsActive, Banned
<1> QED BY <1>6, <1>7 DEF new

(* read_state_file on a good file yields a good table.                     *)
LEMMA GoodRead ==
    ASSUME NEW t \in Nat, NEW s \in Settings, NEW es, GoodTable(es, t)
    PROVE  GoodTable(ReadStateFile(es, t, s), t)
<1> DEFINE x(ip) == ExpireBan(es[ip], t, s)
           new == ReadStateFile(es, t, s)
<1>1. ASSUME NEW ip \in IPs
      PROVE  GoodEntry(x(ip), t)
  BY GoodExpired DEF GoodTable
<1>2. \A ip \in IPs : new[ip] = IF IsActive(x(ip), t) THEN x(ip) ELSE DefaultEntry
  BY DEF ReadStateFile, ExpireBan
<1>3. new = [ip \in IPs |-> new[ip]]
  BY DEF ReadStateFile
<1> HIDE DEF new, x
<1>4. \A ip \in IPs : GoodEntry(new[ip], t) /\ new[ip] \in AbuseEntry
  BY <1>1, <1>2, GoodDefault DEF GoodEntry
<1> QED BY <1>3, <1>4 DEF GoodTable, new

-----------------------------------------------------------------------------
(* The inductive invariant.                                                *)

GoodTables ==
    /\ GoodTable(entries, now)
    /\ \A p \in Paths : GoodTable(files[p], now)
    /\ reload.pc = "install" => GoodTable(reload.loaded, now)

IInv == TypeOK /\ GoodTables

(* What TypeOK says of a task inside one of its calls.                     *)
LEMMA TaskFields ==
    ASSUME TypeOK, NEW t \in Tasks
    PROVE  /\ task[t].pc = "admitted" => task[t].ip \in IPs
           /\ task[t].pc \in {"check", "fail", "succeed"} =>
                 task[t].ip \in IPs /\ task[t].settings \in Settings
<1>1. task[t] \in TaskStates
  BY DEF TypeOK
<1> QED BY <1>1 DEF TaskStates, IdleTask

(* What TypeOK says of a reload at each of its steps.                      *)
LEMMA ReloadFields ==
    ASSUME TypeOK
    PROVE  /\ reload.pc = "read" => reload.settings \in Settings
           /\ reload.pc = "install" => reload.loaded \in [IPs -> AbuseEntry]
<1>1. reload \in ReloadStates
  BY DEF TypeOK
<1> QED BY <1>1 DEF ReloadStates, IdleReload

(* persist_if_enabled keeps the tables good and every active ban.          *)
LEMMA PersistGood ==
    ASSUME IInv, NEW s \in Settings, NEW es, GoodTable(es, now),
           PersistIfEnabled(es, s)
    PROVE  /\ GoodTable(entries', now)
           /\ files' \in [Paths -> [IPs -> AbuseEntry]]
           /\ \A p \in Paths : GoodTable(files'[p], now)
           /\ \A ip \in IPs : Banned(es[ip], now) => Banned(entries'[ip], now)
<1>1. now \in Nat /\ files \in [Paths -> [IPs -> AbuseEntry]]
  BY DEF IInv, TypeOK
<1>2. \A p \in Paths : GoodTable(files[p], now)
  BY DEF IInv, GoodTables
<1>3. CASE s.persist_state
  <2>1. entries' = SnapshotForPersistence(es, now, s)
    BY <1>3 DEF PersistIfEnabled
  <2>2. /\ GoodTable(entries', now)
        /\ \A ip \in IPs : Banned(es[ip], now) => Banned(entries'[ip], now)
    BY <1>1, <2>1, GoodSnapshot
  <2>3. CASE files' = [files EXCEPT ![s.state_path] = entries']
    BY <1>1, <1>2, <2>2, <2>3 DEF GoodTable
  <2>4. CASE UNCHANGED files
    BY <1>1, <1>2, <2>2, <2>4
  <2> QED BY <1>3, <2>3, <2>4 DEF PersistIfEnabled
<1>4. CASE ~s.persist_state
  BY <1>1, <1>2, <1>4 DEF PersistIfEnabled
<1> QED BY <1>3, <1>4

(* What a call of a task does to the tables.                               *)
LEMMA CheckIpGood ==
    ASSUME IInv, NEW t \in Tasks, CheckIp(t)
    PROVE  /\ GoodTable(entries', now)
           /\ files' \in [Paths -> [IPs -> AbuseEntry]]
           /\ \A p \in Paths : GoodTable(files'[p], now)
           /\ \A ip \in IPs : Banned(entries[ip], now) => Banned(entries'[ip], now)
<1> DEFINE ip == task[t].ip
           s  == task[t].settings
           e  == ExpireBan(entries[ip], now, s)
           es == [entries EXCEPT ![ip] = e]
<1>1. now \in Nat /\ ip \in IPs /\ s \in Settings /\ GoodTable(entries, now)
      /\ files \in [Paths -> [IPs -> AbuseEntry]]
      /\ \A p \in Paths : GoodTable(files[p], now)
  BY TaskFields DEF IInv, GoodTables, TypeOK, CheckIp
<1>2. GoodEntry(e, now) /\ (Banned(entries[ip], now) => e.ban_until = entries[ip].ban_until)
  BY <1>1, GoodExpired DEF GoodTable
<1>3. GoodTable(es, now)
  BY <1>1, <1>2, GoodTableUpdate
<1>4. \A a \in IPs : Banned(entries[a], now) => Banned(es[a], now)
  BY <1>1, <1>2 DEF GoodTable, Banned
<1>5. CASE UNCHANGED <<entries, files>>
  BY <1>1, <1>5
<1>6. CASE PersistIfEnabled(es, s)
  BY <1>1, <1>3, <1>4, <1>6, PersistGood
<1>7. CASE entries' = es /\ UNCHANGED files
  BY <1>1, <1>3, <1>4, <1>7
<1> QED BY <1>5, <1>6, <1>7 DEF CheckIp

(* record_failure keeps the tables good and every active ban.              *)
LEMMA RecordFailureGood ==
    ASSUME IInv, NEW t \in Tasks, RecordFailure(t)
    PROVE  /\ GoodTable(entries', now)
           /\ files' \in [Paths -> [IPs -> AbuseEntry]]
           /\ \A p \in Paths : GoodTable(files'[p], now)
           /\ \A ip \in IPs : Banned(entries[ip], now) => Banned(entries'[ip], now)
<1> DEFINE ip == task[t].ip
           s  == task[t].settings
           e  == CountFailure(entries[ip], now, s)
           counted == [entries EXCEPT ![ip] = e]
           banned  == [entries EXCEPT ![ip] = Ban(e, now, s)]
<1>1. now \in Nat /\ ip \in IPs /\ s \in Settings /\ GoodTable(entries, now)
      /\ files \in [Paths -> [IPs -> AbuseEntry]]
      /\ \A p \in Paths : GoodTable(files[p], now)
  BY TaskFields DEF IInv, GoodTables, TypeOK, RecordFailure
<1>2. GoodEntry(e, now) /\ e.ban_until = entries[ip].ban_until
      /\ e.ban_count + 1 <= e.total_failures
  BY <1>1, GoodCounted DEF GoodTable
<1>3. GoodEntry(Ban(e, now, s), now) /\ Banned(Ban(e, now, s), now)
  BY <1>1, <1>2, GoodBanned
<1>4. /\ GoodTable(counted, now)
      /\ \A a \in IPs : Banned(entries[a], now) => Banned(counted[a], now)
  <2>1. GoodTable(counted, now)
    BY <1>1, <1>2, GoodTableUpdate
  <2> QED BY <1>1, <1>2, <2>1 DEF GoodTable, Banned
<1>5. /\ GoodTable(banned, now)
      /\ \A a \in IPs : Banned(entries[a], now) => Banned(banned[a], now)
  <2>1. GoodTable(banned, now)
    BY <1>1, <1>3, GoodTableUpdate
  <2> QED BY <1>1, <1>3, <2>1 DEF GoodTable
<1>6. CASE PersistIfEnabled(entries, s)
  BY <1>1, <1>6, PersistGood
<1>7. CASE PersistIfEnabled(counted, s)
  BY <1>1, <1>4, <1>7, PersistGood
<1>8. CASE PersistIfEnabled(banned, s)
  BY <1>1, <1>5, <1>8, PersistGood
<1>9. CASE entries' = counted /\ UNCHANGED files
  BY <1>1, <1>4, <1>9
<1> QED BY <1>6, <1>7, <1>8, <1>9 DEF RecordFailure

(* record_success keeps the tables good and every active ban.              *)
LEMMA RecordSuccessGood ==
    ASSUME IInv, NEW t \in Tasks, RecordSuccess(t)
    PROVE  /\ GoodTable(entries', now)
           /\ files' \in [Paths -> [IPs -> AbuseEntry]]
           /\ \A p \in Paths : GoodTable(files'[p], now)
           /\ \A ip \in IPs : Banned(entries[ip], now) => Banned(entries'[ip], now)
<1> DEFINE ip == task[t].ip
           s  == task[t].settings
           forgot == [entries EXCEPT ![ip] = ForgetFailures(entries[ip], now)]
<1>1. now \in Nat /\ ip \in IPs /\ s \in Settings /\ GoodTable(entries, now)
  BY TaskFields DEF IInv, GoodTables, TypeOK, RecordSuccess
<1>2. GoodEntry(ForgetFailures(entries[ip], now), now)
      /\ (Banned(entries[ip], now) => ForgetFailures(entries[ip], now) = entries[ip])
  BY <1>1, GoodForgot DEF GoodTable
<1>3. GoodTable(forgot, now)
  BY <1>1, <1>2, GoodTableUpdate
<1>4. \A a \in IPs : Banned(entries[a], now) => Banned(forgot[a], now)
  BY <1>1, <1>2 DEF GoodTable
<1>5. CASE PersistIfEnabled(entries, s)
  BY <1>1, <1>5, PersistGood
<1>6. CASE PersistIfEnabled(forgot, s)
  BY <1>1, <1>3, <1>4, <1>6, PersistGood
<1> QED BY <1>5, <1>6 DEF RecordSuccess

-----------------------------------------------------------------------------
(* Init and Next.                                                          *)

(* The first start of the process satisfies the invariant.                 *)
LEMMA InitIInv == Init => IInv
<1> SUFFICES ASSUME Init PROVE IInv
  OBVIOUS
<1>1. now = 0 /\ now \in Nat /\ GoodTable(NoEntries, now)
  BY GoodEmptyTable DEF Init
<1>2. NoEntries \in [IPs -> AbuseEntry]
  BY <1>1 DEF GoodTable
<1>3. TypeOK
  BY <1>1, <1>2 DEF Init, TypeOK, TaskStates, ReloadStates
<1>4. GoodTables
  BY <1>1 DEF Init, GoodTables, IdleReload
<1> QED BY <1>3, <1>4 DEF IInv

(* A step that only moves tasks leaves the tables alone.                   *)
LEMMA TaskStateUpdate ==
    ASSUME TypeOK, NEW t \in Tasks, NEW st \in TaskStates
    PROVE  [task EXCEPT ![t] = st] \in [Tasks -> TaskStates]
BY DEF TypeOK

(* Every step of the tracker keeps the invariant.                          *)
LEMMA NextIInv == IInv /\ [Next]_vars => IInv'
<1> SUFFICES ASSUME IInv, [Next]_vars PROVE IInv'
  OBVIOUS
<1>1. TypeOK /\ GoodTables
  BY DEF IInv
<1>2. \A ip \in IPs : [pc |-> "admitted", ip |-> ip] \in TaskStates
  BY DEF TaskStates
<1>3. \A pc \in {"check", "fail", "succeed"}, ip \in IPs, s \in Settings :
         [pc |-> pc, ip |-> ip, settings |-> s] \in TaskStates
  BY DEF TaskStates
<1>4. IdleTask \in TaskStates /\ IdleReload \in ReloadStates
  BY DEF TaskStates, ReloadStates
<1>5. ASSUME NEW t \in Tasks, BeginCheck(t) PROVE IInv'
  <2>1. task' \in [Tasks -> TaskStates]
    BY <1>1, <1>3, <1>5, TaskStateUpdate DEF BeginCheck, TypeOK
  <2> QED BY <1>1, <1>5, <2>1 DEF BeginCheck, IInv, TypeOK, GoodTables, GoodTable,
                                  GoodEntry, WithinCap, InOrder, Earned, bounds
<1>6. ASSUME NEW t \in Tasks, CheckIp(t) PROVE IInv'
  <2>1. task' \in [Tasks -> TaskStates]
    BY <1>1, <1>2, <1>4, <1>6, TaskFields, TaskStateUpdate DEF CheckIp
  <2>2. GoodTable(entries', now) /\ files' \in [Paths -> [IPs -> AbuseEntry]]
        /\ \A p \in Paths : GoodTable(files'[p], now)
    BY <1>6, CheckIpGood
  <2> QED BY <1>1, <1>6, <2>1, <2>2 DEF CheckIp, IInv, TypeOK, GoodTables, GoodTable, bounds
<1>7. ASSUME NEW t \in Tasks, BeginFailure(t) \/ BeginSuccess(t) \/ Leave(t) PROVE IInv'
  <2>1. task' \in [Tasks -> TaskStates]
    BY <1>1, <1>3, <1>4, <1>7, TaskFields, TaskStateUpdate
       DEF BeginFailure, BeginSuccess, Leave, TypeOK
  <2> QED BY <1>1, <1>7, <2>1 DEF BeginFailure, BeginSuccess, Leave, IInv, TypeOK,
                                  GoodTables, bounds
<1>8. ASSUME NEW t \in Tasks, RecordFailure(t) PROVE IInv'
  <2>1. task' \in [Tasks -> TaskStates]
    BY <1>1, <1>4, <1>8, TaskStateUpdate DEF RecordFailure
  <2>2. GoodTable(entries', now) /\ files' \in [Paths -> [IPs -> AbuseEntry]]
        /\ \A p \in Paths : GoodTable(files'[p], now)
    BY <1>8, RecordFailureGood
  <2> QED BY <1>1, <1>8, <2>1, <2>2 DEF RecordFailure, IInv, TypeOK, GoodTables, GoodTable, bounds
<1>9. ASSUME NEW t \in Tasks, RecordSuccess(t) PROVE IInv'
  <2>1. task' \in [Tasks -> TaskStates]
    BY <1>1, <1>4, <1>9, TaskStateUpdate DEF RecordSuccess
  <2>2. GoodTable(entries', now) /\ files' \in [Paths -> [IPs -> AbuseEntry]]
        /\ \A p \in Paths : GoodTable(files'[p], now)
    BY <1>9, RecordSuccessGood
  <2> QED BY <1>1, <1>9, <2>1, <2>2 DEF RecordSuccess, IInv, TypeOK, GoodTables, GoodTable, bounds
<1>10. ASSUME ReloadSettings PROVE IInv'
  <2>1. reload' \in ReloadStates /\ reload'.pc # "install"
    BY <1>10 DEF ReloadSettings, ReloadStates, IdleReload
  <2> QED BY <1>1, <1>10, <2>1 DEF ReloadSettings, IInv, TypeOK, GoodTables
<1>11. ASSUME ReloadReadFile PROVE IInv'
  <2> DEFINE s == reload.settings
             loaded == ReadStateFile(files[s.state_path], now, s)
  <2>1. s \in Settings /\ s.state_path \in Paths /\ now \in Nat
    BY <1>1, <1>11, ReloadFields, SettingsAssumption
       DEF ReloadReadFile, ValidSettings, TypeOK
  <2>2. GoodTable(loaded, now)
    BY <1>1, <2>1, GoodRead DEF GoodTables
  <2>3. loaded \in [IPs -> AbuseEntry]
    BY <2>2 DEF GoodTable
  <2>4. CASE reload' = [pc |-> "install", loaded |-> loaded]
    <3> HIDE DEF loaded
    <3>1. reload' \in ReloadStates /\ reload'.pc = "install" /\ reload'.loaded = loaded
      BY <2>3, <2>4 DEF ReloadStates
    <3> QED BY <1>1, <1>11, <2>2, <3>1 DEF ReloadReadFile, IInv, TypeOK, GoodTables, bounds
  <2>5. CASE reload' = IdleReload
    BY <1>1, <1>4, <1>11, <2>5
       DEF ReloadReadFile, IInv, TypeOK, GoodTables, bounds, IdleReload
  <2> QED BY <1>11, <2>4, <2>5 DEF ReloadReadFile
<1>12. ASSUME ApplyLoadedState PROVE IInv'
  <2>1. GoodTable(entries', now) /\ entries' \in [IPs -> AbuseEntry]
    BY <1>1, <1>12 DEF ApplyLoadedState, GoodTables, GoodTable
  <2> QED BY <1>1, <1>4, <1>12, <2>1
          DEF ApplyLoadedState, IInv, TypeOK, GoodTables, bounds, IdleReload
<1>13. ASSUME Crash PROVE IInv'
  <2>1. GoodTable(entries', now) /\ entries' \in [IPs -> AbuseEntry]
    BY <1>1, <1>13, GoodEmptyTable DEF Crash, TypeOK, GoodTable
  <2>2. task' \in [Tasks -> TaskStates]
    BY <1>4, <1>13 DEF Crash
  <2>3. reload' \in ReloadStates /\ reload'.pc # "install"
    BY <1>4, <1>13 DEF Crash, IdleReload
  <2>4. TypeOK'
    <3>1. crashes' \in Nat
      BY <1>1, <1>13 DEF Crash, TypeOK
    <3>2. up' \in BOOLEAN
      BY <1>13, Zenon DEF Crash
    <3>3. UNCHANGED <<now, settings, files, reloads>>
      BY <1>13 DEF Crash
    <3> QED BY <1>1, <2>1, <2>2, <2>3, <3>1, <3>2, <3>3 DEF TypeOK
  <2>5. GoodTables'
    BY <1>1, <1>13, <2>1, <2>3 DEF Crash, GoodTables
  <2> QED BY <2>4, <2>5 DEF IInv
<1>14. ASSUME Restart PROVE IInv'
  <2>1. settings' \in Settings /\ settings'.state_path \in Paths /\ now \in Nat
    BY <1>1, <1>14, SettingsAssumption DEF Restart, ValidSettings, TypeOK
  <2>2. GoodTable(entries', now)
    BY <1>1, <1>14, <2>1, GoodRead, GoodEmptyTable DEF Restart, GoodTables
  <2>3. entries' \in [IPs -> AbuseEntry]
    BY <2>2 DEF GoodTable
  <2> QED BY <1>1, <1>14, <2>1, <2>2, <2>3 DEF Restart, IInv, TypeOK, GoodTables, bounds
<1>15. ASSUME Tick PROVE IInv'
  <2>1. now \in Nat /\ now' \in Nat /\ now <= now'
    BY <1>1, <1>15 DEF Tick, TypeOK
  <2>2. GoodTable(entries, now') /\ \A p \in Paths : GoodTable(files[p], now')
    BY <1>1, <2>1, GoodTableLater DEF GoodTables
  <2>3. reload.pc = "install" => GoodTable(reload.loaded, now')
    BY <1>1, <2>1, GoodTableLater DEF GoodTables
  <2> QED BY <1>1, <1>15, <2>1, <2>2, <2>3 DEF Tick, IInv, TypeOK, GoodTables, bounds
<1>16. ASSUME UNCHANGED vars PROVE IInv'
  BY <1>1, <1>16 DEF vars, bounds, IInv, TypeOK, GoodTables
<1> QED
  BY <1>5, <1>6, <1>7, <1>8, <1>9, <1>10, <1>11, <1>12, <1>13, <1>14, <1>15, <1>16
     DEF Next

(* The inductive invariant: all copies of the table have the right types   *)
(* and are good, wherever a call or a reload has got to.                   *)
THEOREM Invariance == Spec => []IInv
BY InitIInv, NextIInv, PTL DEF Spec

(* The values of all variables stay what the code's types say.             *)
THEOREM TypeCorrect == Spec => []TypeOK
<1>1. IInv => TypeOK
  BY DEF IInv
<1> QED BY <1>1, Invariance, PTL

(* The invariant reaches every copy of an entry.                           *)
LEMMA CopiesGood ==
    ASSUME IInv
    PROVE  \A e \in Copies : GoodEntry(e, now)
BY DEF IInv, GoodTables, GoodTable, Copies

(* No copy of a ban, whatever settings it was computed under, ends later   *)
(* than a configured max_ban_time from now: compute_ban_duration caps what *)
(* record_failure sets, and files and reloads only carry such values on.   *)
THEOREM BansAreCapped == Spec => []BansWithinCap
<1>1. IInv => BansWithinCap
  BY CopiesGood DEF BansWithinCap, GoodEntry
<1> QED BY <1>1, Invariance, PTL

(* Every window of failures is sorted and in the past, so that the pop     *)
(* from the front in prune_failures finds all that is stale.               *)
THEOREM FailuresAreInOrder == Spec => []FailuresInOrder
<1>1. IInv => FailuresInOrder
  BY CopiesGood DEF FailuresInOrder, GoodEntry
<1> QED BY <1>1, Invariance, PTL

(* No more failures in a window, and no more bans, than were recorded.     *)
THEOREM BansAreEarned == Spec => []BansEarned
<1>1. IInv => BansEarned
  BY CopiesGood DEF BansEarned, GoodEntry
<1> QED BY <1>1, Invariance, PTL

(* Nothing a task does lifts an active ban: check_ip, record_failure and   *)
(* record_success keep it, and so do their prunes and snapshots.           *)
THEOREM BansEnd == Spec => BansEndByTime
<1>1. IInv /\ [Next]_vars => [(up' /\ up /\ reload.pc # "install") => BanHeld]_vars
  <2> SUFFICES ASSUME IInv, [Next]_vars, up, up', reload.pc # "install"
               PROVE  BanHeld \/ UNCHANGED vars
    OBVIOUS
  <2>1. CASE UNCHANGED entries
    BY <2>1 DEF BanHeld
  <2>2. ASSUME NEW t \in Tasks, CheckIp(t) PROVE BanHeld
    BY <2>2, CheckIpGood DEF BanHeld, CheckIp
  <2>3. ASSUME NEW t \in Tasks, RecordFailure(t) PROVE BanHeld
    BY <2>3, RecordFailureGood DEF BanHeld, RecordFailure
  <2>4. ASSUME NEW t \in Tasks, RecordSuccess(t) PROVE BanHeld
    BY <2>4, RecordSuccessGood DEF BanHeld, RecordSuccess
  <2> QED BY <2>1, <2>2, <2>3, <2>4
          DEF Next, vars, BeginCheck, BeginFailure, BeginSuccess, Leave, ReloadSettings,
              ReloadReadFile, ApplyLoadedState, Crash, Restart, Tick
<1> QED BY <1>1, Invariance, PTL DEF Spec, BansEndByTime

-----------------------------------------------------------------------------
(* Operations that take failures from the front of the window, or all of   *)
(* them, and clear a ban that has run out, but leave what is to come of    *)
(* the ban and how often there was one: prunes, snapshots, the expiry of a *)
(* ban, a success and the reading of a file.                               *)

Suffix(r, q) ==
    \E k \in 0 .. Len(q) :
        Len(r) = Len(q) - k /\ \A i \in 1 .. Len(q) - k : r[i] = q[k + i]

SameBan(f, e, t) == f.ban_count = e.ban_count /\ BanEnd(f, t) = BanEnd(e, t)

Follows(f, e, t) ==
    /\ SameBan(f, e, t)
    /\ Suffix(f.recent_failures, e.recent_failures)

Fresh(q, t, window) == \A i \in 1 .. Len(q) : q[i] + window >= t

(* What prune_failures leaves is within the window: it pops all that is    *)
(* stale because the failures are in order; and it leaves alone what is    *)
(* within the window already.                                              *)
LEMMA PruneIsFresh ==
    ASSUME NEW q \in Seq(Nat), NEW t \in Nat, NEW w \in Nat, InOrder(q, t)
    PROVE  /\ Fresh(PruneFailures(q, t, w), t, w)
           /\ Fresh(q, t, w) => PruneFailures(q, t, w) = q
<1> DEFINE stale == {i \in 1 .. Len(q) : \A j \in 1 .. i : q[j] + w < t}
<1>1. Len(q) \in Nat /\ \A i \in 1 .. Len(q) : q[i] \in Nat
  BY LenProperties, ElementOfSeq
<1>2. IsFiniteSet(stale)
  <2>1. IsFiniteSet(1 .. Len(q))
    BY <1>1, FS_Interval
  <2> QED BY <2>1, FS_Subset
<1>3. PICK k \in Nat : k = Cardinality(stale)
  BY <1>2, FS_CardinalityType
<1>4. ASSUME NEW i \in 1 .. Len(q), q[i] + w < t
      PROVE  i \in 1 .. k
  <2>1. 1 .. i \subseteq stale
    <3> SUFFICES ASSUME NEW j \in 1 .. i
                 PROVE  j \in 1 .. Len(q) /\ \A l \in 1 .. j : q[l] + w < t
      OBVIOUS
    <3>1. \A l \in 1 .. j : l \in 1 .. Len(q) /\ i \in l .. Len(q)
      BY <1>1
    <3>2. \A l \in 1 .. j : q[l] <= q[i]
      BY <3>1 DEF InOrder
    <3> QED BY <1>1, <1>4, <3>1, <3>2
  <2>2. Cardinality(1 .. i) = i
    BY FS_Interval
  <2>3. Cardinality(1 .. i) <= Cardinality(stale)
    BY <1>2, <2>1, FS_Subset
  <2> QED BY <1>3, <2>2, <2>3
<1>5. PICK k2 \in 0 .. Len(q) :
          /\ PruneFailures(q, t, w) \in Seq(Nat)
          /\ Len(PruneFailures(q, t, w)) = Len(q) - k2
          /\ \A i \in 1 .. Len(q) - k2 : PruneFailures(q, t, w)[i] = q[k2 + i]
  BY PruneIsSuffix
<1>6. /\ PruneFailures(q, t, w) = SubSeq(q, k + 1, Len(q))
      /\ k <= Len(q)
  <2>1. Cardinality(1 .. Len(q)) = Len(q) /\ IsFiniteSet(1 .. Len(q))
    <3>1. PICK n \in Nat : n = Len(q)
      BY <1>1
    <3>2. IsFiniteSet(1 .. n) /\ Cardinality(1 .. n) = n
      BY FS_Interval
    <3> QED BY <3>1, <3>2
  <2>2. Cardinality(stale) <= Cardinality(1 .. Len(q))
    BY <2>1, FS_Subset
  <2> QED BY <1>3, <2>1, <2>2 DEF PruneFailures
<1> HIDE DEF stale
<1>7. Fresh(PruneFailures(q, t, w), t, w)
  <2>1. /\ Len(SubSeq(q, k + 1, Len(q))) = Len(q) - k
        /\ \A i \in 1 .. Len(q) - k : SubSeq(q, k + 1, Len(q))[i] = q[k + i]
    BY <1>1, <1>6
  <2>2. \A i \in 1 .. Len(q) - k : k + i \in 1 .. Len(q) /\ k + i \notin 1 .. k
    BY <1>1, <1>6
  <2>3. \A i \in 1 .. Len(q) - k : q[k + i] + w >= t
    <3> SUFFICES ASSUME NEW i \in 1 .. Len(q) - k PROVE q[k + i] + w >= t
      OBVIOUS
    <3>1. ~(q[k + i] + w < t)
      BY <1>4, <2>2
    <3>2. q[k + i] \in Nat
      BY <1>1, <2>2
    <3> QED BY <3>1, <3>2
  <2> QED BY <1>6, <2>1, <2>3 DEF Fresh
<1>8. ASSUME Fresh(q, t, w) PROVE PruneFailures(q, t, w) = q
  <2>1. stale = {}
    <3> SUFFICES ASSUME NEW i \in 1 .. Len(q), \A j \in 1 .. i : q[j] + w < t
                 PROVE  FALSE
      BY DEF stale
    <3>1. i \in 1 .. i /\ q[i] \in Nat
      BY <1>1
    <3>2. q[i] + w < t /\ q[i] + w >= t
      BY <1>8, <3>1 DEF Fresh
    <3> QED BY <3>1, <3>2
  <2>2. k = 0
    BY <1>3, <2>1, FS_EmptySet
  <2>3. SubSeq(q, 1, Len(q)) = q
    BY <1>1
  <2> QED BY <1>6, <2>2, <2>3
<1> QED BY <1>7, <1>8

(* An entry follows itself.                                                *)
LEMMA FollowsItself ==
    ASSUME NEW e \in AbuseEntry, NEW t \in Nat
    PROVE  Follows(e, e, t)
<1>1. Len(e.recent_failures) \in Nat
  BY LenProperties DEF AbuseEntry
<1>2. Suffix(e.recent_failures, e.recent_failures)
  <2>1. 0 \in 0 .. Len(e.recent_failures)
    BY <1>1
  <2> QED BY <1>1, <2>1 DEF Suffix
<1> QED BY <1>2 DEF Follows, SameBan

(* The empty window is left of any.                                        *)
LEMMA EmptySuffix ==
    ASSUME NEW q \in Seq(Nat)
    PROVE  Suffix(<< >>, q)
<1>1. Len(q) \in Nat /\ Len(<< >>) = 0
  BY LenProperties
<1>2. PICK k \in 0 .. Len(q) : k = Len(q)
  BY <1>1
<1>3. Len(<< >>) = Len(q) - k /\ \A i \in 1 .. Len(q) - k : << >>[i] = q[k + i]
  BY <1>1, <1>2
<1> QED BY <1>3 DEF Suffix

(* An entry without a ban or a failure to come follows one that has        *)
(* neither.                                                                *)
LEMMA DefaultFollows ==
    ASSUME NEW t \in Nat, NEW e \in AbuseEntry, ~IsActive(e, t)
    PROVE  Follows(DefaultEntry, e, t)
<1>1. /\ e.recent_failures \in Seq(Nat) /\ e.ban_until \in Nat
      /\ e.ban_count \in Nat
  BY BoundsAssumption DEF AbuseEntry, BanCounts
<1>2. /\ DefaultEntry.recent_failures = << >>
      /\ DefaultEntry.ban_until = NoBan
      /\ DefaultEntry.ban_count = 0
  BY DEF DefaultEntry
<1>3. e.ban_count = 0 /\ ~Banned(e, t)
  BY <1>1 DEF IsActive, Banned
<1>4. BanEnd(DefaultEntry, t) = NoBan /\ BanEnd(e, t) = NoBan
  BY <1>2, <1>3 DEF BanEnd
<1> QED BY <1>1, <1>2, <1>3, <1>4, EmptySuffix DEF Follows, SameBan

(* prune_failures on an entry.                                             *)
LEMMA PrunedFollows ==
    ASSUME NEW t \in Nat, NEW w \in Nat, NEW e, GoodEntry(e, t)
    PROVE  /\ Follows(PruneEntry(e, t, w), e, t)
           /\ Fresh(PruneEntry(e, t, w).recent_failures, t, w)
           /\ Fresh(e.recent_failures, t, w) => PruneEntry(e, t, w) = e
<1>1. e \in AbuseEntry /\ e.recent_failures \in Seq(Nat) /\ InOrder(e.recent_failures, t)
  BY DEF GoodEntry, AbuseEntry
<1>2. /\ PruneEntry(e, t, w).ban_until = e.ban_until
      /\ PruneEntry(e, t, w).ban_count = e.ban_count
  BY GoodPruned
<1>3. PruneEntry(e, t, w) =
         [e EXCEPT !.recent_failures = PruneFailures(e.recent_failures, t, w)]
  BY DEF PruneEntry
<1>4. PruneEntry(e, t, w).recent_failures = PruneFailures(e.recent_failures, t, w)
  BY <1>1, <1>3 DEF AbuseEntry
<1>5. Suffix(PruneFailures(e.recent_failures, t, w), e.recent_failures)
  BY <1>1, PruneIsSuffix DEF Suffix
<1>6. Follows(PruneEntry(e, t, w), e, t)
  BY <1>2, <1>4, <1>5 DEF Follows, SameBan, BanEnd, Banned
<1>7. Fresh(PruneEntry(e, t, w).recent_failures, t, w)
  BY <1>1, <1>4, PruneIsFresh
<1>8. ASSUME Fresh(e.recent_failures, t, w) PROVE PruneEntry(e, t, w) = e
  <2>1. PruneFailures(e.recent_failures, t, w) = e.recent_failures
    BY <1>1, <1>8, PruneIsFresh
  <2>2. [e EXCEPT !.recent_failures = e.recent_failures] = e
    BY <1>1 DEF AbuseEntry
  <2> QED BY <1>3, <2>1, <2>2
<1> QED BY <1>6, <1>7, <1>8

(* check_ip on an entry.                                                   *)
LEMMA ExpiredFollows ==
    ASSUME NEW t \in Nat, NEW s \in Settings, NEW e, GoodEntry(e, t)
    PROVE  /\ Follows(ExpireBan(e, t, s), e, t)
           /\ Fresh(ExpireBan(e, t, s).recent_failures, t, s.find_time)
<1>1. s.find_time \in Nat
  BY SettingsAssumption DEF ValidSettings
<1>2. PICK p : p = PruneEntry(e, t, s.find_time)
  OBVIOUS
<1>3. /\ GoodEntry(p, t) /\ Follows(p, e, t)
      /\ Fresh(p.recent_failures, t, s.find_time)
  BY <1>1, <1>2, GoodPruned, PrunedFollows
<1>4. p \in AbuseEntry /\ p.ban_until \in Nat
  BY <1>3 DEF GoodEntry, AbuseEntry
<1>5. ExpireBan(e, t, s) = IF p.ban_until <= t THEN [p EXCEPT !.ban_until = NoBan] ELSE p
  BY <1>2 DEF ExpireBan
<1>6. ASSUME p.ban_until <= t
      PROVE  /\ Follows([p EXCEPT !.ban_until = NoBan], e, t)
             /\ Fresh([p EXCEPT !.ban_until = NoBan].recent_failures, t, s.find_time)
  <2>1. PICK x : x = [p EXCEPT !.ban_until = NoBan]
    OBVIOUS
  <2>2. x.ban_until = NoBan /\ x.ban_count = p.ban_count
        /\ x.recent_failures = p.recent_failures
    BY <1>4, <2>1 DEF AbuseEntry
  <2>3. BanEnd(x, t) = NoBan /\ BanEnd(p, t) = NoBan
    BY <1>4, <1>6, <2>2 DEF BanEnd, Banned, NoBan
  <2> QED BY <1>3, <2>1, <2>2, <2>3 DEF Follows, SameBan
<1> QED BY <1>3, <1>5, <1>6

(* record_success on an entry.                                             *)
LEMMA ForgotFollows ==
    ASSUME NEW t \in Nat, NEW e, GoodEntry(e, t)
    PROVE  Follows(ForgetFailures(e, t), e, t)
<1>1. e \in AbuseEntry /\ e.recent_failures \in Seq(Nat)
  BY DEF GoodEntry, AbuseEntry
<1>2. PICK x : x = [e EXCEPT !.recent_failures = << >>]
  OBVIOUS
<1>3. x.recent_failures = << >> /\ x.ban_count = e.ban_count /\ x.ban_until = e.ban_until
  BY <1>1, <1>2 DEF AbuseEntry
<1>4. Follows(x, e, t)
  BY <1>1, <1>3, EmptySuffix DEF Follows, SameBan, BanEnd, Banned
<1>5. Follows(e, e, t)
  BY <1>1, FollowsItself
<1> QED BY <1>2, <1>4, <1>5 DEF ForgetFailures

(* snapshot_for_persistence on a table.                                    *)
LEMMA SnapshotFollows ==
    ASSUME NEW t \in Nat, NEW s \in Settings, NEW es, GoodTable(es, t), NEW ip \in IPs
    PROVE  /\ Follows(SnapshotForPersistence(es, t, s)[ip], es[ip], t)
           /\ (Fresh(es[ip].recent_failures, t, s.find_time) /\ IsActive(es[ip], t)) =>
                 SnapshotForPersistence(es, t, s)[ip] = es[ip]
<1>1. s.find_time \in Nat /\ GoodEntry(es[ip], t)
  BY SettingsAssumption DEF ValidSettings, GoodTable
<1>2. PICK p : p = PruneEntry(es[ip], t, s.find_time)
  OBVIOUS
<1>3. /\ GoodEntry(p, t) /\ Follows(p, es[ip], t)
      /\ Fresh(es[ip].recent_failures, t, s.find_time) => p = es[ip]
  BY <1>1, <1>2, GoodPruned, PrunedFollows
<1>4. SnapshotForPersistence(es, t, s)[ip] = IF IsActive(p, t) THEN p ELSE DefaultEntry
  BY <1>2 DEF SnapshotForPersistence
<1>5. ~IsActive(p, t) => Follows(DefaultEntry, p, t)
  BY <1>3, DefaultFollows DEF GoodEntry
<1>6. ~IsActive(p, t) => Follows(DefaultEntry, es[ip], t)
  <2>1. es[ip].recent_failures \in Seq(Nat)
    BY <1>1 DEF GoodEntry, AbuseEntry
  <2>2. DefaultEntry.recent_failures = << >>
    BY DEF DefaultEntry
  <2> QED BY <1>3, <1>5, <2>1, <2>2, EmptySuffix DEF Follows, SameBan
<1> QED BY <1>3, <1>4, <1>6

(* read_state_file on a table.                                             *)
LEMMA ReadFollows ==
    ASSUME NEW t \in Nat, NEW s \in Settings, NEW es, GoodTable(es, t), NEW ip \in IPs
    PROVE  Follows(ReadStateFile(es, t, s)[ip], es[ip], t)
<1>1. GoodEntry(es[ip], t)
  BY DEF GoodTable
<1>2. PICK x : x = ExpireBan(es[ip], t, s)
  OBVIOUS
<1>3. GoodEntry(x, t) /\ Follows(x, es[ip], t)
  BY <1>1, <1>2, GoodExpired, ExpiredFollows
<1>4. ReadStateFile(es, t, s)[ip] = IF IsActive(x, t) THEN x ELSE DefaultEntry
  BY <1>2 DEF ReadStateFile, ExpireBan
<1>5. ~IsActive(x, t) => Follows(DefaultEntry, x, t)
  BY <1>3, DefaultFollows DEF GoodEntry
<1>6. ~IsActive(x, t) => Follows(DefaultEntry, es[ip], t)
  <2>1. es[ip].recent_failures \in Seq(Nat)
    BY <1>1 DEF GoodEntry, AbuseEntry
  <2>2. DefaultEntry.recent_failures = << >>
    BY DEF DefaultEntry
  <2> QED BY <1>3, <1>5, <2>1, <2>2, EmptySuffix DEF Follows, SameBan
<1> QED BY <1>3, <1>4, <1>6

(* persist_if_enabled on the table.                                        *)
LEMMA PersistFollows ==
    ASSUME now \in Nat, NEW s \in Settings, NEW es, GoodTable(es, now),
           PersistIfEnabled(es, s), NEW ip \in IPs
    PROVE  /\ Follows(entries'[ip], es[ip], now)
           /\ (Fresh(es[ip].recent_failures, now, s.find_time) /\ IsActive(es[ip], now)) =>
                 entries'[ip] = es[ip]
<1>1. es[ip] \in AbuseEntry
  BY DEF GoodTable
<1> QED BY <1>1, SnapshotFollows, FollowsItself DEF PersistIfEnabled

(* record_failure up to the threshold: what is left of the window, and the *)
(* new failure, all of it within find_time.                                *)
LEMMA CountedWindow ==
    ASSUME NEW t \in Nat, NEW s \in Settings, NEW e, GoodEntry(e, t)
    PROVE  /\ CountFailure(e, t, s).ban_count = e.ban_count
           /\ Fresh(CountFailure(e, t, s).recent_failures, t, s.find_time)
           /\ \E r \in Seq(Nat) : /\ CountFailure(e, t, s).recent_failures = Append(r, t)
                                  /\ Suffix(r, e.recent_failures)
<1>1. s.find_time \in Nat
  BY SettingsAssumption DEF ValidSettings
<1>2. PICK p : p = PruneEntry(e, t, s.find_time)
  OBVIOUS
<1>3. /\ GoodEntry(p, t) /\ Follows(p, e, t)
      /\ Fresh(p.recent_failures, t, s.find_time)
  BY <1>1, <1>2, GoodPruned, PrunedFollows
<1>4. p \in AbuseEntry
  BY <1>3 DEF GoodEntry
<1>5. PICK r : r = p.recent_failures
  OBVIOUS
<1>6. r \in Seq(Nat) /\ Suffix(r, e.recent_failures) /\ Fresh(r, t, s.find_time)
  BY <1>3, <1>4, <1>5 DEF AbuseEntry, Follows, SameBan
<1>7. PICK c : c = CountFailure(e, t, s)
  OBVIOUS
<1>8. c = [p EXCEPT !.recent_failures = Append(r, t),
                    !.total_failures = p.total_failures + 1,
                    !.last_failure = TRUE]
  BY <1>2, <1>5, <1>7 DEF CountFailure
<1>9. c.ban_count = p.ban_count /\ c.recent_failures = Append(r, t)
  BY <1>4, <1>8 DEF AbuseEntry
<1>10. Fresh(Append(r, t), t, s.find_time)
  <2>1. /\ Len(r) \in Nat /\ Len(Append(r, t)) = Len(r) + 1
        /\ \A i \in 1 .. Len(r) : Append(r, t)[i] = r[i]
        /\ Append(r, t)[Len(r) + 1] = t
    BY <1>6
  <2>2. \A i \in 1 .. Len(r) + 1 : i \in 1 .. Len(r) \/ i = Len(r) + 1
    BY <2>1
  <2>3. t + s.find_time >= t
    BY <1>1
  <2> QED BY <1>6, <2>1, <2>2, <2>3 DEF Fresh
<1> QED BY <1>3, <1>6, <1>7, <1>9, <1>10 DEF Follows, SameBan

-----------------------------------------------------------------------------
(* What record_failure does to the entry of each address: either it loses  *)
(* stale failures at most, or it is the address of the attempt, and then   *)
(* the failure is counted and, at the threshold, banned.                   *)
LEMMA RecordFailureCases ==
    ASSUME IInv, NEW t \in Tasks, RecordFailure(t), NEW ip \in IPs
    PROVE  LET s == task[t].settings
               e == CountFailure(entries[ip], now, s)
           IN  \/ /\ Follows(entries'[ip], entries[ip], now)
                  /\ ip = task[t].ip => ~Tracked(s, ip)
               \/ /\ ip = task[t].ip /\ Tracked(s, ip)
                  /\ ~AtThreshold(e, s) \/ BanDurationPanics(s, e.ban_count)
                  /\ Follows(entries'[ip], e, now)
               \/ /\ ip = task[t].ip /\ Tracked(s, ip)
                  /\ AtThreshold(e, s) /\ ~BanDurationPanics(s, e.ban_count)
                  /\ entries'[ip] = Ban(e, now, s)
<1> DEFINE a == task[t].ip
           s == task[t].settings
           e == CountFailure(entries[a], now, s)
           counted == [entries EXCEPT ![a] = e]
           banned == [entries EXCEPT ![a] = Ban(e, now, s)]
<1>1. now \in Nat /\ a \in IPs /\ s \in Settings /\ GoodTable(entries, now)
  BY TaskFields DEF IInv, GoodTables, TypeOK, RecordFailure
<1>2. GoodEntry(e, now) /\ e.ban_count + 1 <= e.total_failures /\ e \in AbuseEntry
  BY <1>1, GoodCounted DEF GoodTable, GoodEntry
<1>3. GoodEntry(Ban(e, now, s), now) /\ Banned(Ban(e, now, s), now)
  BY <1>1, <1>2, GoodBanned
<1>4. GoodTable(counted, now) /\ GoodTable(banned, now)
  BY <1>1, <1>2, <1>3, GoodTableUpdate
<1>5. /\ entries \in [IPs -> AbuseEntry]
      /\ counted[a] = e /\ banned[a] = Ban(e, now, s)
      /\ ip # a => counted[ip] = entries[ip] /\ banned[ip] = entries[ip]
  BY <1>1 DEF GoodTable
<1>6. /\ Fresh(banned[a].recent_failures, now, s.find_time)
      /\ IsActive(banned[a], now)
  <2>1. Fresh(e.recent_failures, now, s.find_time)
    BY <1>1, CountedWindow DEF GoodTable
  <2>2. Ban(e, now, s).recent_failures = e.recent_failures
    BY <1>2 DEF Ban, AbuseEntry
  <2> QED BY <1>3, <1>5, <2>1, <2>2 DEF IsActive, Banned
<1> HIDE DEF counted, banned
<1>7. CASE ~Tracked(s, a) /\ PersistIfEnabled(entries, s)
  BY <1>1, <1>7, PersistFollows
<1>8. CASE /\ Tracked(s, a) /\ ~AtThreshold(e, s)
           /\ PersistIfEnabled(counted, s)
  <2>1. Follows(entries'[ip], counted[ip], now)
    BY <1>1, <1>4, <1>8, PersistFollows
  <2> QED BY <1>5, <1>8, <2>1
<1>9. CASE /\ Tracked(s, a) /\ AtThreshold(e, s) /\ ~BanDurationPanics(s, e.ban_count)
           /\ PersistIfEnabled(banned, s)
  <2>1. /\ Follows(entries'[ip], banned[ip], now)
        /\ (Fresh(banned[ip].recent_failures, now, s.find_time) /\ IsActive(banned[ip], now))
              => entries'[ip] = banned[ip]
    BY <1>1, <1>4, <1>9, PersistFollows
  <2> QED BY <1>5, <1>6, <1>9, <2>1
<1>10. CASE /\ Tracked(s, a) /\ AtThreshold(e, s) /\ BanDurationPanics(s, e.ban_count)
            /\ entries' = counted
  <2>1. Follows(e, e, now) /\ Follows(entries[ip], entries[ip], now)
    BY <1>1, <1>2, <1>5, FollowsItself
  <2> QED BY <1>5, <1>10, <2>1
<1> QED BY <1>7, <1>8, <1>9, <1>10 DEF RecordFailure, counted, banned

(* Over all reloads, restarts and failures of the disk: a failure that     *)
(* reaches the threshold bans the address.  Only the panic of mul_f64, on  *)
(* the next ban of an address that was banned too often, lets one through. *)
THEOREM ThresholdsBan == Spec => ThresholdBans
<1>1. ASSUME IInv, IInv', NEW t \in Tasks, RecordFailure(t),
             Tracked(task[t].settings, task[t].ip),
             AtThreshold(entries'[task[t].ip], task[t].settings),
             ~BanDurationPanics(task[t].settings, entries[task[t].ip].ban_count)
      PROVE  Banned(entries'[task[t].ip], now)
  <2>1. PICK ip \in IPs, s \in Settings : ip = task[t].ip /\ s = task[t].settings
    BY <1>1, TaskFields DEF IInv, RecordFailure
  <2>2. PICK e : e = CountFailure(entries[ip], now, s)
    OBVIOUS
  <2>3. now \in Nat /\ GoodEntry(entries[ip], now) /\ entries'[ip] \in AbuseEntry
    BY <1>1 DEF IInv, GoodTables, GoodTable, TypeOK
  <2>4. GoodEntry(e, now) /\ e \in AbuseEntry /\ e.ban_count + 1 <= e.total_failures
    BY <2>2, <2>3, GoodCounted DEF GoodEntry
  <2>5. ~BanDurationPanics(s, e.ban_count)
    BY <1>1, <2>1, <2>2, <2>3, CountedWindow
  <2>6. CASE ~AtThreshold(e, s) /\ Follows(entries'[ip], e, now)
    <3>1. /\ Len(e.recent_failures) \in Nat
          /\ Len(entries'[ip].recent_failures) \in Nat
      BY <2>3, <2>4 DEF AbuseEntry
    <3>2. Len(entries'[ip].recent_failures) <= Len(e.recent_failures)
      BY <2>6, <3>1 DEF Follows, Suffix
    <3>3. s.max_failures \in Nat
      BY SettingsAssumption DEF ValidSettings
    <3> QED BY <1>1, <2>1, <2>6, <3>1, <3>2, <3>3 DEF AtThreshold
  <2>7. CASE entries'[ip] = Ban(e, now, s)
    BY <2>1, <2>3, <2>4, <2>7, GoodBanned
  <2> QED BY <1>1, <2>1, <2>2, <2>5, <2>6, <2>7, RecordFailureCases
<1>2. IInv /\ IInv' /\ [Next]_vars =>
         [\A t \in Tasks : Reached(t) =>
             \/ Banned(entries'[task[t].ip], now)
             \/ BanDurationPanics(task[t].settings, entries[task[t].ip].ban_count)]_vars
  BY <1>1 DEF Reached
<1> QED BY <1>2, Invariance, PTL DEF Spec, ThresholdBans

-----------------------------------------------------------------------------
(* One configuration that keeps its state in a file, a disk that works and *)
(* no reload: the bans and what they grew to outlast the process.          *)

Dependable ==
    /\ \A s, u \in Settings : s = u
    /\ \A s \in Settings : s.persist_state
    /\ MaxReloads = 0
    /\ ~WriteMayFail
    /\ ~ReadMayFail

(* No ban ends later than one that was set just now would: the scale does  *)
(* not decrease, so the next ban of the address makes none shorter.        *)
Scheduled(e) == BanEnd(e, now) <= now + ComputeBanDuration(settings, e.ban_count)

(* A call may leave the file behind the table in what it pruned and        *)
(* counted, never in a ban.                                                *)
Mirrored ==
    up => \A ip \in IPs : SameBan(files[settings.state_path][ip], entries[ip], now)

(* A call ends with its process.                                           *)
Stopped == ~up => \A t \in Tasks : task[t] = IdleTask

RegisterInv ==
    /\ Stopped
    /\ reload = IdleReload
    /\ reloads = 0
    /\ \A ip \in IPs : Scheduled(Durable(ip))
    /\ Mirrored

LEMMA StoppedStays == Stopped /\ [Next]_vars => Stopped'
<1> SUFFICES ASSUME Stopped, [Next]_vars PROVE Stopped'
  OBVIOUS
<1>1. CASE UNCHANGED up /\ up
  BY <1>1 DEF Stopped
<1>2. CASE UNCHANGED <<up, task>>
  BY <1>2 DEF Stopped
<1>3. CASE Crash \/ Restart
  BY <1>3 DEF Stopped, Crash, Restart
<1>4. ASSUME NEW t \in Tasks, task[t] # IdleTask PROVE up
  BY <1>4 DEF Stopped
<1>5. IdleTask.pc = "idle"
  BY DEF IdleTask
<1> QED BY <1>1, <1>2, <1>3, <1>4, <1>5
        DEF Next, vars, BeginCheck, CheckIp, BeginFailure, BeginSuccess, Leave,
            RecordFailure, RecordSuccess, ReloadSettings, ReloadReadFile, ApplyLoadedState, Tick

(* Neither backoff nor ban decreases with the number of bans.              *)
LEMMA ScaledBansGrow ==
    ASSUME NEW s \in Settings, NEW m \in BanCounts, NEW n \in BanCounts, m <= n
    PROVE  /\ ScaledBan(s, m) \in Nat /\ ScaledBan(s, n) \in Nat
           /\ ScaledBan(s, m) <= ScaledBan(s, n)
<1>1. /\ s.ban_time \in Nat
      /\ s.scale[m] \in Nat /\ s.scale[n] \in Nat /\ s.scale[m] <= s.scale[n]
  BY SettingsAssumption DEF ValidSettings
<1>2. \A a, b, c \in Nat : b <= c => a * b \in Nat /\ a * c \in Nat /\ a * b <= a * c
  <2> SUFFICES ASSUME NEW a \in Nat, NEW b \in Nat, NEW c \in Nat, b <= c
               PROVE  a * b \in Nat /\ a * c \in Nat /\ a * b <= a * c
    OBVIOUS
  <2>1. PICK d \in Nat : c = b + d
    <3>1. c - b \in Nat /\ c = b + (c - b)
      OBVIOUS
    <3> QED BY <3>1
  <2>2. a * b \in Nat /\ a * d \in Nat /\ a * c = a * b + a * d
    BY <2>1
  <2> QED BY <2>2
<1> QED BY <1>1, <1>2 DEF ScaledBan

LEMMA BansGrow ==
    ASSUME NEW s \in Settings, NEW m \in BanCounts, NEW n \in BanCounts, m <= n
    PROVE  ComputeBanDuration(s, m) <= ComputeBanDuration(s, n)
<1>1. s.max_ban_time \in Nat
  BY SettingsAssumption DEF ValidSettings
<1>2. PICK x \in Nat, y \in Nat : x = ScaledBan(s, m) /\ y = ScaledBan(s, n) /\ x <= y
  BY ScaledBansGrow
<1> QED BY <1>1, <1>2 DEF ComputeBanDuration

(* Bans that have the same to come still have it later.                    *)
LEMMA SameBanLater ==
    ASSUME NEW t \in Nat, NEW f \in AbuseEntry, NEW e \in AbuseEntry, SameBan(f, e, t)
    PROVE  SameBan(f, e, t + 1)
<1>1. f.ban_until \in Nat /\ e.ban_until \in Nat
  BY DEF AbuseEntry
<1> QED BY <1>1 DEF SameBan, BanEnd, Banned, NoBan

(* A reliable persist_if_enabled leaves the table in the file.             *)
LEMMA PersistMirrors ==
    ASSUME Dependable, TypeOK, NEW es, PersistIfEnabled(es, settings), settings' = settings
    PROVE  files'[settings'.state_path] = entries'
<1>1. settings \in Settings /\ settings.state_path \in Paths
      /\ files \in [Paths -> [IPs -> AbuseEntry]]
  BY SettingsAssumption DEF TypeOK, ValidSettings
<1>2. settings.persist_state /\ ~WriteMayFail
  BY <1>1 DEF Dependable
<1>3. files' = [files EXCEPT ![settings.state_path] = entries']
  BY <1>2 DEF PersistIfEnabled
<1> QED BY <1>1, <1>3

(* The calls of a task leave the same bans in the file as in the table.    *)
LEMMA CallsMirror ==
    ASSUME Dependable, IInv, RegisterInv, NEW t \in Tasks,
           CheckIp(t) \/ RecordFailure(t) \/ RecordSuccess(t)
    PROVE  Mirrored'
<1>1. /\ TypeOK /\ now \in Nat /\ settings \in Settings /\ up' = up /\ now' = now
      /\ settings' = settings /\ GoodTable(entries, now)
  BY DEF IInv, GoodTables, TypeOK, CheckIp, RecordFailure, RecordSuccess
<1>2. task[t].ip \in IPs /\ task[t].settings = settings
  BY <1>1, TaskFields DEF Dependable, CheckIp, RecordFailure, RecordSuccess
<1> DEFINE ip == task[t].ip
           expired == [entries EXCEPT ![ip] = ExpireBan(entries[ip], now, settings)]
           counted == [entries EXCEPT ![ip] = CountFailure(entries[ip], now, settings)]
<1>3. \A a \in IPs : /\ SameBan(entries[a], entries[a], now)
                     /\ SameBan(expired[a], entries[a], now)
                     /\ SameBan(counted[a], entries[a], now)
  <2> SUFFICES ASSUME NEW a \in IPs
               PROVE  /\ SameBan(expired[a], entries[a], now)
                      /\ SameBan(counted[a], entries[a], now)
    BY DEF SameBan
  <2>1. GoodEntry(entries[ip], now) /\ entries \in [IPs -> AbuseEntry]
    BY <1>1, <1>2 DEF GoodTable
  <2>2. SameBan(ExpireBan(entries[ip], now, settings), entries[ip], now)
    BY <1>1, <2>1, ExpiredFollows DEF Follows
  <2>3. SameBan(CountFailure(entries[ip], now, settings), entries[ip], now)
    BY <1>1, <2>1, GoodCounted, CountedWindow DEF SameBan, BanEnd, Banned
  <2>4. CASE a = ip
    BY <2>1, <2>2, <2>3, <2>4
  <2>5. CASE a # ip
    BY <2>1, <2>5 DEF SameBan
  <2> QED BY <2>4, <2>5
<1> HIDE DEF expired, counted
<1>4. \/ \E es : PersistIfEnabled(es, settings)
      \/ UNCHANGED files /\ (entries' = entries \/ entries' = expired \/ entries' = counted)
  <2>1. CASE CheckIp(t)
    BY <1>2, <2>1 DEF CheckIp, expired
  <2>2. CASE RecordFailure(t)
    BY <1>2, <2>2 DEF RecordFailure, counted
  <2>3. CASE RecordSuccess(t)
    BY <1>2, <2>3 DEF RecordSuccess
  <2> QED BY <2>1, <2>2, <2>3
<1>5. CASE \E es : PersistIfEnabled(es, settings)
  <2>1. files'[settings'.state_path] = entries'
    BY <1>1, <1>5, PersistMirrors
  <2> QED BY <2>1 DEF Mirrored, SameBan
<1>6. CASE UNCHANGED files /\ (entries' = entries \/ entries' = expired \/ entries' = counted)
  <2>1. \A a \in IPs : SameBan(entries'[a], entries[a], now)
    BY <1>3, <1>6
  <2> QED BY <1>1, <1>6, <2>1 DEF RegisterInv, Mirrored, SameBan
<1> QED BY <1>4, <1>5, <1>6

(* A call writes the table to a file or leaves the files alone.            *)
LEMMA CallsWrite ==
    ASSUME IInv, NEW t \in Tasks, CheckIp(t) \/ RecordFailure(t) \/ RecordSuccess(t),
           NEW p \in Paths
    PROVE  files'[p] = files[p] \/ files'[p] = entries'
<1>1. files \in [Paths -> [IPs -> AbuseEntry]]
  BY DEF IInv, TypeOK
<1>2. ASSUME NEW es, NEW s, PersistIfEnabled(es, s)
      PROVE  files' = files \/ files' = [files EXCEPT ![s.state_path] = entries']
  BY <1>2 DEF PersistIfEnabled
<1>3. files' = files \/ \E s : files' = [files EXCEPT ![s.state_path] = entries']
  BY <1>2 DEF CheckIp, RecordFailure, RecordSuccess
<1> QED BY <1>1, <1>3

(* What follows an entry that follows a third follows that one.            *)
LEMMA FollowsOn ==
    ASSUME NEW t \in Nat, NEW d \in AbuseEntry, NEW e \in AbuseEntry, NEW f \in AbuseEntry,
           Follows(e, d, t), Follows(f, e, t)
    PROVE  Follows(f, d, t)
<1>1. PICK p \in Seq(Nat), q \in Seq(Nat), r \in Seq(Nat) :
         p = d.recent_failures /\ q = e.recent_failures /\ r = f.recent_failures
  BY DEF AbuseEntry
<1>2. PICK j \in 0 .. Len(p) : Len(q) = Len(p) - j /\ \A i \in 1 .. Len(p) - j : q[i] = p[j + i]
  BY <1>1 DEF Follows, Suffix
<1>3. PICK k \in 0 .. Len(q) : Len(r) = Len(q) - k /\ \A i \in 1 .. Len(q) - k : r[i] = q[k + i]
  BY <1>1 DEF Follows, Suffix
<1>4. Len(p) \in Nat /\ Len(q) \in Nat
  OBVIOUS
<1>5. PICK l \in 0 .. Len(p) : l = j + k
  BY <1>2, <1>3, <1>4
<1>6. Len(r) = Len(p) - l
  BY <1>2, <1>3, <1>4, <1>5
<1>7. ASSUME NEW i \in 1 .. Len(p) - l PROVE r[i] = p[l + i]
  <2>1. i \in 1 .. Len(q) - k /\ k + i \in 1 .. Len(p) - j /\ l + i = j + (k + i)
    BY <1>2, <1>3, <1>4, <1>5
  <2> QED BY <1>2, <1>3, <2>1
<1>8. Suffix(r, p)
  BY <1>6, <1>7 DEF Suffix
<1> QED BY <1>1, <1>8 DEF Follows, SameBan

(* check_ip and record_success take stale failures from the windows, or    *)
(* all failures, and leave what is to come of a ban.                       *)
LEMMA CallsFollow ==
    ASSUME IInv, NEW t \in Tasks, CheckIp(t) \/ RecordSuccess(t), NEW a \in IPs
    PROVE  Follows(entries'[a], entries[a], now)
<1> DEFINE ip == task[t].ip
           s == task[t].settings
           expired == [entries EXCEPT ![ip] = ExpireBan(entries[ip], now, s)]
           forgot == [entries EXCEPT ![ip] = ForgetFailures(entries[ip], now)]
<1>1. now \in Nat /\ ip \in IPs /\ s \in Settings /\ GoodTable(entries, now)
  BY TaskFields DEF IInv, GoodTables, TypeOK, CheckIp, RecordSuccess
<1>2. GoodTable(expired, now) /\ GoodTable(forgot, now)
  <2>1. GoodEntry(entries[ip], now)
    BY <1>1 DEF GoodTable
  <2>2. GoodEntry(ExpireBan(entries[ip], now, s), now) /\ GoodEntry(ForgetFailures(entries[ip], now), now)
    BY <1>1, <2>1, GoodExpired, GoodForgot
  <2> QED BY <1>1, <2>2, GoodTableUpdate
<1>3. /\ Follows(entries[a], entries[a], now)
      /\ Follows(expired[a], entries[a], now)
      /\ Follows(forgot[a], entries[a], now)
  <2>1. GoodEntry(entries[a], now) /\ entries[a] \in AbuseEntry /\ entries \in [IPs -> AbuseEntry]
    BY <1>1 DEF GoodTable
  <2>2. CASE a = ip
    BY <1>1, <2>1, <2>2, FollowsItself, ExpiredFollows, ForgotFollows
  <2>3. CASE a # ip
    BY <1>1, <2>1, <2>3, FollowsItself
  <2> QED BY <2>2, <2>3
<1>4. /\ entries[a] \in AbuseEntry /\ expired[a] \in AbuseEntry /\ forgot[a] \in AbuseEntry
  BY <1>1, <1>2 DEF GoodTable
<1> HIDE DEF expired, forgot
<1>5. \E es \in {entries, expired, forgot} : PersistIfEnabled(es, s) \/ entries' = es
  <2>1. CASE CheckIp(t)
    BY <2>1 DEF CheckIp, expired
  <2>2. CASE RecordSuccess(t)
    BY <2>2 DEF RecordSuccess, forgot
  <2> QED BY <2>1, <2>2
<1>6. PICK es \in {entries, expired, forgot} : PersistIfEnabled(es, s) \/ entries' = es
  BY <1>5
<1>7. GoodTable(es, now) /\ es[a] \in AbuseEntry /\ Follows(es[a], entries[a], now)
  BY <1>1, <1>2, <1>3, <1>4
<1>8. CASE PersistIfEnabled(es, s)
  <2>1. Follows(entries'[a], es[a], now)
    BY <1>1, <1>7, <1>8, PersistFollows
  <2>2. entries'[a] \in AbuseEntry
    <3>1. GoodTable(entries', now)
      BY <1>1, <1>7, <1>8, PersistGood
    <3> QED BY <3>1 DEF GoodTable
  <2> QED BY <1>1, <1>4, <1>7, <2>1, <2>2, FollowsOn
<1>9. CASE entries' = es
  BY <1>7, <1>9
<1> QED BY <1>6, <1>8, <1>9

-----------------------------------------------------------------------------
(* What a step does to the bans that outlast the process: time passes, or  *)
(* one address is banned again, or they stay.                              *)
BannedAgain(a) ==
    /\ Durable(a)'.ban_count = SaturatingInc(Durable(a).ban_count)
    /\ Durable(a)'.ban_until = now + ComputeBanDuration(settings, Durable(a).ban_count)

Stay(S) == \A ip \in S : SameBan(Durable(ip)', Durable(ip), now)

DurableStep ==
    \/ now' = now + 1 /\ \A ip \in IPs : Durable(ip)' = Durable(ip)
    \/ now' = now /\ Stay(IPs)
    \/ now' = now /\ \E a \in IPs : BannedAgain(a) /\ Stay(IPs \ {a})

LEMMA DurableSteps ==
    ASSUME Dependable, IInv, IInv', RegisterInv, Next
    PROVE  DurableStep /\ Mirrored' /\ settings' = settings
           /\ reload' = IdleReload /\ reloads' = 0
<1>1. /\ TypeOK /\ now \in Nat /\ settings \in Settings /\ reload = IdleReload /\ reloads = 0
      /\ GoodTable(entries, now) /\ \A p \in Paths : GoodTable(files[p], now)
  BY DEF IInv, GoodTables, TypeOK, RegisterInv
<1>2. \A ip \in IPs : SameBan(entries[ip], entries[ip], now)
  BY DEF SameBan
<1>3. ASSUME NEW t \in Tasks, BeginCheck(t) \/ BeginFailure(t) \/ BeginSuccess(t) \/ Leave(t)
      PROVE  DurableStep /\ Mirrored' /\ settings' = settings
             /\ reload' = IdleReload /\ reloads' = 0
  <2>1. UNCHANGED <<now, up, settings, entries, files, reload, reloads>>
    BY <1>3 DEF BeginCheck, BeginFailure, BeginSuccess, Leave, bounds
  <2> QED BY <1>1, <2>1 DEF DurableStep, Stay, Durable, SameBan, RegisterInv, Mirrored
<1>4. ASSUME NEW t \in Tasks, CheckIp(t) \/ RecordSuccess(t)
      PROVE  DurableStep /\ Mirrored' /\ settings' = settings
             /\ reload' = IdleReload /\ reloads' = 0
  <2>1. UNCHANGED <<now, up, settings, reload, reloads>>
    BY <1>4 DEF CheckIp, RecordSuccess, bounds
  <2>2. \A ip \in IPs : SameBan(entries'[ip], entries[ip], now)
    BY <1>4, CallsFollow DEF Follows
  <2>3. Mirrored'
    BY <1>4, CallsMirror
  <2>4. up
    BY <1>4 DEF RegisterInv, Stopped, CheckIp, RecordSuccess, IdleTask
  <2> QED BY <1>1, <2>1, <2>2, <2>3, <2>4 DEF DurableStep, Stay, Durable
<1>5. ASSUME NEW t \in Tasks, RecordFailure(t)
      PROVE  DurableStep /\ Mirrored' /\ settings' = settings
             /\ reload' = IdleReload /\ reloads' = 0
  <2>1. UNCHANGED <<now, up, settings, reload, reloads>> /\ up
    BY <1>5 DEF RecordFailure, bounds, RegisterInv, Stopped, IdleTask
  <2>2. Mirrored'
    BY <1>5, CallsMirror
  <2>3. task[t].ip \in IPs /\ task[t].settings = settings
    BY <1>1, <1>5, TaskFields DEF Dependable, RecordFailure
  <2>4. PICK a \in IPs : a = task[t].ip
    BY <2>3
  <2>5. PICK e : e = CountFailure(entries[a], now, settings)
    OBVIOUS
  <2>6. GoodEntry(e, now) /\ SameBan(e, entries[a], now) /\ e.ban_count = entries[a].ban_count
    <3>1. GoodEntry(entries[a], now)
      BY <1>1 DEF GoodTable
    <3> QED BY <1>1, <2>5, <3>1, GoodCounted, CountedWindow DEF SameBan, BanEnd, Banned
  <2>7. ASSUME NEW ip \in IPs
        PROVE  \/ SameBan(entries'[ip], entries[ip], now)
               \/ ip = a /\ entries'[ip] = Ban(e, now, settings)
    <3>1. \/ Follows(entries'[ip], entries[ip], now)
          \/ ip = a /\ Follows(entries'[ip], e, now)
          \/ ip = a /\ entries'[ip] = Ban(e, now, settings)
      <4>1. LET c == CountFailure(entries[ip], now, settings)
            IN  \/ Follows(entries'[ip], entries[ip], now)
                \/ ip = a /\ Follows(entries'[ip], c, now)
                \/ ip = a /\ entries'[ip] = Ban(c, now, settings)
        BY <1>5, <2>3, <2>4, RecordFailureCases
      <4> QED BY <2>5, <4>1
    <3> QED BY <2>6, <3>1 DEF Follows, SameBan
  <2>8. CASE \A ip \in IPs : SameBan(entries'[ip], entries[ip], now)
    BY <1>1, <2>1, <2>2, <2>8 DEF DurableStep, Stay, Durable
  <2>9. CASE entries'[a] = Ban(e, now, settings) /\ ~SameBan(entries'[a], entries[a], now)
    <3>1. \A ip \in IPs \ {a} : SameBan(entries'[ip], entries[ip], now)
      BY <2>7
    <3>2. e \in AbuseEntry
      BY <2>6 DEF GoodEntry
    <3>3. /\ entries'[a].ban_count = SaturatingInc(entries[a].ban_count)
          /\ entries'[a].ban_until = now + ComputeBanDuration(settings, entries[a].ban_count)
      BY <2>6, <2>9, <3>2 DEF Ban, AbuseEntry
    <3> QED BY <1>1, <2>1, <2>2, <3>1, <3>3 DEF DurableStep, Stay, Durable, BannedAgain
  <2> QED BY <2>7, <2>8, <2>9
<1>6. ASSUME ReloadSettings \/ ReloadReadFile \/ ApplyLoadedState
      PROVE  FALSE
  BY <1>1, <1>6 DEF Dependable, ReloadSettings, ReloadReadFile, ApplyLoadedState, IdleReload
<1>7. CASE Crash
  <2>1. up /\ ~up' /\ UNCHANGED <<now, settings, files, reloads>> /\ reload' = IdleReload
    BY <1>7 DEF Crash
  <2>2. \A ip \in IPs : SameBan(files[settings.state_path][ip], entries[ip], now)
    BY <2>1 DEF RegisterInv, Mirrored
  <2> QED BY <1>1, <2>1, <2>2 DEF DurableStep, Stay, Durable, Mirrored
<1>8. CASE Restart
  <2>1. ~up /\ up' /\ UNCHANGED <<now, files, reload, reloads>> /\ settings' \in Settings
    BY <1>8 DEF Restart, bounds
  <2>2. settings' = settings /\ settings.persist_state /\ ~ReadMayFail
    BY <1>1, <2>1 DEF Dependable
  <2>3. entries' = ReadStateFile(files[settings.state_path], now, settings)
    BY <1>8, <2>2 DEF Restart
  <2>4. settings.state_path \in Paths
    BY <1>1, SettingsAssumption DEF ValidSettings
  <2>5. \A ip \in IPs : SameBan(entries'[ip], files[settings.state_path][ip], now)
    BY <1>1, <2>3, <2>4, ReadFollows DEF Follows
  <2>6. Mirrored'
    BY <2>1, <2>2, <2>5 DEF Mirrored, SameBan
  <2> QED BY <1>1, <2>1, <2>2, <2>5, <2>6 DEF DurableStep, Stay, Durable
<1>9. CASE Tick
  <2>1. UNCHANGED <<up, settings, entries, files, reload, reloads>> /\ now' = now + 1
    BY <1>9 DEF Tick, bounds
  <2>2. /\ entries \in [IPs -> AbuseEntry]
        /\ files[settings.state_path] \in [IPs -> AbuseEntry]
    BY <1>1, SettingsAssumption DEF ValidSettings, TypeOK
  <2>3. Mirrored'
    BY <1>1, <2>1, <2>2, SameBanLater DEF RegisterInv, Mirrored
  <2> QED BY <1>1, <2>1, <2>3 DEF DurableStep, Durable
<1> QED BY <1>3, <1>4, <1>5, <1>6, <1>7, <1>8, <1>9 DEF Next

(* The entry that outlasts the process is one.                             *)
LEMMA DurableEntry ==
    ASSUME IInv, NEW ip \in IPs
    PROVE  Durable(ip) \in AbuseEntry
<1>1. settings.state_path \in Paths
  BY SettingsAssumption DEF IInv, TypeOK, ValidSettings
<1> QED BY <1>1 DEF IInv, TypeOK, Durable

(* A ban that is set again ends no earlier than the one before it, and it  *)
(* is scheduled itself.                                                    *)
LEMMA BannedAgainLater ==
    ASSUME IInv, IInv', RegisterInv, settings' = settings, now' = now,
           NEW a \in IPs, BannedAgain(a)
    PROVE  /\ Durable(a)'.ban_count >= Durable(a).ban_count
           /\ Durable(a)'.ban_until \in now + 1 .. now + settings.max_ban_time
           /\ Durable(a)'.ban_until >= BanEnd(Durable(a), now)
           /\ BanEnd(Durable(a)', now) = Durable(a)'.ban_until
           /\ Scheduled(Durable(a))'
<1>1. /\ now \in Nat /\ settings \in Settings /\ Durable(a).ban_count \in BanCounts
      /\ BanCountMax \in Nat
  BY DurableEntry, BoundsAssumption DEF IInv, TypeOK, AbuseEntry
<1>2. PICK n \in BanCounts : n = Durable(a).ban_count
  BY <1>1
<1>3. SaturatingInc(n) \in BanCounts /\ n <= SaturatingInc(n)
  BY <1>1 DEF BanCounts, SaturatingInc
<1>4. PICK x \in 1 .. settings.max_ban_time, y \in 1 .. settings.max_ban_time :
         /\ x = ComputeBanDuration(settings, n)
         /\ y = ComputeBanDuration(settings, SaturatingInc(n))
         /\ x <= y
  BY <1>1, <1>3, BanDurationBounds, BansGrow
<1>5. settings.max_ban_time \in Nat
  BY <1>1, SettingsAssumption DEF ValidSettings
<1>6. /\ Durable(a)'.ban_count = SaturatingInc(n) /\ Durable(a)'.ban_until = now + x
      /\ BanEnd(Durable(a), now) <= now + x
  BY <1>2, <1>4 DEF BannedAgain, RegisterInv, Scheduled
<1>7. BanEnd(Durable(a)', now) = now + x
  BY <1>1, <1>4, <1>5, <1>6 DEF BanEnd, Banned
<1>8. BanEnd(Durable(a)', now') <= now' + ComputeBanDuration(settings', Durable(a)'.ban_count)
  BY <1>1, <1>4, <1>5, <1>6, <1>7
<1>9. now + x \in now + 1 .. now + settings.max_ban_time /\ now + x >= BanEnd(Durable(a), now)
  BY <1>1, <1>4, <1>5, <1>6
<1>10. Durable(a)'.ban_count >= Durable(a).ban_count
  BY <1>2, <1>3, <1>6, <1>1 DEF BanCounts
<1> QED BY <1>6, <1>7, <1>8, <1>9, <1>10 DEF Scheduled

LEMMA InitRegisterInv == Dependable /\ Init => RegisterInv
<1> SUFFICES ASSUME Dependable, Init PROVE RegisterInv
  OBVIOUS
<1>1. IInv
  BY InitIInv
<1>2. /\ now = 0 /\ up /\ settings \in Settings /\ settings.state_path \in Paths
      /\ reload = IdleReload /\ reloads = 0 /\ entries = NoEntries
      /\ files[settings.state_path] = NoEntries
  BY SettingsAssumption DEF Init, ValidSettings
<1>3. ASSUME NEW ip \in IPs PROVE Scheduled(Durable(ip))
  <2>1. Durable(ip) = DefaultEntry
    BY <1>2 DEF Durable, NoEntries
  <2>2. DefaultEntry.ban_until = 0 /\ DefaultEntry.ban_count = 0
    BY DEF DefaultEntry, NoBan
  <2>3. 0 \in BanCounts /\ settings.max_ban_time \in Nat
    BY <1>2, SettingsAssumption, BoundsAssumption DEF BanCounts, ValidSettings
  <2>4. ComputeBanDuration(settings, 0) \in Nat
    BY <1>2, <2>3, BanDurationBounds
  <2> QED BY <1>2, <2>1, <2>2, <2>4 DEF Scheduled, BanEnd, NoBan
<1> QED BY <1>2, <1>3 DEF RegisterInv, Stopped, Mirrored, SameBan

LEMMA NextRegisterInv ==
    Dependable /\ IInv /\ IInv' /\ RegisterInv /\ [Next]_vars => RegisterInv'
<1> SUFFICES ASSUME Dependable, IInv, IInv', RegisterInv, [Next]_vars PROVE RegisterInv'
  OBVIOUS
<1>1. CASE UNCHANGED vars
  BY <1>1 DEF vars, bounds, RegisterInv, Stopped, Scheduled, Durable, Mirrored
<1>2. CASE Next
  <2>1. /\ DurableStep /\ Mirrored' /\ settings' = settings
        /\ reload' = IdleReload /\ reloads' = 0
    BY <1>2, DurableSteps
  <2>2. Stopped'
    BY StoppedStays DEF RegisterInv
  <2>3. ASSUME NEW ip \in IPs PROVE Scheduled(Durable(ip))'
    <3>1. now \in Nat /\ settings \in Settings
      BY DEF IInv, TypeOK
    <3>2. Scheduled(Durable(ip)) /\ Durable(ip).ban_until \in Nat
          /\ Durable(ip).ban_count \in BanCounts
      BY DurableEntry DEF RegisterInv, AbuseEntry
    <3>3. ComputeBanDuration(settings, Durable(ip).ban_count) \in Nat
      BY <3>1, <3>2, BanDurationBounds, SettingsAssumption DEF ValidSettings
    <3>4. CASE now' = now + 1 /\ Durable(ip)' = Durable(ip)
      <4>1. BanEnd(Durable(ip), now + 1) <= BanEnd(Durable(ip), now)
        BY <3>1, <3>2 DEF BanEnd, Banned, NoBan
      <4>2. BanEnd(Durable(ip), now + 1) \in Nat /\ BanEnd(Durable(ip), now) \in Nat
        BY <3>2 DEF BanEnd, NoBan
      <4> QED BY <2>1, <3>1, <3>2, <3>3, <3>4, <4>1, <4>2 DEF Scheduled
    <3>5. CASE now' = now /\ SameBan(Durable(ip)', Durable(ip), now)
      BY <2>1, <3>2, <3>5 DEF SameBan, Scheduled
    <3>6. CASE now' = now /\ BannedAgain(ip)
      BY <2>1, <3>6, BannedAgainLater
    <3> QED BY <2>1, <3>4, <3>5, <3>6 DEF DurableStep, Stay
  <2> QED BY <2>1, <2>2, <2>3 DEF RegisterInv
<1> QED BY <1>1, <1>2

LEMMA RegisterInvariant == Dependable => (Spec => []RegisterInv)
<1> SUFFICES ASSUME Dependable PROVE Spec => []RegisterInv
  OBVIOUS
<1>1. Init => RegisterInv
  BY InitRegisterInv
<1>2. IInv /\ IInv' /\ RegisterInv /\ [Next]_vars => RegisterInv'
  BY NextRegisterInv
<1> QED BY <1>1, <1>2, Invariance, PTL DEF Spec

(* However calls, stops and starts interleave: with a file that is written *)
(* and read, no step makes a ban shorter or forgets one, neither in the    *)
(* table nor, while the process is down, in the file.                      *)
THEOREM BackoffIsRemembered == Dependable => (Spec => BackoffRemembered)
<1> SUFFICES ASSUME Dependable PROVE Spec => BackoffRemembered
  OBVIOUS
<1>1. ASSUME IInv, IInv', RegisterInv, Next, NEW ip \in IPs
      PROVE  /\ Durable(ip)'.ban_count >= Durable(ip).ban_count
             /\ Banned(Durable(ip), now') => Durable(ip)'.ban_until >= Durable(ip).ban_until
  <2>1. DurableStep /\ settings' = settings
    BY <1>1, DurableSteps
  <2>2. /\ Durable(ip) \in AbuseEntry /\ Durable(ip)' \in AbuseEntry
    <3>1. settings'.state_path \in Paths
      BY <1>1, SettingsAssumption DEF IInv, TypeOK, ValidSettings
    <3> QED BY <1>1, <3>1, DurableEntry DEF IInv, TypeOK, Durable
  <2>3. /\ Durable(ip).ban_until \in Nat /\ Durable(ip)'.ban_until \in Nat
        /\ Durable(ip).ban_count \in Nat /\ Durable(ip)'.ban_count \in Nat
        /\ now \in Nat
    BY <1>1, <2>2, BoundsAssumption DEF AbuseEntry, BanCounts, IInv, TypeOK
  <2>4. CASE Durable(ip)' = Durable(ip)
    BY <2>3, <2>4
  <2>5. CASE now' = now /\ SameBan(Durable(ip)', Durable(ip), now)
    BY <2>3, <2>5 DEF SameBan, BanEnd, Banned, NoBan
  <2>6. CASE now' = now /\ BannedAgain(ip)
    BY <1>1, <2>1, <2>3, <2>6, BannedAgainLater DEF BanEnd
  <2> QED BY <2>1, <2>4, <2>5, <2>6 DEF DurableStep, Stay
<1>2. IInv /\ IInv' /\ RegisterInv /\ [Next]_vars =>
         [\A ip \in IPs :
             /\ Durable(ip)'.ban_count >= Durable(ip).ban_count
             /\ Banned(Durable(ip), now') => Durable(ip)'.ban_until >= Durable(ip).ban_until]_vars
  BY <1>1
<1>3. Spec => []RegisterInv
  BY RegisterInvariant
<1> QED BY <1>2, <1>3, Invariance, PTL DEF Spec, BackoffRemembered

(* Under one configuration the tracker is the register of BanRegister: a   *)
(* ban of record_failure is a Ban of the register, Tick is its Tick, and   *)
(* every other step, the crash and the restart too, changes nothing in it. *)
THEOREM TrackerIsRegister == Dependable => (Spec => ImplementsRegister)
<1> SUFFICES ASSUME Dependable PROVE Spec => Register!Spec
  BY DEF ImplementsRegister
<1> DEFINE Map == [ip \in IPs |-> BanEnd(Durable(ip), now)]
           MaxBan == (CHOOSE s \in Settings : TRUE).max_ban_time
<1>1. Init => Register!Init
  <2> SUFFICES ASSUME Init PROVE Register!Init
    OBVIOUS
  <2>1. now = 0 /\ up /\ entries = NoEntries
    BY DEF Init
  <2>2. \A ip \in IPs : BanEnd(Durable(ip), now) = 0
    BY <2>1 DEF Durable, NoEntries, DefaultEntry, BanEnd, NoBan
  <2> QED BY <2>1, <2>2 DEF Register!Init
<1>2. IInv /\ IInv' /\ RegisterInv /\ [Next]_vars => [Register!Next]_(<<now, Map>>)
  <2> SUFFICES ASSUME IInv, IInv', RegisterInv, [Next]_vars
               PROVE  Register!Next \/ UNCHANGED <<now, Map>>
    OBVIOUS
  <2>1. CASE UNCHANGED vars
    BY <2>1 DEF vars, bounds, Durable
  <2>2. CASE Next
    <3>1. DurableStep /\ settings' = settings
      BY <2>2, DurableSteps
    <3>2. now \in Nat /\ settings \in Settings /\ MaxBan = settings.max_ban_time
      BY DEF IInv, TypeOK, Dependable
    <3>3. \A ip \in IPs : Durable(ip) \in AbuseEntry /\ Durable(ip).ban_until \in Nat
      BY DurableEntry DEF AbuseEntry
    <3>4. /\ Map = [ip \in IPs |-> Map[ip]] /\ Map' = [ip \in IPs |-> Map'[ip]]
          /\ \A ip \in IPs : /\ Map[ip] = BanEnd(Durable(ip), now)
                             /\ Map'[ip] = BanEnd(Durable(ip)', now')
      OBVIOUS
    <3>5. CASE now' = now + 1 /\ \A ip \in IPs : Durable(ip)' = Durable(ip)
      <4>1. \A ip \in IPs : BanEnd(Durable(ip)', now') = Register!Still(BanEnd(Durable(ip), now), now')
        BY <3>2, <3>3, <3>5 DEF Register!Still, BanEnd, Banned, NoBan
      <4>2. Register!Tick
        BY <3>5, <4>1 DEF Register!Tick
      <4> QED BY <4>2 DEF Register!Next
    <3>6. CASE now' = now /\ Stay(IPs)
      <4>1. \A ip \in IPs : BanEnd(Durable(ip)', now') = BanEnd(Durable(ip), now)
        BY <3>6 DEF Stay, SameBan
      <4>2. Map' = Map
        BY <4>1
      <4> QED BY <3>6, <4>2
    <3>7. ASSUME now' = now, NEW a \in IPs, BannedAgain(a), Stay(IPs \ {a})
          PROVE  Register!Next
      <4>1. PICK u : u = Durable(a)'.ban_until
        OBVIOUS
      <4>2. /\ u \in now + 1 .. now + MaxBan
            /\ u >= BanEnd(Durable(a), now)
            /\ BanEnd(Durable(a)', now') = u
        BY <3>1, <3>2, <3>7, <4>1, BannedAgainLater
      <4>3. \A ip \in IPs \ {a} : BanEnd(Durable(ip)', now') = BanEnd(Durable(ip), now)
        BY <3>7 DEF Stay, SameBan
      <4>4. Map' = [Map EXCEPT ![a] = u]
        BY <4>2, <4>3
      <4>5. u >= Map[a]
        BY <4>2
      <4>6. Register!Ban(a)
        BY <3>7, <4>2, <4>4, <4>5 DEF Register!Ban
      <4> QED BY <4>6 DEF Register!Next
    <3> QED BY <3>1, <3>5, <3>6, <3>7 DEF DurableStep
  <2> QED BY <2>1, <2>2
<1>3. Spec => []RegisterInv
  BY RegisterInvariant
<1> QED BY <1>1, <1>2, <1>3, Invariance, PTL DEF Spec, Register!Spec

-----------------------------------------------------------------------------
(* Under one configuration each failure in a window, in the table or in    *)
(* the file, has one of its own among the failures since the last success, *)
(* no older than it: neither a start nor a file that a panic left behind   *)
(* brings back what a success cleared.                                     *)

Covers(q, h) ==
    /\ Len(q) <= Len(h)
    /\ \A i \in 1 .. Len(q) : q[i] <= h[Len(h) - Len(q) + i]

HistoryInv ==
    /\ since \in [IPs -> Seq(Nat)]
    /\ \A ip \in IPs :
          /\ Covers(entries[ip].recent_failures, since[ip])
          /\ Covers(files[settings.state_path][ip].recent_failures, since[ip])

(* No failures are covered by any.                                         *)
LEMMA EmptyIsCovered ==
    ASSUME NEW h \in Seq(Nat)
    PROVE  Covers(<< >>, h)
BY DEF Covers

(* Failures that are taken from the front leave the others covered.        *)
LEMMA SuffixIsCovered ==
    ASSUME NEW q \in Seq(Nat), NEW r \in Seq(Nat), NEW h \in Seq(Nat),
           Covers(q, h), Suffix(r, q)
    PROVE  Covers(r, h)
<1>1. PICK k \in 0 .. Len(q) : Len(r) = Len(q) - k /\ \A i \in 1 .. Len(q) - k : r[i] = q[k + i]
  BY DEF Suffix
<1>2. Len(q) \in Nat /\ Len(r) \in Nat /\ Len(h) \in Nat
  OBVIOUS
<1>3. ASSUME NEW i \in 1 .. Len(r) PROVE r[i] <= h[Len(h) - Len(r) + i]
  <2>1. k + i \in 1 .. Len(q) /\ r[i] = q[k + i]
    BY <1>1, <1>2
  <2>2. q[k + i] <= h[Len(h) - Len(q) + (k + i)]
    BY <2>1 DEF Covers
  <2>3. Len(h) - Len(q) + (k + i) = Len(h) - Len(r) + i
    BY <1>1, <1>2
  <2> QED BY <2>1, <2>2, <2>3
<1> QED BY <1>1, <1>2, <1>3 DEF Covers

(* A failure that is counted on both sides.                                *)
LEMMA FailureIsCovered ==
    ASSUME NEW q \in Seq(Nat), NEW h \in Seq(Nat), NEW t \in Nat, Covers(q, h)
    PROVE  Covers(Append(q, t), Append(h, t))
<1>1. Len(q) \in Nat /\ Len(h) \in Nat /\ Len(q) <= Len(h)
  BY DEF Covers
<1>2. Len(Append(q, t)) = Len(q) + 1 /\ Len(Append(h, t)) = Len(h) + 1
  OBVIOUS
<1>3. ASSUME NEW i \in 1 .. Len(q) + 1
      PROVE  Append(q, t)[i] <= Append(h, t)[Len(h) - Len(q) + i]
  <2>1. CASE i = Len(q) + 1
    <3>1. Append(q, t)[i] = t
      BY <2>1
    <3>2. Len(h) - Len(q) + i = Len(h) + 1
      BY <1>1, <2>1
    <3>3. Append(h, t)[Len(h) + 1] = t
      OBVIOUS
    <3> QED BY <3>1, <3>2, <3>3
  <2>2. CASE i \in 1 .. Len(q)
    <3>1. Append(q, t)[i] = q[i] /\ q[i] <= h[Len(h) - Len(q) + i]
      BY <2>2 DEF Covers
    <3>2. Len(h) - Len(q) + i \in 1 .. Len(h)
      BY <1>1, <2>2
    <3>3. Append(h, t)[Len(h) - Len(q) + i] = h[Len(h) - Len(q) + i]
      BY <3>2
    <3> QED BY <3>1, <3>3
  <2> QED BY <1>1, <2>1, <2>2
<1>4. PICK x, y : x = Append(q, t) /\ y = Append(h, t)
  OBVIOUS
<1>5. /\ Len(x) = Len(q) + 1 /\ Len(y) = Len(h) + 1
      /\ \A i \in 1 .. Len(q) + 1 : x[i] <= y[Len(h) - Len(q) + i]
  BY <1>2, <1>3, <1>4
<1>6. Len(x) <= Len(y) /\ Len(y) - Len(x) = Len(h) - Len(q)
  BY <1>1, <1>5
<1>7. Covers(x, y)
  BY <1>5, <1>6 DEF Covers
<1> QED BY <1>4, <1>7

(* A failure that is not in the window, or not in the file.                *)
LEMMA OlderIsCovered ==
    ASSUME NEW q \in Seq(Nat), NEW h \in Seq(Nat), NEW t \in Nat, Covers(q, h),
           InOrder(q, t)
    PROVE  Covers(q, Append(h, t))
<1>1. Len(q) \in Nat /\ Len(h) \in Nat /\ Len(q) <= Len(h)
  BY DEF Covers
<1>2. Len(Append(h, t)) = Len(h) + 1
  OBVIOUS
<1> DEFINE shift == (Len(h) + 1) - Len(q)
<1>3. ASSUME NEW i \in 1 .. Len(q) PROVE q[i] <= Append(h, t)[shift + i]
  <2>1. CASE i = Len(q)
    <3>1. shift + i = Len(h) + 1 /\ Append(h, t)[Len(h) + 1] = t
      BY <1>1, <2>1
    <3> QED BY <3>1 DEF InOrder
  <2>2. CASE i < Len(q)
    <3>1. PICK j \in 1 .. Len(q) : j = i + 1 /\ j \in i .. Len(q)
      BY <1>1, <2>2
    <3>2. PICK l \in 1 .. Len(h) : l = Len(h) - Len(q) + j
      <4>1. Len(h) - Len(q) + j \in 1 .. Len(h)
        BY <1>1
      <4> QED BY <4>1
    <3>3. q[i] <= q[j] /\ q[j] <= h[l]
      BY <3>1, <3>2 DEF InOrder, Covers
    <3>4. q[i] \in Nat /\ q[j] \in Nat /\ h[l] \in Nat
      BY <3>1, <3>2, ElementOfSeq
    <3>5. shift + i = l /\ Append(h, t)[l] = h[l]
      BY <1>1, <3>1, <3>2
    <3>6. q[i] <= h[l]
      BY <3>3, <3>4
    <3> QED BY <3>5, <3>6
  <2>3. i = Len(q) \/ i < Len(q)
    BY <1>1
  <2> QED BY <2>1, <2>2, <2>3
<1>4. PICK y : y = Append(h, t)
  OBVIOUS
<1>5. Len(y) = Len(h) + 1 /\ \A i \in 1 .. Len(q) : q[i] <= y[shift + i]
  BY <1>2, <1>3, <1>4
<1>6. Len(q) <= Len(y) /\ Len(y) - Len(q) = shift
  BY <1>1, <1>5
<1> HIDE DEF shift
<1>7. Covers(q, y)
  BY <1>5, <1>6 DEF Covers
<1> QED BY <1>4, <1>7

(* The entries whose windows HistoryInv speaks of.                         *)
LEMMA WindowTypes ==
    ASSUME IInv, NEW ip \in IPs
    PROVE  /\ entries[ip].recent_failures \in Seq(Nat)
           /\ InOrder(entries[ip].recent_failures, now)
           /\ files[settings.state_path][ip].recent_failures \in Seq(Nat)
           /\ InOrder(files[settings.state_path][ip].recent_failures, now)
<1>1. /\ settings.state_path \in Paths
      /\ GoodEntry(entries[ip], now) /\ GoodEntry(files[settings.state_path][ip], now)
  BY SettingsAssumption DEF IInv, TypeOK, ValidSettings, GoodTables, GoodTable
<1> QED BY <1>1 DEF GoodEntry, AbuseEntry

(* A failure that is counted, and banned at the threshold.                 *)
LEMMA FailedIsCovered ==
    ASSUME Dependable, IInv, IInv', HistoryInv, NEW ip \in IPs,
           NEW t \in Tasks, RecordFailure(t), task[t].ip = ip, Tracked(task[t].settings, ip)
    PROVE  /\ Covers(entries'[ip].recent_failures, Append(since[ip], now))
           /\ Covers(CountFailure(entries[ip], now, settings).recent_failures,
                     Append(since[ip], now))
           /\ Covers(files'[settings.state_path][ip].recent_failures, Append(since[ip], now))
<1>1. /\ now \in Nat /\ settings \in Settings /\ settings.state_path \in Paths
      /\ since[ip] \in Seq(Nat) /\ GoodEntry(entries[ip], now)
      /\ entries'[ip].recent_failures \in Seq(Nat)
  BY SettingsAssumption
     DEF IInv, TypeOK, ValidSettings, GoodTables, GoodTable, HistoryInv, AbuseEntry
<1>2. task[t].settings = settings
  BY <1>1, TaskFields DEF Dependable, IInv, RecordFailure
<1>3. PICK c : c = CountFailure(entries[ip], now, settings)
  OBVIOUS
<1>4. c \in AbuseEntry /\ c.recent_failures \in Seq(Nat)
  BY <1>1, <1>3, GoodCounted DEF GoodEntry, AbuseEntry
<1>5. PICK r \in Seq(Nat) : /\ c.recent_failures = Append(r, now)
                            /\ Suffix(r, entries[ip].recent_failures)
  <2>1. \E r \in Seq(Nat) :
           /\ CountFailure(entries[ip], now, settings).recent_failures = Append(r, now)
           /\ Suffix(r, entries[ip].recent_failures)
    BY <1>1, CountedWindow
  <2> QED BY <1>3, <2>1
<1>6. Covers(c.recent_failures, Append(since[ip], now))
  <2>1. Covers(r, since[ip])
    BY <1>1, <1>5, WindowTypes, SuffixIsCovered DEF HistoryInv
  <2> QED BY <1>1, <1>5, <2>1, FailureIsCovered
<1>7. Suffix(entries'[ip].recent_failures, c.recent_failures)
  <2>1. Follows(entries'[ip], c, now) \/ entries'[ip] = Ban(c, now, settings)
    BY <1>2, <1>3, RecordFailureCases
  <2>2. CASE entries'[ip] = Ban(c, now, settings)
    <3>1. entries'[ip].recent_failures = c.recent_failures
      BY <1>4, <2>2 DEF Ban, AbuseEntry
    <3> QED BY <1>1, <1>4, <3>1, FollowsItself DEF Follows
  <2> QED BY <2>1, <2>2 DEF Follows
<1>8. Append(since[ip], now) \in Seq(Nat)
  BY <1>1
<1>9. Covers(entries'[ip].recent_failures, Append(since[ip], now))
  BY <1>1, <1>4, <1>6, <1>7, <1>8, SuffixIsCovered
<1>10. Covers(files[settings.state_path][ip].recent_failures, Append(since[ip], now))
  BY <1>1, WindowTypes, OlderIsCovered DEF HistoryInv
<1>11. files'[settings.state_path] \in {files[settings.state_path], entries'}
  BY <1>1, CallsWrite
<1> QED BY <1>3, <1>6, <1>9, <1>10, <1>11

(* A success that finds no ban: the table and the file are cleared.        *)
LEMMA SucceededIsCovered ==
    ASSUME Dependable, IInv, IInv', NEW ip \in IPs, Succeeded(ip)
    PROVE  /\ entries'[ip].recent_failures = << >>
           /\ files'[settings.state_path][ip].recent_failures = << >>
<1>1. PICK t \in Tasks : /\ RecordSuccess(t) /\ task[t].ip = ip
                         /\ Tracked(task[t].settings, ip)
  BY DEF Succeeded
<1>2. /\ TypeOK /\ now \in Nat /\ settings \in Settings /\ settings' = settings
      /\ GoodTable(entries, now) /\ entries'[ip] \in AbuseEntry
  BY <1>1 DEF IInv, TypeOK, GoodTables, RecordSuccess
<1>3. task[t].settings = settings
  BY <1>1, <1>2, TaskFields DEF Dependable, RecordSuccess
<1>4. PICK es : /\ es = IF entries[ip] # DefaultEntry
                        THEN [entries EXCEPT ![ip] = ForgetFailures(entries[ip], now)]
                        ELSE entries
                /\ PersistIfEnabled(es, settings)
  BY <1>1, <1>3 DEF RecordSuccess
<1>5. GoodEntry(entries[ip], now) /\ entries \in [IPs -> AbuseEntry]
  BY <1>2 DEF GoodTable
<1>6. GoodTable(es, now)
  BY <1>2, <1>4, <1>5, GoodForgot, GoodTableUpdate
<1>7. es[ip].recent_failures = << >>
  <2>1. CASE entries[ip] = DefaultEntry
    BY <1>4, <2>1 DEF DefaultEntry
  <2>2. CASE entries[ip] # DefaultEntry
    <3>1. es[ip] = [entries[ip] EXCEPT !.recent_failures = << >>]
      BY <1>4, <1>5, <2>2 DEF ForgetFailures, Succeeded
    <3> QED BY <1>5, <3>1 DEF AbuseEntry
  <2> QED BY <2>1, <2>2
<1>8. Suffix(entries'[ip].recent_failures, << >>)
  BY <1>2, <1>4, <1>6, <1>7, PersistFollows DEF Follows
<1>9. entries'[ip].recent_failures \in Seq(Nat)
  BY <1>2 DEF AbuseEntry
<1>10. entries'[ip].recent_failures = << >>
  <2>1. Len(entries'[ip].recent_failures) = 0
    BY <1>8, <1>9 DEF Suffix
  <2> QED BY <1>9, <2>1, EmptySeq
<1>11. files'[settings.state_path] = entries'
  BY <1>2, <1>4, PersistMirrors
<1> QED BY <1>10, <1>11

(* A step that neither counts a failure of the address nor clears its      *)
(* window brings nothing back.                                             *)
LEMMA OthersAreCovered ==
    ASSUME Dependable, IInv, IInv', RegisterInv, HistoryInv, Next, NEW ip \in IPs,
           ~Failed(ip)
    PROVE  /\ Covers(entries'[ip].recent_failures, since[ip])
           /\ Covers(files'[settings.state_path][ip].recent_failures, since[ip])
<1> DEFINE Kept == Suffix(entries'[ip].recent_failures, entries[ip].recent_failures)
           Wrote == files'[settings.state_path] \in {files[settings.state_path], entries'}
           Read == Suffix(entries'[ip].recent_failures,
                          files[settings.state_path][ip].recent_failures)
<1>1. /\ now \in Nat /\ settings \in Settings /\ settings.state_path \in Paths
      /\ settings.persist_state /\ settings' = settings
      /\ since[ip] \in Seq(Nat) /\ entries[ip] \in AbuseEntry
      /\ entries'[ip].recent_failures \in Seq(Nat)
      /\ GoodTable(files[settings.state_path], now)
  <2>1. settings \in Settings /\ settings' \in Settings
    BY DEF IInv, TypeOK
  <2> QED BY <2>1, SettingsAssumption
          DEF Dependable, IInv, TypeOK, GoodTables, ValidSettings, HistoryInv, AbuseEntry
<1>2. CASE entries' = entries /\ files' = files
  BY <1>2 DEF HistoryInv
<1>3. ASSUME Kept \/ Read, Wrote
      PROVE  /\ Covers(entries'[ip].recent_failures, since[ip])
             /\ Covers(files'[settings.state_path][ip].recent_failures, since[ip])
  BY <1>1, <1>3, WindowTypes, SuffixIsCovered DEF HistoryInv
<1>4. ASSUME NEW t \in Tasks, CheckIp(t) \/ RecordSuccess(t) PROVE Kept /\ Wrote
  BY <1>1, <1>4, CallsFollow, CallsWrite DEF Follows
<1>5. ASSUME NEW t \in Tasks, RecordFailure(t) PROVE Kept /\ Wrote
  <2>1. Follows(entries'[ip], entries[ip], now)
    BY <1>5, RecordFailureCases DEF Failed
  <2> QED BY <1>1, <1>5, <2>1, CallsWrite DEF Follows
<1>6. CASE Crash
  <2>1. entries'[ip].recent_failures = << >> /\ files' = files
    BY <1>6 DEF Crash, NoEntries, DefaultEntry
  <2>2. Kept
    BY <2>1, WindowTypes, EmptySuffix
  <2> QED BY <1>3, <2>1, <2>2
<1>7. CASE Restart
  <2>1. entries' = ReadStateFile(files[settings.state_path], now, settings) /\ files' = files
    BY <1>1, <1>7 DEF Restart, Dependable
  <2>2. Read
    BY <1>1, <2>1, ReadFollows DEF Follows
  <2> QED BY <1>3, <2>1, <2>2
<1>8. ASSUME ReloadSettings \/ ReloadReadFile \/ ApplyLoadedState PROVE FALSE
  BY <1>8 DEF Dependable, RegisterInv, ReloadSettings, ReloadReadFile, ApplyLoadedState,
              IdleReload
<1> HIDE DEF Kept, Wrote, Read
<1>9. Tick \/ (\E t \in Tasks : BeginCheck(t) \/ BeginFailure(t) \/ BeginSuccess(t) \/ Leave(t))
         => entries' = entries /\ files' = files
  BY DEF Tick, BeginCheck, BeginFailure, BeginSuccess, Leave
<1> QED BY <1>2, <1>3, <1>4, <1>5, <1>6, <1>7, <1>8, <1>9 DEF Next

LEMMA NextHistoryInv ==
    /\ Dependable /\ IInv /\ IInv' /\ RegisterInv /\ HistoryInv
    /\ [HistoryNext]_<<vars, since>>
    => HistoryInv'
<1> SUFFICES ASSUME Dependable, IInv, IInv', RegisterInv, HistoryInv,
                    [HistoryNext]_<<vars, since>>
             PROVE  HistoryInv'
  OBVIOUS
<1>1. CASE UNCHANGED <<vars, since>>
  BY <1>1 DEF vars, HistoryInv
<1>2. CASE HistoryNext
  <2>1. now \in Nat /\ since \in [IPs -> Seq(Nat)] /\ settings' = settings
    BY DEF IInv, TypeOK, HistoryInv, Dependable
  <2>2. since' \in [IPs -> Seq(Nat)]
    <3>1. \A h \in Seq(Nat) : Append(h, now) \in Seq(Nat)
      BY <2>1
    <3>2. << >> \in Seq(Nat)
      BY EmptySeq
    <3> QED BY <1>2, <2>1, <3>1, <3>2 DEF HistoryNext
  <2>3. ASSUME NEW ip \in IPs
        PROVE  /\ Covers(entries'[ip].recent_failures, since'[ip])
               /\ Covers(files'[settings.state_path][ip].recent_failures, since'[ip])
    <3>1. CASE Failed(ip)
      <4>1. since'[ip] = Append(since[ip], now)
        BY <1>2, <3>1 DEF HistoryNext
      <4> QED BY <3>1, <4>1, FailedIsCovered DEF Failed
    <3>2. CASE ~Failed(ip) /\ Succeeded(ip)
      <4>1. since'[ip] = << >>
        BY <1>2, <3>2 DEF HistoryNext
      <4>2. Covers(<< >>, << >>)
        BY EmptySeq, EmptyIsCovered
      <4> QED BY <3>2, <4>1, <4>2, SucceededIsCovered
    <3>3. CASE ~Failed(ip) /\ ~Succeeded(ip)
      <4>1. since'[ip] = since[ip] /\ Next
        BY <1>2, <3>3 DEF HistoryNext
      <4> QED BY <3>3, <4>1, OthersAreCovered
    <3> QED BY <3>1, <3>2, <3>3
  <2> QED BY <2>1, <2>2, <2>3 DEF HistoryInv
<1> QED BY <1>1, <1>2

(* Only record_failure sets a ban, and then it has counted max_failures    *)
(* failures within find_time, all of them after the last success that      *)
(* found no ban: with any number of attempts in flight, however often the  *)
(* process ends and starts again, and where a call of another task panics. *)
THEOREM BansTakeABurst == Dependable => (HistorySpec => BansNeedBurst)
<1> SUFFICES ASSUME Dependable PROVE HistorySpec => BansNeedBurst
  OBVIOUS
<1>1. ASSUME IInv, IInv', RegisterInv, HistoryInv, HistoryInv', HistoryNext,
             NEW ip \in IPs, BanSet(ip)
      PROVE  Burst(since'[ip], settings)
  <2>1. /\ now \in Nat /\ settings \in Settings /\ GoodEntry(entries[ip], now)
        /\ entries[ip] \in AbuseEntry /\ entries'[ip] \in AbuseEntry
        /\ since'[ip] \in Seq(Nat)
    BY <1>1 DEF IInv, TypeOK, GoodTables, GoodTable, HistoryInv
  <2>2. ~SameBan(entries'[ip], entries[ip], now)
    <3>1. entries[ip].ban_until \in Nat /\ entries'[ip].ban_until \in Nat
      BY <2>1 DEF AbuseEntry
    <3> QED BY <1>1, <2>1, <3>1 DEF BanSet, SameBan, BanEnd, Banned, NoBan
  <2>3. ASSUME NEW t \in Tasks, RecordFailure(t) PROVE Burst(since'[ip], settings)
    <3>1. task[t].settings = settings
      BY <1>1, <2>1, <2>3, TaskFields DEF Dependable, IInv, RecordFailure
    <3>2. PICK c : c = CountFailure(entries[ip], now, settings)
      OBVIOUS
    <3>3. /\ c.ban_count = entries[ip].ban_count /\ c.ban_until = entries[ip].ban_until
          /\ c \in AbuseEntry /\ Fresh(c.recent_failures, now, settings.find_time)
      BY <2>1, <3>2, GoodCounted, CountedWindow DEF GoodEntry
    <3>4. ~Follows(entries'[ip], entries[ip], now) /\ ~Follows(entries'[ip], c, now)
      BY <2>2, <3>3 DEF Follows, SameBan, BanEnd, Banned
    <3>5. ip = task[t].ip /\ Tracked(settings, ip) /\ AtThreshold(c, settings)
      BY <1>1, <2>3, <3>1, <3>2, <3>4, RecordFailureCases
    <3>6. since'[ip] = Append(since[ip], now)
      BY <1>1, <2>3, <3>1, <3>5 DEF HistoryNext, Failed
    <3>7. Covers(c.recent_failures, since'[ip])
      BY <1>1, <2>3, <3>1, <3>2, <3>5, <3>6, FailedIsCovered
    <3>8. PICK q \in Seq(Nat), h \in Seq(Nat) : q = c.recent_failures /\ h = since'[ip]
      BY <2>1, <3>3 DEF AbuseEntry
    <3>9. PICK n \in Nat \ {0}, window \in Nat :
             n = settings.max_failures /\ window = settings.find_time
      BY <2>1, SettingsAssumption DEF ValidSettings
    <3>10. Len(q) \in Nat /\ Len(h) \in Nat /\ Len(q) <= Len(h) /\ n <= Len(q)
      BY <3>5, <3>7, <3>8, <3>9 DEF Covers, AtThreshold
    <3>11. PICK i \in 1 .. Len(q), j \in 1 .. Len(h) :
              i = Len(q) - n + 1 /\ j = Len(h) - n + 1 /\ j = Len(h) - Len(q) + i
      <4>1. PICK x \in Nat, y \in Nat : x = Len(q) /\ y = Len(h)
        BY <3>10
      <4>2. /\ x - n + 1 \in 1 .. x /\ y - n + 1 \in 1 .. y
            /\ y - n + 1 = y - x + (x - n + 1)
        BY <3>10, <4>1
      <4> QED BY <4>1, <4>2
    <3>12. q[i] + window >= now /\ q[i] <= h[j]
      BY <3>3, <3>7, <3>8, <3>9, <3>11 DEF Fresh, Covers
    <3>13. h[j] + window >= now
      <4>1. PICK x \in Nat, y \in Nat : x = q[i] /\ y = h[j]
        BY ElementOfSeq
      <4>2. x + window >= now /\ x <= y
        BY <3>12, <4>1
      <4>3. y + window >= now
        BY <2>1, <3>9, <4>2
      <4> QED BY <4>1, <4>3
    <3> QED BY <3>8, <3>9, <3>10, <3>11, <3>13 DEF Burst
  <2>4. ASSUME NEW t \in Tasks, CheckIp(t) \/ RecordSuccess(t) PROVE FALSE
    BY <1>1, <2>2, <2>4, CallsFollow DEF Follows
  <2>5. ASSUME Crash \/ Restart PROVE FALSE
    <3>1. Crash => entries'[ip].ban_until = 0
      BY DEF Crash, NoEntries, DefaultEntry, NoBan
    <3> QED BY <1>1, <2>1, <2>5, <3>1 DEF BanSet, Banned, Restart
  <2>6. ASSUME ReloadSettings \/ ReloadReadFile \/ ApplyLoadedState PROVE FALSE
    BY <1>1, <2>6 DEF Dependable, RegisterInv, ReloadSettings, ReloadReadFile,
                      ApplyLoadedState, IdleReload
  <2>7. ASSUME entries' = entries PROVE FALSE
    BY <2>2, <2>7 DEF SameBan
  <2>8. Tick \/ (\E t \in Tasks : BeginCheck(t) \/ BeginFailure(t) \/ BeginSuccess(t) \/ Leave(t))
           => entries' = entries
    BY DEF Tick, BeginCheck, BeginFailure, BeginSuccess, Leave
  <2> QED BY <1>1, <2>3, <2>4, <2>5, <2>6, <2>7, <2>8 DEF HistoryNext, Next
<1>2. HistorySpec => Spec
  <2>1. HistoryInit => Init
    BY DEF HistoryInit
  <2>2. [HistoryNext]_<<vars, since>> => [Next]_vars
    BY DEF HistoryNext
  <2> QED BY <2>1, <2>2, PTL DEF HistorySpec, Spec
<1>3. HistoryInit => HistoryInv
  <2> SUFFICES ASSUME HistoryInit PROVE HistoryInv
    OBVIOUS
  <2>1. /\ since = [ip \in IPs |-> << >>] /\ << >> \in Seq(Nat)
        /\ settings.state_path \in Paths
        /\ entries = NoEntries /\ files[settings.state_path] = NoEntries
    BY EmptySeq, SettingsAssumption DEF HistoryInit, Init, ValidSettings
  <2>2. \A ip \in IPs : NoEntries[ip].recent_failures = << >>
    BY DEF NoEntries, DefaultEntry
  <2>3. Covers(<< >>, << >>)
    BY <2>1, EmptyIsCovered
  <2> QED BY <2>1, <2>2, <2>3 DEF HistoryInv
<1>4. HistorySpec => []RegisterInv
  BY <1>2, RegisterInvariant
<1>5. IInv /\ IInv' /\ RegisterInv /\ HistoryInv /\ [HistoryNext]_<<vars, since>>
         => HistoryInv'
  BY NextHistoryInv
<1>6. HistorySpec => []HistoryInv
  BY <1>2, <1>3, <1>4, <1>5, Invariance, PTL DEF HistorySpec
<1>7. /\ IInv /\ IInv' /\ RegisterInv /\ HistoryInv /\ HistoryInv'
      /\ [HistoryNext]_<<vars, since>>
      => [\A ip \in IPs : BanSet(ip) => Burst(since'[ip], settings)]_<<vars, since>>
  BY <1>1
<1> QED BY <1>2, <1>4, <1>6, <1>7, Invariance, PTL DEF HistorySpec, BansNeedBurst

-----------------------------------------------------------------------------
(* One configuration whose bans outlast the window, and no reload; the     *)
(* disk may fail.                                                          *)

Steady ==
    /\ \A s, u \in Settings : s = u
    /\ \A s \in Settings : s.find_time < s.ban_time
    /\ MaxReloads = 0

(* Calm: the next ban of the address is still a Duration.                  *)
Calm(e, s) == ~BanDurationPanics(s, e.ban_count)

(* The attempts that were let through and are not over.                    *)
InFlight(ip) ==
    {t \in Tasks : task[t].pc \in {"admitted", "fail", "succeed"} /\ task[t].ip = ip}

(* A window at the threshold whose last failure is within find_time is     *)
(* that of a banned address: check_ip lets nobody through.                 *)
Outlasts(e, t, s) ==
    LET q == e.recent_failures
    IN  (Len(q) >= s.max_failures /\ q[Len(q)] + s.find_time >= t) =>
            e.ban_until >= q[Len(q)] + s.ban_time

Window(e, ip, t, s) ==
    /\ Calm(e, s) => Outlasts(e, t, s)
    /\ ~Tracked(s, ip) => e.recent_failures = << >>

Limit == settings.max_failures + Cardinality(Tasks)

OvershootInv ==
    /\ Stopped
    /\ reload = IdleReload
    /\ reloads = 0
    /\ \A ip \in IPs :
          /\ Window(entries[ip], ip, now, settings)
          /\ Calm(entries[ip], settings) =>
                Len(entries[ip].recent_failures) + Cardinality(InFlight(ip)) < Limit
    /\ \A p \in Paths, ip \in IPs :
          /\ Window(files[p][ip], ip, now, settings)
          /\ Calm(files[p][ip], settings) => Len(files[p][ip].recent_failures) < Limit

(* Failures that are taken from the front leave the last one where it is.  *)
LEMMA WindowFollows ==
    ASSUME NEW t \in Nat, NEW s \in Settings, NEW e \in AbuseEntry, NEW f \in AbuseEntry,
           NEW ip \in IPs, s.find_time < s.ban_time, Follows(f, e, t)
    PROVE  /\ Len(f.recent_failures) <= Len(e.recent_failures)
           /\ Calm(f, s) <=> Calm(e, s)
           /\ Window(e, ip, t, s) => Window(f, ip, t, s)
<1>1. PICK q \in Seq(Nat), r \in Seq(Nat) : q = e.recent_failures /\ r = f.recent_failures
  BY DEF AbuseEntry
<1>2. PICK k \in 0 .. Len(q) : Len(r) = Len(q) - k /\ \A i \in 1 .. Len(q) - k : r[i] = q[k + i]
  BY <1>1 DEF Follows, Suffix
<1>3. Len(q) \in Nat /\ Len(r) \in Nat /\ Len(r) <= Len(q)
  BY <1>2
<1>4. /\ s.max_failures \in Nat \ {0} /\ s.find_time \in Nat /\ s.ban_time \in Nat \ {0}
  BY SettingsAssumption DEF ValidSettings
<1>5. Calm(f, s) <=> Calm(e, s)
  BY DEF Calm, Follows, SameBan
<1>6. ASSUME Window(e, ip, t, s) PROVE Window(f, ip, t, s)
  <2>1. ASSUME Calm(f, s), Len(r) >= s.max_failures, r[Len(r)] + s.find_time >= t
        PROVE  f.ban_until >= r[Len(r)] + s.ban_time
    <3>1. Len(r) \in 1 .. Len(q) - k /\ k + Len(r) = Len(q) /\ Len(q) >= s.max_failures
      <4>1. PICK m \in Nat, n \in Nat, x \in Nat \ {0} :
               m = Len(q) /\ n = Len(r) /\ x = s.max_failures
        BY <1>3, <1>4
      <4>2. k \in 0 .. m /\ n = m - k /\ n >= x
        BY <1>2, <2>1, <4>1
      <4>3. n \in 1 .. m - k /\ k + n = m /\ m >= x
        BY <4>2
      <4> QED BY <4>1, <4>3
    <3>2. PICK x \in Nat : x = q[Len(q)] /\ x = r[Len(r)]
      <4>1. r[Len(r)] = q[k + Len(r)]
        BY <1>2, <3>1
      <4>2. Len(r) \in 1 .. Len(r)
        BY <1>3, <1>4, <2>1
      <4>3. r[Len(r)] \in Nat
        BY <4>2, ElementOfSeq
      <4> QED BY <3>1, <4>1, <4>3
    <3>3. e.ban_until >= x + s.ban_time
      BY <1>1, <1>5, <1>6, <2>1, <3>1, <3>2 DEF Window, Outlasts
    <3>4. e.ban_until \in Nat /\ f.ban_until \in Nat
      BY DEF AbuseEntry
    <3>5. e.ban_until > t
      <4>1. x + s.find_time >= t
        BY <2>1, <3>2
      <4> QED BY <1>4, <3>3, <3>4, <4>1
    <3>6. f.ban_until = e.ban_until
      BY <3>4, <3>5 DEF Follows, SameBan, BanEnd, Banned, NoBan
    <3> QED BY <3>2, <3>3, <3>6
  <2>2. q = << >> => r = << >>
    BY <1>3
  <2> QED BY <1>1, <1>6, <2>1, <2>2 DEF Window, Outlasts
<1> QED BY <1>1, <1>3, <1>5, <1>6

(* The same as time passes: what was stale stays stale.                    *)
LEMMA WindowLater ==
    ASSUME NEW t \in Nat, NEW s \in Settings, NEW e \in AbuseEntry, NEW ip \in IPs,
           Window(e, ip, t, s)
    PROVE  Window(e, ip, t + 1, s)
<1>1. PICK q \in Seq(Nat) : q = e.recent_failures
  BY DEF AbuseEntry
<1>2. s.max_failures \in Nat \ {0} /\ s.find_time \in Nat /\ Len(q) \in Nat
  BY SettingsAssumption DEF ValidSettings
<1>3. ASSUME Len(q) >= s.max_failures, q[Len(q)] + s.find_time >= t + 1
      PROVE  q[Len(q)] + s.find_time >= t
  <2>1. Len(q) \in 1 .. Len(q)
    BY <1>2, <1>3
  <2>2. q[Len(q)] \in Nat
    BY <2>1, ElementOfSeq
  <2> QED BY <1>2, <1>3, <2>2
<1> QED BY <1>1, <1>3 DEF Window, Outlasts

(* An address that was never seen has an empty window.                     *)
LEMMA WindowOfDefault ==
    ASSUME NEW t \in Nat, NEW s \in Settings, NEW ip \in IPs
    PROVE  Window(DefaultEntry, ip, t, s) /\ Len(DefaultEntry.recent_failures) = 0
<1>1. DefaultEntry.recent_failures = << >> /\ Len(<< >>) = 0
  BY DEF DefaultEntry
<1>2. s.max_failures \in Nat \ {0}
  BY SettingsAssumption DEF ValidSettings
<1> QED BY <1>1, <1>2 DEF Window, Outlasts

(* A window that was pruned and is at the threshold is of a banned entry.  *)
LEMMA FreshAtThreshold ==
    ASSUME NEW t \in Nat, NEW s \in Settings, NEW e \in AbuseEntry, NEW ip \in IPs,
           s.find_time < s.ban_time, Window(e, ip, t, s), Calm(e, s),
           Fresh(e.recent_failures, t, s.find_time), AtThreshold(e, s)
    PROVE  Banned(e, t)
<1>1. PICK q \in Seq(Nat) : q = e.recent_failures
  BY DEF AbuseEntry
<1>2. /\ s.max_failures \in Nat \ {0} /\ s.find_time \in Nat /\ s.ban_time \in Nat
      /\ Len(q) \in Nat /\ e.ban_until \in Nat
  BY SettingsAssumption DEF ValidSettings, AbuseEntry
<1>3. Len(q) \in 1 .. Len(q)
  BY <1>1, <1>2 DEF AtThreshold
<1>4. PICK x \in Nat : x = q[Len(q)]
  BY <1>3, ElementOfSeq
<1>5. x + s.find_time >= t
  BY <1>1, <1>3, <1>4 DEF Fresh
<1>6. e.ban_until >= x + s.ban_time
  BY <1>1, <1>4, <1>5 DEF Window, Outlasts, AtThreshold
<1> QED BY <1>2, <1>5, <1>6 DEF Banned

(* A ban that was just set outlasts its last failure.                      *)
LEMMA BanOutlasts ==
    ASSUME NEW t \in Nat, NEW s \in Settings, NEW e, GoodEntry(e, t), NEW ip \in IPs,
           Tracked(s, ip)
    PROVE  /\ Window(Ban(CountFailure(e, t, s), t, s), ip, t, s)
           /\ Ban(CountFailure(e, t, s), t, s).recent_failures
                 = CountFailure(e, t, s).recent_failures
<1>1. PICK c : c = CountFailure(e, t, s)
  OBVIOUS
<1>2. c \in AbuseEntry
  BY <1>1, GoodCounted DEF GoodEntry
<1>3. PICK b : b = Ban(c, t, s)
  OBVIOUS
<1>4. /\ b.recent_failures = c.recent_failures
      /\ b.ban_until = t + ComputeBanDuration(s, c.ban_count)
  BY <1>2, <1>3 DEF Ban, AbuseEntry
<1>5. PICK r \in Seq(Nat) : c.recent_failures = Append(r, t)
  <2>1. \E r \in Seq(Nat) : /\ CountFailure(e, t, s).recent_failures = Append(r, t)
                            /\ Suffix(r, e.recent_failures)
    BY CountedWindow
  <2> QED BY <1>1, <2>1
<1>6. Append(r, t)[Len(Append(r, t))] = t
  OBVIOUS
<1>7. /\ s.ban_time \in Nat \ {0} /\ s.max_ban_time \in Nat /\ s.ban_time <= s.max_ban_time
      /\ s.scale[c.ban_count] \in Nat \ {0}
  BY <1>2, SettingsAssumption DEF ValidSettings, AbuseEntry
<1>8. \A x, y \in Nat \ {0} : x * y \in Nat /\ x <= x * y
  <2> SUFFICES ASSUME NEW x \in Nat \ {0}, NEW y \in Nat \ {0}
               PROVE  x * y \in Nat /\ x <= x * y
    OBVIOUS
  <2>1. x * y = x + x * (y - 1) /\ y - 1 \in Nat
    OBVIOUS
  <2>2. x * (y - 1) \in Nat
    BY <2>1
  <2> QED BY <2>1, <2>2
<1>9. PICK d \in Nat : d = ComputeBanDuration(s, c.ban_count) /\ s.ban_time <= d
  BY <1>7, <1>8 DEF ComputeBanDuration, ScaledBan
<1>10. b.ban_until >= t + s.ban_time
  BY <1>4, <1>7, <1>9
<1>11. Window(b, ip, t, s)
  BY <1>4, <1>5, <1>6, <1>10 DEF Window, Outlasts
<1> QED BY <1>1, <1>3, <1>4, <1>11

(* No more attempts of an address are in flight than there are tasks.      *)
LEMMA InFlightFinite ==
    /\ Cardinality(Tasks) \in Nat
    /\ \A ip : /\ IsFiniteSet(InFlight(ip))
               /\ Cardinality(InFlight(ip)) \in Nat
               /\ Cardinality(InFlight(ip)) <= Cardinality(Tasks)
<1>1. \A ip : InFlight(ip) \subseteq Tasks
  BY DEF InFlight
<1> QED BY <1>1, TasksAssumption, FS_Subset, FS_CardinalityType

(* What is to be shown of a call: of the table only, for what a call       *)
(* writes is the table.                                                    *)
Overshot(ip) ==
    /\ Window(entries[ip], ip, now, settings)
    /\ Calm(entries[ip], settings) =>
          Len(entries[ip].recent_failures) + Cardinality(InFlight(ip)) < Limit

LEMMA CallOvershoot ==
    ASSUME IInv, IInv', OvershootInv, Stopped', \A ip \in IPs : Overshot(ip)',
           UNCHANGED <<now, settings, reload, reloads>>,
           \A p \in Paths : files'[p] = files[p] \/ files'[p] = entries'
    PROVE  OvershootInv'
<1>1. ASSUME NEW p \in Paths, NEW ip \in IPs
      PROVE  /\ Window(files'[p][ip], ip, now, settings)
             /\ Calm(files'[p][ip], settings) => Len(files'[p][ip].recent_failures) < Limit
  <2>1. CASE files'[p] = files[p]
    BY <2>1 DEF OvershootInv
  <2>2. CASE files'[p] = entries'
    <3>1. /\ Window(entries'[ip], ip, now, settings)
          /\ Calm(entries'[ip], settings) =>
                Len(entries'[ip].recent_failures) + Cardinality(InFlight(ip)') < Limit
      BY DEF Overshot, Limit, Calm
    <3>2. entries'[ip].recent_failures \in Seq(Nat)
      BY DEF IInv, TypeOK, AbuseEntry
    <3>3. Cardinality(InFlight(ip)') \in Nat
      <4>1. InFlight(ip)' \subseteq Tasks
        BY DEF InFlight
      <4> QED BY <4>1, TasksAssumption, FS_Subset, FS_CardinalityType
    <3>4. settings.max_failures \in Nat /\ Cardinality(Tasks) \in Nat
      BY SettingsAssumption, InFlightFinite DEF IInv, TypeOK, ValidSettings
    <3>5. Len(entries'[ip].recent_failures) \in Nat
      BY <3>2
    <3> QED BY <2>2, <3>1, <3>3, <3>4, <3>5 DEF Limit
  <2> QED BY <2>1, <2>2
<1>2. reload' = IdleReload /\ reloads' = 0
  BY DEF OvershootInv
<1>3. \A p \in Paths, ip \in IPs :
         /\ Window(files'[p][ip], ip, now', settings')
         /\ Calm(files'[p][ip], settings') => Len(files'[p][ip].recent_failures) < Limit'
  BY <1>1 DEF Limit
<1> QED BY <1>2, <1>3 DEF OvershootInv, Overshot

(* An address whose window loses failures, and that has no more attempts   *)
(* in flight than before.                                                  *)
LEMMA OvershotFollows ==
    ASSUME Steady, IInv, IInv', OvershootInv, NEW ip \in IPs,
           Follows(entries'[ip], entries[ip], now), InFlight(ip)' \subseteq InFlight(ip),
           now' = now, settings' = settings
    PROVE  Overshot(ip)'
<1>1. /\ now \in Nat /\ settings \in Settings
      /\ entries[ip] \in AbuseEntry /\ entries'[ip] \in AbuseEntry
      /\ settings.max_failures \in Nat /\ Cardinality(Tasks) \in Nat
  BY SettingsAssumption, InFlightFinite DEF IInv, TypeOK, ValidSettings
<1>2. settings.find_time < settings.ban_time
  BY <1>1 DEF Steady
<1>3. /\ Len(entries'[ip].recent_failures) <= Len(entries[ip].recent_failures)
      /\ Calm(entries'[ip], settings) <=> Calm(entries[ip], settings)
      /\ Window(entries'[ip], ip, now, settings)
  BY <1>1, <1>2, WindowFollows DEF OvershootInv
<1>4. /\ Cardinality(InFlight(ip)) \in Nat /\ Cardinality(InFlight(ip)') \in Nat
      /\ Cardinality(InFlight(ip)') <= Cardinality(InFlight(ip))
  BY InFlightFinite, FS_Subset, FS_CardinalityType
<1>5. Len(entries[ip].recent_failures) \in Nat /\ Len(entries'[ip].recent_failures) \in Nat
  BY <1>1 DEF AbuseEntry
<1>6. ASSUME Calm(entries'[ip], settings)
      PROVE  Len(entries'[ip].recent_failures) + Cardinality(InFlight(ip)') < Limit
  <2>1. PICK l \in Nat : l = Limit
    BY <1>1 DEF Limit
  <2>2. Len(entries[ip].recent_failures) + Cardinality(InFlight(ip)) < l
    BY <1>3, <1>6, <2>1 DEF OvershootInv
  <2> QED BY <1>3, <1>4, <1>5, <2>1, <2>2
<1> QED BY <1>3, <1>6 DEF Overshot, Limit, Calm

(* The moves of a task that touch no table.                                *)
LEMMA MovesOvershoot ==
    ASSUME Steady, IInv, IInv', OvershootInv, NEW t \in Tasks,
           BeginCheck(t) \/ BeginFailure(t) \/ BeginSuccess(t) \/ Leave(t)
    PROVE  OvershootInv'
<1>1. UNCHANGED <<now, settings, entries, files, reload, reloads>>
  BY DEF BeginCheck, BeginFailure, BeginSuccess, Leave, bounds
<1>2. Stopped'
  BY StoppedStays DEF OvershootInv, Next
<1>3. now \in Nat /\ entries \in [IPs -> AbuseEntry] /\ task \in [Tasks -> TaskStates]
  BY DEF IInv, TypeOK
<1>4. ASSUME NEW ip \in IPs PROVE InFlight(ip)' \subseteq InFlight(ip)
  <2>1. \A u \in Tasks \ {t} : task'[u] = task[u]
    BY <1>3 DEF BeginCheck, BeginFailure, BeginSuccess, Leave
  <2>2. task'[t].pc \in {"admitted", "fail", "succeed"} =>
           task[t].pc = "admitted" /\ task'[t].ip = task[t].ip
    BY <1>3 DEF BeginCheck, BeginFailure, BeginSuccess, Leave, IdleTask
  <2> QED BY <2>1, <2>2 DEF InFlight
<1>5. ASSUME NEW ip \in IPs PROVE Overshot(ip)'
  <2>1. Follows(entries'[ip], entries[ip], now)
    BY <1>1, <1>3, FollowsItself
  <2> QED BY <1>1, <1>4, <2>1, OvershotFollows
<1> QED BY <1>1, <1>2, <1>5, CallOvershoot

(* record_success.                                                         *)
LEMMA SuccessOvershoot ==
    ASSUME Steady, IInv, IInv', OvershootInv, NEW t \in Tasks, RecordSuccess(t)
    PROVE  OvershootInv'
<1>1. UNCHANGED <<now, settings, reload, reloads>>
  BY DEF RecordSuccess, bounds
<1>2. Stopped'
  BY StoppedStays DEF OvershootInv, Next
<1>3. task \in [Tasks -> TaskStates] /\ task' = [task EXCEPT ![t] = IdleTask]
  BY DEF IInv, TypeOK, RecordSuccess
<1>4. ASSUME NEW ip \in IPs PROVE InFlight(ip)' \subseteq InFlight(ip)
  BY <1>3 DEF InFlight, IdleTask
<1>5. ASSUME NEW ip \in IPs PROVE Overshot(ip)'
  BY <1>1, <1>4, CallsFollow, OvershotFollows
<1>6. \A p \in Paths : files'[p] = files[p] \/ files'[p] = entries'
  BY CallsWrite
<1> QED BY <1>1, <1>2, <1>5, <1>6, CallOvershoot

(* check_ip: it lets an attempt through only while the window is below the *)
(* threshold, and then all the tasks may be in flight.                     *)
LEMMA CheckOvershoot ==
    ASSUME Steady, IInv, IInv', OvershootInv, NEW t \in Tasks, CheckIp(t)
    PROVE  OvershootInv'
<1>1. UNCHANGED <<now, settings, reload, reloads>>
  BY DEF CheckIp, bounds
<1>2. Stopped'
  BY StoppedStays DEF OvershootInv, Next
<1>3. /\ now \in Nat /\ settings \in Settings /\ GoodTable(entries, now)
      /\ entries \in [IPs -> AbuseEntry] /\ entries' \in [IPs -> AbuseEntry]
      /\ task \in [Tasks -> TaskStates]
  BY DEF IInv, GoodTables, TypeOK
<1>4. task[t].ip \in IPs /\ task[t].settings = settings
  BY <1>3, TaskFields DEF Steady, CheckIp, IInv
<1>5. PICK ip \in IPs : ip = task[t].ip
  BY <1>4
<1>6. PICK e : e = ExpireBan(entries[ip], now, settings)
  OBVIOUS
<1>7. \A a \in IPs : Follows(entries'[a], entries[a], now)
  BY CallsFollow
<1>8. \/ task' = [task EXCEPT ![t] = IdleTask]
      \/ task' = [task EXCEPT ![t] = [pc |-> "admitted", ip |-> ip]]
  BY <1>5 DEF CheckIp
<1>9. ASSUME NEW a \in IPs, a # ip \/ task' = [task EXCEPT ![t] = IdleTask]
      PROVE  Overshot(a)'
  <2>1. InFlight(a)' \subseteq InFlight(a)
    BY <1>3, <1>8, <1>9 DEF InFlight, IdleTask
  <2> QED BY <1>1, <1>7, <2>1, OvershotFollows
<1>10. ASSUME task' = [task EXCEPT ![t] = [pc |-> "admitted", ip |-> ip]]
       PROVE  Overshot(ip)'
  <2>1. settings.find_time < settings.ban_time
    BY <1>3 DEF Steady
  <2>2. settings.max_failures \in Nat \ {0}
    BY <1>3, SettingsAssumption DEF ValidSettings
  <2>3. Window(entries[ip], ip, now, settings)
    BY DEF OvershootInv
  <2>4. Window(entries'[ip], ip, now, settings)
    BY <1>3, <1>7, <2>1, <2>3, WindowFollows
  <2>5. ASSUME Calm(entries'[ip], settings)
        PROVE  Len(entries'[ip].recent_failures) < settings.max_failures
    <3>1. CASE ~Tracked(settings, ip) \/ entries[ip] = DefaultEntry
      <4>1. entries' = entries
        BY <1>4, <1>5, <3>1 DEF CheckIp
      <4>2. entries[ip].recent_failures = << >>
        BY <2>3, <3>1 DEF Window, DefaultEntry
      <4> QED BY <2>2, <4>1, <4>2
    <3>2. CASE Tracked(settings, ip) /\ entries[ip] # DefaultEntry
      <4>1. ~Banned(e, now)
        <5>1. task'[t] = IF Banned(e, now) THEN IdleTask ELSE [pc |-> "admitted", ip |-> ip]
          BY <1>3, <1>4, <1>5, <1>6, <3>2 DEF CheckIp
        <5>2. task'[t] = [pc |-> "admitted", ip |-> ip]
          BY <1>3, <1>10
        <5>3. IdleTask # [pc |-> "admitted", ip |-> ip]
          BY DEF IdleTask
        <5> QED BY <5>1, <5>2, <5>3
      <4>2. GoodEntry(entries[ip], now)
        BY <1>3 DEF GoodTable
      <4>3. /\ GoodEntry(e, now) /\ Follows(e, entries[ip], now)
            /\ Fresh(e.recent_failures, now, settings.find_time)
        BY <1>3, <1>6, <4>2, GoodExpired, ExpiredFollows
      <4>4. e \in AbuseEntry
        BY <4>3 DEF GoodEntry
      <4>5. Window(e, ip, now, settings) /\ Calm(e, settings)
        BY <1>3, <1>7, <2>1, <2>3, <2>5, <4>3, <4>4, WindowFollows
      <4>6. ~AtThreshold(e, settings)
        BY <1>3, <2>1, <4>1, <4>3, <4>4, <4>5, FreshAtThreshold
      <4>7. Follows(entries'[ip], e, now)
        <5>1. PICK es : es = [entries EXCEPT ![ip] = e]
          OBVIOUS
        <5>2. GoodTable(es, now) /\ es[ip] = e
          BY <1>3, <4>3, <5>1, GoodTableUpdate
        <5>3. PersistIfEnabled(es, settings) \/ entries' = es
          BY <1>4, <1>5, <1>6, <3>2, <5>1 DEF CheckIp
        <5> QED BY <1>3, <4>4, <5>2, <5>3, PersistFollows, FollowsItself
      <4>8. Len(entries'[ip].recent_failures) <= Len(e.recent_failures)
        BY <1>3, <2>1, <4>4, <4>7, WindowFollows
      <4>9. Len(entries'[ip].recent_failures) \in Nat /\ Len(e.recent_failures) \in Nat
        BY <1>3, <4>4 DEF AbuseEntry
      <4> QED BY <2>2, <4>6, <4>8, <4>9 DEF AtThreshold
    <3> QED BY <3>1, <3>2
  <2>6. /\ Cardinality(Tasks) \in Nat /\ Cardinality(InFlight(ip)') \in Nat
        /\ Cardinality(InFlight(ip)') <= Cardinality(Tasks)
    <3>1. InFlight(ip)' \subseteq Tasks
      BY DEF InFlight
    <3> QED BY <3>1, TasksAssumption, FS_Subset, FS_CardinalityType
  <2>7. Len(entries'[ip].recent_failures) \in Nat
    BY <1>3 DEF AbuseEntry
  <2>8. Calm(entries'[ip], settings) =>
           Len(entries'[ip].recent_failures) + Cardinality(InFlight(ip)') < Limit
    BY <2>2, <2>5, <2>6, <2>7 DEF Limit
  <2> QED BY <1>1, <2>4, <2>8 DEF Overshot, Limit, Calm
<1>11. \A a \in IPs : Overshot(a)'
  BY <1>8, <1>9, <1>10
<1>12. \A p \in Paths : files'[p] = files[p] \/ files'[p] = entries'
  BY CallsWrite
<1> QED BY <1>1, <1>2, <1>11, <1>12, CallOvershoot

(* An address that was banned once more comes no further from the panic.   *)
LEMMA BannedIsNotCalmer ==
    ASSUME NEW t \in Nat, NEW s \in Settings, NEW e \in AbuseEntry,
           Calm(Ban(e, t, s), s)
    PROVE  Calm(e, s)
<1>1. PICK n \in BanCounts : n = e.ban_count
  BY DEF AbuseEntry
<1>2. SaturatingInc(n) \in BanCounts /\ n <= SaturatingInc(n)
  BY BoundsAssumption DEF BanCounts, SaturatingInc
<1>3. Ban(e, t, s).ban_count = SaturatingInc(n)
  BY <1>1 DEF Ban, AbuseEntry
<1>4. ScaledBan(s, n) \in Nat /\ ScaledBan(s, SaturatingInc(n)) \in Nat
      /\ ScaledBan(s, n) <= ScaledBan(s, SaturatingInc(n))
  BY <1>2, ScaledBansGrow
<1> QED BY <1>1, <1>3, <1>4, BoundsAssumption DEF Calm, BanDurationPanics

(* record_failure: one more failure in the window is one attempt less in   *)
(* flight.                                                                 *)
LEMMA FailureOvershoot ==
    ASSUME Steady, IInv, IInv', OvershootInv, NEW t \in Tasks, RecordFailure(t)
    PROVE  OvershootInv'
<1>1. UNCHANGED <<now, settings, reload, reloads>>
  BY DEF RecordFailure, bounds
<1>2. Stopped'
  BY StoppedStays DEF OvershootInv, Next
<1>3. /\ now \in Nat /\ settings \in Settings /\ GoodTable(entries, now)
      /\ entries \in [IPs -> AbuseEntry] /\ entries' \in [IPs -> AbuseEntry]
      /\ task \in [Tasks -> TaskStates] /\ task' = [task EXCEPT ![t] = IdleTask]
  BY DEF IInv, GoodTables, TypeOK, RecordFailure
<1>4. task[t].ip \in IPs /\ task[t].settings = settings /\ task[t].pc = "fail"
  BY <1>3, TaskFields DEF Steady, RecordFailure, IInv
<1>5. \A a \in IPs : InFlight(a)' \subseteq InFlight(a)
  BY <1>3 DEF InFlight, IdleTask
<1>6. ASSUME NEW ip \in IPs PROVE Overshot(ip)'
  <2>1. PICK c : c = CountFailure(entries[ip], now, settings)
    OBVIOUS
  <2>2. /\ GoodEntry(entries[ip], now) /\ entries[ip] \in AbuseEntry
        /\ settings.max_failures \in Nat \ {0}
        /\ settings.find_time < settings.ban_time
    BY <1>3, SettingsAssumption DEF GoodTable, ValidSettings, Steady
  <2>3. c \in AbuseEntry
    BY <1>3, <2>1, <2>2, GoodCounted DEF GoodEntry
  <2>4. \/ Follows(entries'[ip], entries[ip], now)
        \/ /\ ip = task[t].ip /\ Tracked(settings, ip)
           /\ ~AtThreshold(c, settings) \/ ~Calm(c, settings)
           /\ Follows(entries'[ip], c, now)
        \/ /\ ip = task[t].ip /\ Tracked(settings, ip)
           /\ entries'[ip] = Ban(c, now, settings)
    BY <1>4, <2>1, RecordFailureCases DEF Calm
  <2>5. CASE Follows(entries'[ip], entries[ip], now)
    BY <1>1, <1>5, <2>5, OvershotFollows
  <2>6. ASSUME ip = task[t].ip, Window(entries'[ip], ip, now, settings),
               Len(entries'[ip].recent_failures) <= Len(c.recent_failures),
               Calm(entries'[ip], settings) => Calm(entries[ip], settings)
        PROVE  Overshot(ip)'
    <3>1. PICK q \in Seq(Nat), r \in Seq(Nat) :
             q = entries[ip].recent_failures /\ c.recent_failures = Append(r, now) /\ Suffix(r, q)
      BY <1>3, <2>1, <2>2, CountedWindow DEF AbuseEntry
    <3>2. /\ Len(c.recent_failures) = Len(r) + 1 /\ Len(r) \in Nat /\ Len(q) \in Nat
          /\ Len(r) <= Len(q)
      BY <1>3, <3>1 DEF Suffix
    <3>3. /\ t \in InFlight(ip) /\ InFlight(ip)' = InFlight(ip) \ {t}
      BY <1>3, <1>4, <2>6 DEF InFlight, IdleTask
    <3>4. /\ Cardinality(InFlight(ip)) \in Nat /\ Cardinality(InFlight(ip)') \in Nat
          /\ Cardinality(InFlight(ip)') = Cardinality(InFlight(ip)) - 1
      <4>1. IsFiniteSet(InFlight(ip)')
        BY <3>3, InFlightFinite, FS_Subset
      <4> QED BY <3>3, <4>1, InFlightFinite, FS_RemoveElement, FS_CardinalityType
    <3>5. PICK l \in Nat : l = Limit
      BY <2>2, InFlightFinite DEF Limit
    <3>6. Calm(entries[ip], settings) => Len(q) + Cardinality(InFlight(ip)) < l
      BY <3>1, <3>5 DEF OvershootInv
    <3>7. Len(entries'[ip].recent_failures) \in Nat
      BY <1>3 DEF AbuseEntry
    <3>8. Calm(entries'[ip], settings) =>
             Len(entries'[ip].recent_failures) + Cardinality(InFlight(ip)') < l
      <4>1. PICK m \in Nat, n \in Nat, x \in Nat, y \in Nat :
               /\ m = Len(q) /\ n = Len(entries'[ip].recent_failures)
               /\ x = Cardinality(InFlight(ip)) /\ y = Cardinality(InFlight(ip)')
        BY <3>2, <3>4, <3>7
      <4>2. n <= m + 1 /\ y = x - 1
        BY <2>6, <3>2, <3>4, <4>1
      <4>3. Calm(entries'[ip], settings) => m + x < l
        BY <2>6, <3>6, <4>1
      <4>4. Calm(entries'[ip], settings) => n + y < l
        BY <4>2, <4>3
      <4> QED BY <4>1, <4>4
    <3> QED BY <1>1, <2>6, <3>5, <3>8 DEF Overshot, Limit, Calm
  <2>7. CASE /\ ip = task[t].ip /\ Tracked(settings, ip)
             /\ ~AtThreshold(c, settings) \/ ~Calm(c, settings)
             /\ Follows(entries'[ip], c, now)
    <3>1. Len(c.recent_failures) \in Nat
      BY <2>3 DEF AbuseEntry
    <3>2. Window(c, ip, now, settings)
      BY <2>2, <2>7, <3>1 DEF Window, Outlasts, AtThreshold
    <3>3. /\ Window(entries'[ip], ip, now, settings)
          /\ Len(entries'[ip].recent_failures) <= Len(c.recent_failures)
          /\ Calm(entries'[ip], settings) <=> Calm(c, settings)
      BY <1>3, <2>2, <2>3, <2>7, <3>2, WindowFollows
    <3>4. Calm(c, settings) <=> Calm(entries[ip], settings)
      BY <1>3, <2>1, <2>2, CountedWindow DEF Calm
    <3> QED BY <2>6, <2>7, <3>3, <3>4
  <2>8. CASE /\ ip = task[t].ip /\ Tracked(settings, ip)
             /\ entries'[ip] = Ban(c, now, settings)
    <3>1. /\ Window(entries'[ip], ip, now, settings)
          /\ entries'[ip].recent_failures = c.recent_failures
      BY <1>3, <2>1, <2>2, <2>8, BanOutlasts
    <3>2. Len(c.recent_failures) \in Nat
      BY <2>3 DEF AbuseEntry
    <3>3. Calm(entries'[ip], settings) => Calm(entries[ip], settings)
      <4>1. c.ban_count = entries[ip].ban_count
        BY <1>3, <2>1, <2>2, CountedWindow
      <4> QED BY <1>3, <2>3, <2>8, <4>1, BannedIsNotCalmer DEF Calm
    <3> QED BY <2>6, <2>8, <3>1, <3>2, <3>3
  <2> QED BY <2>4, <2>5, <2>7, <2>8
<1>7. \A p \in Paths : files'[p] = files[p] \/ files'[p] = entries'
  BY CallsWrite
<1> QED BY <1>1, <1>2, <1>6, <1>7, CallOvershoot

(* The end of the process and the next start, which reads a window that    *)
(* was written, with nobody in flight.                                     *)
LEMMA RestartOvershoot ==
    ASSUME Steady, IInv, IInv', OvershootInv, Crash \/ Restart
    PROVE  OvershootInv'
<1>1. UNCHANGED <<now, files, reloads>> /\ settings' \in Settings /\ reload' = IdleReload
  BY DEF Crash, Restart, bounds, IInv, TypeOK, OvershootInv
<1>2. /\ now \in Nat /\ settings \in Settings /\ entries' \in [IPs -> AbuseEntry]
      /\ files \in [Paths -> [IPs -> AbuseEntry]]
      /\ \A p \in Paths : GoodTable(files[p], now)
  BY DEF IInv, GoodTables, TypeOK
<1>3. settings' = settings
  BY <1>1, <1>2 DEF Steady
<1>4. Stopped'
  BY StoppedStays DEF OvershootInv, Next
<1>5. \A t \in Tasks : task'[t] = IdleTask
  BY DEF Crash, Restart, OvershootInv, Stopped
<1>6. PICK l \in Nat : l = Limit /\ 0 < l
  <2>1. settings.max_failures \in Nat \ {0}
    BY <1>2, SettingsAssumption DEF ValidSettings
  <2> QED BY <2>1, InFlightFinite DEF Limit
<1>7. ASSUME NEW ip \in IPs
      PROVE  /\ Window(entries'[ip], ip, now, settings)
             /\ Calm(entries'[ip], settings) => Len(entries'[ip].recent_failures) < l
  <2>1. CASE entries' = NoEntries
    <3>1. entries'[ip] = DefaultEntry
      BY <2>1 DEF NoEntries
    <3> QED BY <1>2, <1>6, <3>1, WindowOfDefault
  <2>2. CASE \E p \in Paths : entries' = ReadStateFile(files[p], now, settings)
    <3>1. PICK p \in Paths : entries' = ReadStateFile(files[p], now, settings)
      BY <2>2
    <3>2. Follows(entries'[ip], files[p][ip], now)
      BY <1>2, <3>1, ReadFollows
    <3>3. /\ Window(files[p][ip], ip, now, settings)
          /\ Calm(files[p][ip], settings) => Len(files[p][ip].recent_failures) < l
      BY <1>6 DEF OvershootInv
    <3>4. settings.find_time < settings.ban_time
      BY <1>2 DEF Steady
    <3>5. files[p][ip] \in AbuseEntry /\ entries'[ip] \in AbuseEntry
      BY <1>2
    <3>6. /\ Window(entries'[ip], ip, now, settings)
          /\ Calm(entries'[ip], settings) <=> Calm(files[p][ip], settings)
          /\ Len(entries'[ip].recent_failures) <= Len(files[p][ip].recent_failures)
      BY <1>2, <3>2, <3>3, <3>4, <3>5, WindowFollows
    <3>7. /\ Len(files[p][ip].recent_failures) \in Nat
          /\ Len(entries'[ip].recent_failures) \in Nat
      BY <3>5 DEF AbuseEntry
    <3> QED BY <1>6, <3>3, <3>6, <3>7
  <2>3. settings.state_path \in Paths
    BY <1>2, SettingsAssumption DEF ValidSettings
  <2> QED BY <1>3, <2>1, <2>2, <2>3 DEF Crash, Restart
<1>8. ASSUME NEW ip \in IPs
      PROVE  Calm(entries'[ip], settings) =>
                Len(entries'[ip].recent_failures) + Cardinality(InFlight(ip)') < Limit'
  <2>1. InFlight(ip)' = {}
    BY <1>5 DEF InFlight, IdleTask
  <2>2. Cardinality(InFlight(ip)') = 0
    BY <2>1, FS_EmptySet
  <2>3. Len(entries'[ip].recent_failures) \in Nat
    BY <1>2 DEF AbuseEntry
  <2>4. Limit' = l
    BY <1>3, <1>6 DEF Limit
  <2> QED BY <1>7, <2>2, <2>3, <2>4
<1>9. \A p \in Paths, ip \in IPs :
         Calm(files'[p][ip], settings') => Len(files'[p][ip].recent_failures) < Limit'
  BY <1>1, <1>3 DEF OvershootInv, Limit
<1>10. \A p \in Paths, ip \in IPs : Window(files'[p][ip], ip, now', settings')
  BY <1>1, <1>3 DEF OvershootInv
<1> QED BY <1>1, <1>3, <1>4, <1>7, <1>8, <1>9, <1>10 DEF OvershootInv

LEMMA TickOvershoot ==
    ASSUME IInv, OvershootInv, Tick
    PROVE  OvershootInv'
<1>1. UNCHANGED <<up, settings, entries, files, task, reload, reloads>> /\ now' = now + 1
  BY DEF Tick, bounds
<1>2. /\ now \in Nat /\ settings \in Settings /\ entries \in [IPs -> AbuseEntry]
      /\ files \in [Paths -> [IPs -> AbuseEntry]]
  BY DEF IInv, TypeOK
<1>3. \A ip \in IPs : Window(entries[ip], ip, now', settings)
  BY <1>1, <1>2, WindowLater DEF OvershootInv
<1>4. \A p \in Paths, ip \in IPs : Window(files[p][ip], ip, now', settings)
  BY <1>1, <1>2, WindowLater DEF OvershootInv
<1>5. Limit' = Limit /\ \A ip : InFlight(ip)' = InFlight(ip)
  BY <1>1 DEF Limit, InFlight
<1> QED BY <1>1, <1>3, <1>4, <1>5 DEF OvershootInv, Stopped

LEMMA InitOvershootInv == Init => OvershootInv
<1> SUFFICES ASSUME Init PROVE OvershootInv
  OBVIOUS
<1>1. /\ now = 0 /\ up /\ settings \in Settings /\ reload = IdleReload /\ reloads = 0
      /\ entries = NoEntries /\ files = [p \in Paths |-> NoEntries]
      /\ task = [t \in Tasks |-> IdleTask]
  BY DEF Init
<1>2. \A ip \in IPs : /\ entries[ip] = DefaultEntry
                      /\ \A p \in Paths : files[p][ip] = DefaultEntry
  BY <1>1 DEF NoEntries
<1>3. \A ip \in IPs : /\ Window(DefaultEntry, ip, now, settings)
                      /\ Len(DefaultEntry.recent_failures) = 0
  BY <1>1, WindowOfDefault
<1>4. \A ip \in IPs : Cardinality(InFlight(ip)) = 0
  <2>1. \A ip \in IPs : InFlight(ip) = {}
    BY <1>1 DEF InFlight, IdleTask
  <2> QED BY <2>1, FS_EmptySet
<1>5. 0 < Limit
  <2>1. settings.max_failures \in Nat \ {0}
    BY <1>1, SettingsAssumption DEF ValidSettings
  <2> QED BY <2>1, InFlightFinite DEF Limit
<1> QED BY <1>1, <1>2, <1>3, <1>4, <1>5 DEF OvershootInv, Stopped

LEMMA NextOvershootInv ==
    Steady /\ IInv /\ IInv' /\ OvershootInv /\ [Next]_vars => OvershootInv'
<1> SUFFICES ASSUME Steady, IInv, IInv', OvershootInv, [Next]_vars PROVE OvershootInv'
  OBVIOUS
<1>1. ASSUME NEW t \in Tasks, BeginCheck(t) \/ BeginFailure(t) \/ BeginSuccess(t) \/ Leave(t)
      PROVE  OvershootInv'
  BY <1>1, MovesOvershoot
<1>2. ASSUME NEW t \in Tasks, CheckIp(t) PROVE OvershootInv'
  BY <1>2, CheckOvershoot
<1>3. ASSUME NEW t \in Tasks, RecordFailure(t) PROVE OvershootInv'
  BY <1>3, FailureOvershoot
<1>4. ASSUME NEW t \in Tasks, RecordSuccess(t) PROVE OvershootInv'
  BY <1>4, SuccessOvershoot
<1>5. ASSUME ReloadSettings \/ ReloadReadFile \/ ApplyLoadedState PROVE FALSE
  BY <1>5 DEF Steady, OvershootInv, ReloadSettings, ReloadReadFile, ApplyLoadedState, IdleReload
<1>6. CASE Crash \/ Restart
  BY <1>6, RestartOvershoot
<1>7. CASE Tick
  BY <1>7, TickOvershoot
<1>8. CASE UNCHANGED vars
  BY <1>8 DEF vars, bounds, OvershootInv, Stopped, InFlight, Limit
<1> QED BY <1>1, <1>2, <1>3, <1>4, <1>5, <1>6, <1>7, <1>8 DEF Next

(* Whatever addresses and tasks there are, and whatever the disk does: the *)
(* attempts that were in flight when the ban came take the window over the *)
(* threshold by one each, and no others do, as long as the next ban of the *)
(* address does not panic.                                                 *)
THEOREM OvershootIsBounded == Steady => (Spec => []OvershootBounded)
<1> SUFFICES ASSUME Steady PROVE Spec => []OvershootBounded
  OBVIOUS
<1>1. IInv /\ OvershootInv => OvershootBounded
  <2> SUFFICES ASSUME IInv, OvershootInv, NEW ip \in IPs, Calm(entries[ip], settings)
               PROVE  Len(entries[ip].recent_failures)
                         < settings.max_failures + Cardinality(Tasks)
    BY DEF OvershootBounded, Calm
  <2>1. Len(entries[ip].recent_failures) \in Nat /\ Cardinality(InFlight(ip)) \in Nat
    BY InFlightFinite DEF IInv, TypeOK, AbuseEntry
  <2>2. PICK l \in Nat : l = Limit
    BY InFlightFinite, SettingsAssumption DEF Limit, IInv, TypeOK, ValidSettings
  <2>3. Len(entries[ip].recent_failures) + Cardinality(InFlight(ip)) < l
    BY <2>2 DEF OvershootInv
  <2>4. Len(entries[ip].recent_failures) < l
    BY <2>1, <2>3
  <2> QED BY <2>2, <2>4 DEF Limit
<1>2. Init => OvershootInv
  BY InitOvershootInv
<1>3. IInv /\ IInv' /\ OvershootInv /\ [Next]_vars => OvershootInv'
  BY NextOvershootInv
<1> QED BY <1>1, <1>2, <1>3, Invariance, PTL DEF Spec

=============================================================================
