--------------------------- MODULE PoliciesProofs ---------------------------
(***************************************************************************)
(* Policies for every set of users, servers, key exchanges and commands,   *)
(* and for every document a start or a reload may find.                    *)
(*                                                                         *)
(* The configuration in force is always one that was validated under the   *)
(* mode of the process.  What the connection holds was resolved from such  *)
(* a configuration, and the answer of a request is that of the policy      *)
(* resolved; the lemma WrittenIsEffective does the rest.  An offer is the  *)
(* summary of the policy it is said to be of; what the loop that makes it  *)
(* does to a list of any length is the lemma ResolvingIsOf.                *)
(***************************************************************************)
EXTENDS Policies, SequenceTheorems, WellFoundedInduction, TLAPS

(* What a configuration in force satisfies.                                *)
Accepted(document) ==
    IsDocument(document) /\ ValidSemantics(document, per_user_per_server)

Held == {"resolved", "refused", "open", "over"}

ResolvedFromSource ==
    connection.pc \in Held =>
        /\ Accepted(connection.source)
        /\ connection.user \in DOMAIN connection.source.users
        /\ connection.policy = EffectivePolicy(connection.source, connection.user,
                                               connection.server, per_user_per_server)

Answered ==
    connection.pc \in {"open", "over"} =>
        connection.permitted = Permitted(connection.policy, connection.request)

Offered ==
    /\ frontend.pc = "serving" =>
          /\ frontend.offer.summary = FrontendSummary(frontend.offer.kex_policy)
          /\ frontend.offer.summary.offered # Refused
    /\ connection.pc \in {"open", "over"} =>
          /\ connection.offer.summary = BackendSummary(connection.offer.kex_policy)
          /\ connection.offer.summary.offered # Refused

PolicyInv ==
    /\ TypeOK
    /\ Accepted(active)
    /\ AcceptedResolves
    /\ ResolvedFromSource
    /\ Answered
    /\ Offered

-----------------------------------------------------------------------------
(* Resolving an entry gives every field a value: its own, or the default.  *)
LEMMA ResolveEntry ==
    ASSUME NEW entry \in Entries
    PROVE  /\ Resolve(entry) \in Effective
           /\ \A f \in Fields : Resolve(entry)[f] =
                 IF f \in DOMAIN entry THEN entry[f] ELSE Default[f]
           /\ DOMAIN entry \subseteq Fields
  <1>1. PICK given \in SUBSET Fields : entry \in [given -> BOOLEAN]
    BY DEF Entries
  <1>2. DOMAIN entry = given /\ \A f \in given : entry[f] \in BOOLEAN
    BY <1>1
  <1>3. \A f \in Fields : Default[f] \in BOOLEAN
    BY DEF Default
  <1>4. \A f \in Fields : (IF f \in DOMAIN entry THEN entry[f] ELSE Default[f]) \in BOOLEAN
    BY <1>2, <1>3
  <1>5. Resolve(entry) \in Effective
    BY <1>4 DEF Resolve, Effective
  <1>. QED  BY <1>2, <1>5 DEF Resolve

(* <<>>, which the code's unwrap_or_default stands for, is an entry.       *)
LEMMA EmptyEntry == <<>> \in Entries /\ DOMAIN <<>> = {}
  <1>1. <<>> \in [{} -> BOOLEAN]
    OBVIOUS
  <1>. QED  BY <1>1 DEF Entries

(* In an accepted document the field of a user at a server has the value   *)
(* that is written, in either place, or the default if none is.            *)
LEMMA WrittenIsEffective ==
    ASSUME NEW document, NEW mode \in BOOLEAN, NEW user \in Users, NEW server \in Servers,
           NEW f \in Fields,
           IsDocument(document),
           ValidAuthorizationPolicy(document, mode),
           user \in DOMAIN document.users
    PROVE  /\ EffectivePolicy(document, user, server, mode) \in Effective
           /\ LET written == Written(document, user, server, f)
                  effective == EffectivePolicy(document, user, server, mode)[f]
              IN  IF written = {} THEN effective = Default[f] ELSE written = {effective}
  <1>. DEFINE own == document.users[user].authorization
              tables == document.server_user_policies
              pair == <<server, user>>
              written == Written(document, user, server, f)
              effective == EffectivePolicy(document, user, server, mode)
  <1>1. own \in Entries
    BY DEF IsDocument, UserRecords
  <1>2. ASSUME pair \in DOMAIN tables PROVE tables[pair] \in Entries
    BY <1>2 DEF IsDocument
  <1>3. CASE mode
    <2>1. {f} \cap DOMAIN own = {}
      BY <1>3 DEF ValidAuthorizationPolicy, HasExplicitEntries
    <2>2. CASE pair \in DOMAIN tables
      <3>1. effective = Resolve(tables[pair])
        BY <1>3, <2>2 DEF EffectivePolicy
      <3>2. written = {tables[pair][g] : g \in {f} \cap DOMAIN tables[pair]}
        BY <2>1, <2>2 DEF Written
      <3>. QED  BY <3>1, <3>2, <1>2, <2>2, ResolveEntry
    <2>3. CASE pair \notin DOMAIN tables
      <3>1. effective = Resolve(<<>>)
        BY <1>3, <2>3 DEF EffectivePolicy
      <3>2. written = {}
        BY <2>1, <2>3 DEF Written
      <3>. QED  BY <3>1, <3>2, EmptyEntry, ResolveEntry
    <2>. QED  BY <2>2, <2>3
  <1>4. CASE ~mode
    <2>1. effective = Resolve(own)
      BY <1>4 DEF EffectivePolicy
    <2>2. DOMAIN tables = {}
      BY <1>4 DEF ValidAuthorizationPolicy
    <2>3. written = {own[g] : g \in {f} \cap DOMAIN own}
      BY <2>2 DEF Written
    <2>. QED  BY <2>1, <2>3, <1>1, ResolveEntry
  <1>. QED  BY <1>3, <1>4

(* A request is decided by the field that governs it, or always permitted. *)
LEMMA PermittedByField ==
    ASSUME NEW policy \in Effective, NEW request \in Requests
    PROVE  /\ Governs(request) = "nothing" => Permitted(policy, request) = TRUE
           /\ Governs(request) # "nothing" =>
                 /\ Governs(request) \in Fields
                 /\ Permitted(policy, request) = policy[Governs(request)]
           /\ Permitted(policy, request) \in BOOLEAN
  <1>1. \A f \in {"local", "remote", "sftp", "scp"} : f \in Fields /\ policy[f] \in BOOLEAN
    BY DEF Effective, Fields
  <1>2. CASE request.kind = "shell"
    BY <1>2 DEF Governs, Permitted
  <1>3. CASE request.kind \in {"direct-tcpip", "tcpip-forward", "cancel-tcpip-forward"}
    BY <1>1, <1>3 DEF Governs, Permitted
  <1>4. CASE request.kind = "exec"
    <2>1. IsScp(request.command) \in BOOLEAN
      BY DEF IsScp
    <2>. QED  BY <1>1, <1>4, <2>1 DEF Governs, Permitted
  <1>5. CASE request.kind = "subsystem"
    BY <1>1, <1>5 DEF Governs, Permitted
  <1>6. request.kind \in {"shell", "direct-tcpip", "tcpip-forward", "cancel-tcpip-forward",
                          "exec", "subsystem"}
    BY DEF Requests, Shell, Forwardings, ChannelRequests
  <1>. QED  BY <1>2, <1>3, <1>4, <1>5, <1>6

-----------------------------------------------------------------------------
(* Induction over the natural numbers, for a set of them: what is least    *)
(* outside the set could not be there.                                     *)

Below == {p \in Nat \X Nat : p[1] < p[2]}

LEMMA LeastElement ==
    ASSUME NEW T, T \subseteq Nat, T # {}
    PROVE  \E n \in T : \A m \in T : n <= m
  <1>1. IsWellFoundedOn({p \in Nat \X Nat : p[1] < p[2]}, Nat)
    BY NatLessThanWellFounded DEF OpToRel
  <1>2. IsWellFoundedOn(Below, Nat)
    BY <1>1 DEF Below
  <1>3. PICK n \in T : \A m \in T : ~(<<m, n>> \in Below)
    BY <1>2, WFMin
  <1>4. ASSUME NEW m \in T PROVE n <= m
    <2>1. ~(<<m, n>> \in Below) /\ m \in Nat /\ n \in Nat
      BY <1>3
    <2>. QED  BY <2>1 DEF Below
  <1>. QED  BY <1>4

LEMMA SetInduction ==
    ASSUME NEW T, 0 \in T, \A n \in Nat : n \in T => n + 1 \in T
    PROVE  \A n \in Nat : n \in T
  <1>. SUFFICES ASSUME Nat \ T # {} PROVE FALSE
    OBVIOUS
  <1>1. PICK n \in Nat \ T : \A m \in Nat \ T : n <= m
    BY LeastElement
  <1>2. n - 1 \in Nat /\ n = (n - 1) + 1
    BY <1>1
  <1>3. n - 1 \in T
    BY <1>1, <1>2
  <1>. QED  BY <1>1, <1>2, <1>3

-----------------------------------------------------------------------------
(* The offer.                                                              *)

LEMMA NextIsList ==
    ASSUME NEW q \in Seq(KexNames), NEW name \in KexNames, NEW r
    PROVE  ResolveNext(q, name, r) \in Seq(KexNames)
  BY DEF ResolveNext

(* What the loop has in turn when it looks at n names.                     *)
Runs(g, p, r, n) ==
    /\ g \in [0 .. n -> Seq(KexNames)]
    /\ g[0] = <<>>
    /\ \A i \in 1 .. n : g[i] = ResolveNext(g[i - 1], p[i], r)

LEMMA RunsOn ==
    ASSUME NEW p \in Seq(KexNames), NEW r, NEW n \in Nat, n + 1 <= Len(p),
           NEW g, Runs(g, p, r, n)
    PROVE  \E h : Runs(h, p, r, n + 1)
  <1>. DEFINE x == ResolveNext(g[n], p[n + 1], r)
              h == [i \in 0 .. n + 1 |-> IF i = n + 1 THEN x ELSE g[i]]
  <1>1. x \in Seq(KexNames)
    <2>1. g[n] \in Seq(KexNames)
      BY DEF Runs
    <2>2. p[n + 1] \in KexNames
      BY LenProperties, ElementOfSeq
    <2>. QED  BY <2>1, <2>2, NextIsList
  <1>. HIDE DEF x
  <1>2. h \in [0 .. n + 1 -> Seq(KexNames)] /\ h[0] = <<>>
    BY <1>1 DEF Runs
  <1>3. ASSUME NEW i \in 1 .. n + 1 PROVE h[i] = ResolveNext(h[i - 1], p[i], r)
    <2>1. CASE i = n + 1
      <3>1. h[i] = x /\ h[i - 1] = g[n]
        BY <2>1
      <3>. QED  BY <2>1, <3>1 DEF x
    <2>2. CASE i # n + 1
      <3>1. h[i] = g[i] /\ h[i - 1] = g[i - 1] /\ i \in 1 .. n
        BY <2>2
      <3>. QED  BY <3>1 DEF Runs
    <2>. QED  BY <2>1, <2>2
  <1>. HIDE DEF h
  <1>. QED  BY <1>2, <1>3 DEF Runs

(* The loop comes to an end: there is a function that is as the one in     *)
(* Resolving is defined.                                                   *)
LEMMA ResolvingDef ==
    ASSUME NEW p \in Seq(KexNames), NEW r
    PROVE  Resolving(p, r) =
              [n \in 0 .. Len(p) |->
                  IF n = 0 THEN <<>> ELSE ResolveNext(Resolving(p, r)[n - 1], p[n], r)]
  <1>. DEFINE T == {n \in Nat : n <= Len(p) => \E g : Runs(g, p, r, n)}
              Loop(g) == g = [n \in 0 .. Len(p) |->
                                 IF n = 0 THEN <<>> ELSE ResolveNext(g[n - 1], p[n], r)]
  <1>1. Len(p) \in Nat /\ \A i \in 1 .. Len(p) : p[i] \in KexNames
    BY LenProperties, ElementOfSeq
  <1>2. 0 \in T
    <2>. DEFINE g == [i \in 0 .. 0 |-> <<>>]
    <2>1. Runs(g, p, r, 0)
      BY DEF Runs
    <2>. QED  BY <2>1
  <1>3. ASSUME NEW n \in Nat, n \in T PROVE n + 1 \in T
    <2>1. ASSUME n + 1 <= Len(p) PROVE \E g : Runs(g, p, r, n + 1)
      <3>1. n <= Len(p)
        BY <1>1, <2>1
      <3>2. PICK g : Runs(g, p, r, n)
        BY <1>3, <3>1
      <3>. QED  BY <2>1, <3>2, RunsOn
    <2>. QED  BY <2>1
  <1>4. \E g : Loop(g)
    <2>1. Len(p) \in T
      <3>. HIDE DEF T
      <3>. QED  BY <1>1, <1>2, <1>3, SetInduction
    <2>2. PICK g : Runs(g, p, r, Len(p))
      BY <1>1, <2>1
    <2>3. ASSUME NEW n \in 0 .. Len(p)
          PROVE  g[n] = IF n = 0 THEN <<>> ELSE ResolveNext(g[n - 1], p[n], r)
      BY <1>1, <2>2 DEF Runs
    <2>4. g = [n \in 0 .. Len(p) |-> g[n]]
      BY <2>2 DEF Runs
    <2>5. Loop(g)
      BY <2>3, <2>4
    <2>. QED  BY <2>5
  <1>5. Resolving(p, r) = CHOOSE g : Loop(g)
    BY DEF Resolving
  <1>. HIDE DEF Loop
  <1>6. Loop(Resolving(p, r))
    BY <1>4, <1>5
  <1>. QED  BY <1>6 DEF Loop

LEMMA FirstIndexIs ==
    ASSUME NEW p \in Seq(KexNames), NEW n \in 1 .. Len(p)
    PROVE  /\ FirstIndex(p, p[n]) \in 1 .. n
           /\ (\A i \in 1 .. n - 1 : p[i] # p[n]) => FirstIndex(p, p[n]) = n
  <1>. DEFINE First(i) == p[i] = p[n] /\ \A j \in 1 .. i - 1 : p[j] # p[n]
              T == {i \in 1 .. Len(p) : p[i] = p[n]}
  <1>1. Len(p) \in Nat /\ DOMAIN p = 1 .. Len(p)
    BY LenProperties
  <1>2. PICK i \in T : \A j \in T : i <= j
    <2>1. T \subseteq Nat /\ n \in T
      BY <1>1
    <2>. QED  BY <2>1, LeastElement
  <1>3. i \in DOMAIN p /\ First(i)
    <2>1. i \in 1 .. Len(p) /\ p[i] = p[n]
      OBVIOUS
    <2>2. ASSUME NEW j \in 1 .. i - 1, p[j] = p[n] PROVE FALSE
      <3>1. j \in T
        BY <1>1, <2>1, <2>2
      <3>. QED  BY <1>1, <1>2, <2>1, <3>1
    <2>. QED  BY <1>1, <2>1, <2>2
  <1>4. FirstIndex(p, p[n]) = CHOOSE k \in DOMAIN p : First(k)
    BY DEF FirstIndex
  <1>. HIDE DEF First
  <1>5. FirstIndex(p, p[n]) \in DOMAIN p /\ First(FirstIndex(p, p[n]))
    BY <1>3, <1>4
  <1>6. PICK k \in 1 .. Len(p) : k = FirstIndex(p, p[n])
    BY <1>1, <1>5
  <1>7. First(k)
    BY <1>5, <1>6
  <1>8. k <= n
    <2>1. CASE n < k
      <3>1. n \in 1 .. k - 1
        BY <1>1, <2>1
      <3>. QED  BY <1>7, <3>1 DEF First
    <2>. QED  BY <1>1, <2>1
  <1>9. ASSUME \A j \in 1 .. n - 1 : p[j] # p[n] PROVE k = n
    <2>1. CASE k < n
      <3>1. k \in 1 .. n - 1 /\ p[k] = p[n]
        BY <1>1, <1>7, <2>1 DEF First
      <3>. QED  BY <1>9, <3>1
    <2>. QED  BY <1>1, <1>8, <2>1
  <1>. QED  BY <1>1, <1>6, <1>8, <1>9

(* When n names have been looked at, what is resolved is what is wanted of *)
(* them, in the order in which they are listed.                            *)
Wanted(name, r) == r => name \in PostQuantum

ResolvedOf(q, p, r, n) ==
    /\ q \in Seq(KexNames)
    /\ \A k \in 1 .. Len(q) : \E i \in 1 .. n : p[i] = q[k] /\ Wanted(p[i], r)
    /\ \A i \in 1 .. n : Wanted(p[i], r) => \E k \in 1 .. Len(q) : q[k] = p[i]
    /\ \A k, l \in 1 .. Len(q) : k < l => FirstIndex(p, q[k]) < FirstIndex(p, q[l])

LEMMA ResolveNextOf ==
    ASSUME NEW p \in Seq(KexNames), NEW r, NEW n \in Nat, n + 1 <= Len(p),
           NEW q, ResolvedOf(q, p, r, n)
    PROVE  ResolvedOf(ResolveNext(q, p[n + 1], r), p, r, n + 1)
  <1>. DEFINE name == p[n + 1]
              next == ResolveNext(q, name, r)
  <1>1. /\ Len(p) \in Nat /\ \A i \in 1 .. Len(p) : p[i] \in KexNames
        /\ q \in Seq(KexNames) /\ Len(q) \in Nat
    BY LenProperties, ElementOfSeq DEF ResolvedOf
  <1>2. name \in KexNames /\ 1 .. n + 1 = 1 .. n \cup {n + 1} /\ n + 1 \in 1 .. Len(p)
    BY <1>1
  <1>3. CASE Wanted(name, r) /\ \A k \in 1 .. Len(q) : q[k] # name
    <2>1. next = Append(q, name)
      BY <1>3 DEF ResolveNext, Wanted, Contains
    <2>2. /\ next \in Seq(KexNames) /\ Len(next) = Len(q) + 1
          /\ \A k \in 1 .. Len(q) : next[k] = q[k]
          /\ next[Len(q) + 1] = name
      BY <1>1, <1>2, <2>1, AppendProperties
    <2>3. FirstIndex(p, name) = n + 1
      <3>1. \A i \in 1 .. n : p[i] # name
        BY <1>3 DEF ResolvedOf
      <3>2. (n + 1) - 1 = n
        OBVIOUS
      <3>. QED  BY <1>2, <3>1, <3>2, FirstIndexIs
    <2>4. \A k \in 1 .. Len(q) : FirstIndex(p, q[k]) < n + 1
      <3>. SUFFICES ASSUME NEW k \in 1 .. Len(q) PROVE FirstIndex(p, q[k]) < n + 1
        OBVIOUS
      <3>1. PICK i \in 1 .. n : p[i] = q[k]
        BY DEF ResolvedOf
      <3>2. i \in 1 .. Len(p)
        BY <1>1
      <3>3. FirstIndex(p, p[i]) \in 1 .. i
        BY <3>2, FirstIndexIs
      <3>. QED  BY <3>1, <3>3
    <2>5. 1 .. Len(next) = 1 .. Len(q) \cup {Len(q) + 1}
      BY <1>1, <2>2
    <2>. HIDE DEF next
    <2>6. \A k \in 1 .. Len(next) : \E i \in 1 .. n + 1 : p[i] = next[k] /\ Wanted(p[i], r)
      <3>1. \A k \in 1 .. Len(q) : \E i \in 1 .. n : p[i] = next[k] /\ Wanted(p[i], r)
        BY <2>2 DEF ResolvedOf
      <3>2. n + 1 \in 1 .. n + 1 /\ 1 .. n \subseteq 1 .. n + 1
        BY <1>2
      <3>. QED  BY <1>3, <2>2, <2>5, <3>1, <3>2
    <2>7. \A i \in 1 .. n + 1 : Wanted(p[i], r) => \E k \in 1 .. Len(next) : next[k] = p[i]
      <3>1. \A i \in 1 .. n : Wanted(p[i], r) => \E k \in 1 .. Len(q) : next[k] = p[i]
        BY <2>2 DEF ResolvedOf
      <3>. QED  BY <1>2, <2>2, <2>5, <3>1
    <2>8. ASSUME NEW k \in 1 .. Len(next), NEW l \in 1 .. Len(next), k < l
          PROVE  FirstIndex(p, next[k]) < FirstIndex(p, next[l])
      <3>1. k \in 1 .. Len(q)
        BY <1>1, <2>2, <2>8
      <3>2. CASE l \in 1 .. Len(q)
        BY <2>2, <2>8, <3>1, <3>2 DEF ResolvedOf
      <3>3. CASE l = Len(q) + 1
        BY <2>2, <2>3, <2>4, <3>1, <3>3
      <3>. QED  BY <2>5, <3>2, <3>3
    <2>9. ResolvedOf(next, p, r, n + 1)
      BY <2>2, <2>6, <2>7, <2>8 DEF ResolvedOf
    <2>. QED  BY <2>9 DEF next
  <1>4. CASE ~Wanted(name, r) \/ \E k \in 1 .. Len(q) : q[k] = name
    <2>1. next = q
      BY <1>4 DEF ResolveNext, Wanted, Contains
    <2>. QED  BY <1>2, <1>4, <2>1 DEF ResolvedOf
  <1>. QED  BY <1>3, <1>4

LEMMA ResolvingIsOf ==
    ASSUME NEW p \in Seq(KexNames), NEW r
    PROVE  ResolvedOf(Resolving(p, r)[Len(p)], p, r, Len(p))
  <1>. DEFINE T == {n \in Nat : n <= Len(p) => ResolvedOf(Resolving(p, r)[n], p, r, n)}
  <1>1. Len(p) \in Nat
    BY LenProperties
  <1>2. 0 \in T
    <2>1. Resolving(p, r)[0] = <<>>
      BY <1>1, ResolvingDef
    <2>2. <<>> \in Seq(KexNames) /\ 1 .. Len(<<>>) = {} /\ 1 .. 0 = {}
      OBVIOUS
    <2>3. ResolvedOf(<<>>, p, r, 0)
      BY <2>2 DEF ResolvedOf
    <2>. QED  BY <2>1, <2>3
  <1>3. ASSUME NEW n \in Nat, n \in T PROVE n + 1 \in T
    <2>. SUFFICES ASSUME n + 1 <= Len(p)
                  PROVE  ResolvedOf(Resolving(p, r)[n + 1], p, r, n + 1)
      OBVIOUS
    <2>1. n + 1 \in 0 .. Len(p) /\ n + 1 # 0 /\ (n + 1) - 1 = n
      BY <1>1
    <2>2. Resolving(p, r)[n + 1] = ResolveNext(Resolving(p, r)[n], p[n + 1], r)
      BY <2>1, ResolvingDef
    <2>3. ResolvedOf(Resolving(p, r)[n], p, r, n)
      BY <1>1, <1>3
    <2>. QED  BY <2>2, <2>3, ResolveNextOf
  <1>4. Len(p) \in T
    <2>. HIDE DEF T
    <2>. QED  BY <1>1, <1>2, <1>3, SetInduction
  <1>. QED  BY <1>1, <1>4

-----------------------------------------------------------------------------
(* What is offered is what is listed.                                      *)
LEMMA SummaryIsListed ==
    ASSUME NEW p \in Seq(KexNames), NEW r \in BOOLEAN, PolicySummary(p, r).offered # Refused
    PROVE  OffersListed(PolicySummary(p, r), p, r)
  <1>. DEFINE q == ResolvePreferredKex(p, r)
              summary == PolicySummary(p, r)
  <1>1. /\ summary.offered = q
        /\ summary.classical_fallback = \E i \in DOMAIN q : q[i] \notin PostQuantum
    BY DEF PolicySummary
  <1>2. q = Resolving(p, r)[Len(p)]
    BY <1>1 DEF ResolvePreferredKex
  <1>. HIDE DEF q, summary
  <1>3. ResolvedOf(q, p, r, Len(p))
    BY <1>2, ResolvingIsOf
  <1>4. q \in Seq(KexNames) /\ DOMAIN q = 1 .. Len(q) /\ \A k \in 1 .. Len(q) : q[k] \in KexNames
    BY <1>3, LenProperties, ElementOfSeq DEF ResolvedOf
  <1>5. \A name \in KexNames : Contains(q, name) <=> Contains(p, name) /\ Wanted(name, r)
    <2>. SUFFICES ASSUME NEW name \in KexNames
                  PROVE  Contains(q, name) <=> Contains(p, name) /\ Wanted(name, r)
      OBVIOUS
    <2>1. Contains(q, name) => Contains(p, name) /\ Wanted(name, r)
      BY <1>3 DEF ResolvedOf, Contains
    <2>2. Contains(p, name) /\ Wanted(name, r) => Contains(q, name)
      BY <1>3 DEF ResolvedOf, Contains
    <2>. QED  BY <2>1, <2>2
  <1>6. \A i, j \in DOMAIN q : i < j => FirstIndex(p, q[i]) < FirstIndex(p, q[j])
    BY <1>3, <1>4 DEF ResolvedOf
  <1>7. summary.classical_fallback
        <=> \E name \in KexNames \ PostQuantum : Contains(p, name) /\ ~r
    <2>1. summary.classical_fallback <=> \E name \in KexNames \ PostQuantum : Contains(q, name)
      BY <1>1, <1>4 DEF Contains
    <2>2. \A name \in KexNames \ PostQuantum : Contains(q, name) <=> Contains(p, name) /\ ~r
      BY <1>5 DEF Wanted
    <2>. QED  BY <2>1, <2>2
  <1>. QED  BY <1>1, <1>5, <1>6, <1>7 DEF OffersListed, Wanted, summary

-----------------------------------------------------------------------------
LEMMA InitPolicyInv == Init => PolicyInv
  <1>. SUFFICES ASSUME Init PROVE PolicyInv
    OBVIOUS
  <1>1. IsDocument(active) /\ per_user_per_server \in BOOLEAN
    BY PoliciesAssumption DEF Init, IsDocument
  <1>2. Accepted(active)
    BY <1>1 DEF Init, Accepted
  <1>. QED  BY <1>1, <1>2 DEF Init, PolicyInv, TypeOK, AcceptedResolves, ResolvedFromSource,
                              Answered, Offered, NotServing, AtMenu, Held

LEMMA StepPolicyInv == PolicyInv /\ [Next]_vars => PolicyInv'
  <1>. SUFFICES ASSUME PolicyInv, [Next]_vars PROVE PolicyInv'
    OBVIOUS
  <1>. USE DEF PolicyInv
  <1>1. CASE Serve
    <2>1. UNCHANGED <<per_user_per_server, active, connection>>
      BY <1>1 DEF Serve
    <2>2. FrontendSummary(active.kex_policy).offered # Refused
      BY DEF Accepted, ValidSemantics, ValidKexPolicy
    <2>3. /\ frontend'.pc = "serving"
          /\ frontend'.offer.kex_policy = active.kex_policy
          /\ frontend'.offer.summary = FrontendSummary(active.kex_policy)
      BY <1>1, <2>2 DEF Serve
    <2>4. TypeOK'
      BY <2>1, <2>3 DEF TypeOK, IsDocument
    <2>5. AcceptedResolves'
      BY <2>1, <2>3 DEF AcceptedResolves
    <2>. QED  BY <2>1, <2>2, <2>3, <2>4, <2>5 DEF Accepted, ResolvedFromSource, Answered, Offered
  <1>2. CASE Reload
    <2>1. UNCHANGED <<per_user_per_server, frontend, connection>>
      BY <1>2 DEF Reload
    <2>2. PICK document \in Replacements :
             /\ ValidSemantics(document, per_user_per_server)
             /\ active' = [document EXCEPT !.per_user_per_server = per_user_per_server]
      BY <1>2 DEF Reload
    <2>3. IsDocument(document)
      BY PoliciesAssumption
    <2>4. /\ DOMAIN active' = DOMAIN document
          /\ active'.kex_policy = document.kex_policy
          /\ active'.users = document.users
          /\ active'.server_user_policies = document.server_user_policies
          /\ active'.per_user_per_server = per_user_per_server
      BY <2>2, <2>3 DEF IsDocument
    <2>5. IsDocument(active') /\ ValidSemantics(active', per_user_per_server)
      BY <2>2, <2>3, <2>4 DEF IsDocument, ValidSemantics, ValidAuthorizationPolicy, TypeOK
    <2>6. TypeOK'
      BY <2>1, <2>5 DEF TypeOK
    <2>. QED  BY <2>1, <2>5, <2>6 DEF Accepted, AcceptedResolves, ResolvedFromSource, Answered, Offered
  <1>3. CASE SelectTarget
    <2>1. UNCHANGED <<per_user_per_server, active, frontend>>
      BY <1>3 DEF SelectTarget
    <2>2. PICK user \in DOMAIN active.users :
             \E server \in active.users[user].allowed_servers :
                connection' = [pc |-> "selected", user |-> user, server |-> server]
      BY <1>3 DEF SelectTarget
    <2>3. PICK server \in active.users[user].allowed_servers :
             connection' = [pc |-> "selected", user |-> user, server |-> server]
      BY <2>2
    <2>4. user \in Users /\ server \in Servers
      BY DEF TypeOK, IsDocument, UserRecords
    <2>5. TypeOK'
      BY <2>1, <2>3, <2>4 DEF TypeOK
    <2>. QED  BY <2>1, <2>3, <2>5
              DEF Accepted, AcceptedResolves, ResolvedFromSource, Answered, Offered, Held
  <1>4. CASE ResolveTargetPolicy
    <2>1. UNCHANGED <<per_user_per_server, active, frontend>> /\ connection.pc = "selected"
      BY <1>4 DEF ResolveTargetPolicy
    <2>2. connection.user \in Users /\ connection.server \in Servers
      BY <2>1 DEF TypeOK
    <2>3. CASE connection.user \in DOMAIN active.users
      <3>. DEFINE policy == EffectivePolicy(active, connection.user, connection.server,
                                            per_user_per_server)
      <3>1. connection' = [pc |-> "resolved", user |-> connection.user,
                           server |-> connection.server, policy |-> policy, source |-> active]
        BY <1>4, <2>3 DEF ResolveTargetPolicy
      <3>2. "local" \in Fields
        BY DEF Fields
      <3>3. policy \in Effective
        BY <2>2, <2>3, <3>2, WrittenIsEffective DEF Accepted, ValidSemantics, TypeOK
      <3>. HIDE DEF policy
      <3>4. TypeOK'
        BY <2>1, <2>2, <3>1, <3>3 DEF TypeOK
      <3>5. ResolvedFromSource'
        BY <2>1, <2>3, <3>1 DEF ResolvedFromSource, Accepted, policy
      <3>. QED  BY <2>1, <3>1, <3>4, <3>5 DEF Accepted, AcceptedResolves, Answered, Offered
    <2>4. CASE connection.user \notin DOMAIN active.users
      <3>1. connection' = [pc |-> "unresolved", user |-> connection.user,
                           server |-> connection.server, source |-> active]
        BY <1>4, <2>4 DEF ResolveTargetPolicy
      <3>2. TypeOK'
        BY <2>1, <2>2, <3>1 DEF TypeOK
      <3>. QED  BY <2>1, <2>4, <3>1, <3>2
                DEF Accepted, AcceptedResolves, ResolvedFromSource, Answered, Offered, Held
    <2>. QED  BY <2>3, <2>4
  <1>5. CASE ConnectTarget
    <2>1. UNCHANGED <<per_user_per_server, active, frontend>> /\ connection.pc = "resolved"
      BY <1>5 DEF ConnectTarget
    <2>2. BackendSummary(active.kex_policy).offered # Refused
      BY DEF Accepted, ValidSemantics, ValidKexPolicy
    <2>3. /\ connection'.pc = "open"
          /\ DOMAIN connection' = {"pc", "user", "server", "policy", "source", "offer", "request",
                                   "permitted"}
          /\ connection'.user = connection.user
          /\ connection'.server = connection.server
          /\ connection'.policy = connection.policy
          /\ connection'.source = connection.source
          /\ connection'.offer.kex_policy = active.kex_policy
          /\ connection'.offer.summary = BackendSummary(active.kex_policy)
          /\ connection'.request = Shell
          /\ connection'.permitted = TRUE
      BY <1>5, <2>2 DEF ConnectTarget
    <2>4. Shell \in Requests /\ Permitted(connection.policy, Shell) = TRUE
      BY DEF Requests, Shell, Permitted
    <2>5. TypeOK'
      BY <2>1, <2>3, <2>4 DEF TypeOK, IsDocument
    <2>6. ResolvedFromSource'
      BY <2>1, <2>3 DEF ResolvedFromSource, Accepted, Held
    <2>. QED  BY <2>1, <2>2, <2>3, <2>4, <2>5, <2>6 DEF Accepted, AcceptedResolves, Answered, Offered
  <1>6. CASE RequestForwarding \/ RequestOnChannel
    <2>1. UNCHANGED <<per_user_per_server, active, frontend>> /\ connection.pc = "open"
      BY <1>6 DEF RequestForwarding, RequestOnChannel
    <2>2. PICK request \in Requests, pc \in {"open", "over"} : Answer(request, pc)
      BY <1>6 DEF RequestForwarding, RequestOnChannel, Requests
    <2>3. DOMAIN connection = {"pc", "user", "server", "policy", "source", "offer", "request",
                               "permitted"}
      BY <2>1 DEF TypeOK
    <2>4. /\ connection'.pc \in {"open", "over"}
          /\ DOMAIN connection' = DOMAIN connection
          /\ connection'.user = connection.user
          /\ connection'.server = connection.server
          /\ connection'.policy = connection.policy
          /\ connection'.source = connection.source
          /\ connection'.offer = connection.offer
          /\ connection'.request = request
          /\ connection'.permitted = Permitted(connection.policy, request)
      BY <2>2, <2>3 DEF Answer
    <2>5. connection.policy \in Effective
      BY <2>1 DEF TypeOK
    <2>6. Permitted(connection.policy, request) \in BOOLEAN
      BY <2>5, PermittedByField
    <2>7. TypeOK'
      BY <2>1, <2>3, <2>4, <2>6 DEF TypeOK
    <2>8. ResolvedFromSource'
      BY <2>1, <2>4 DEF ResolvedFromSource, Accepted, Held
    <2>. QED  BY <2>1, <2>4, <2>7, <2>8 DEF Accepted, AcceptedResolves, Answered, Offered
  <1>7. CASE UNCHANGED vars
    BY <1>7 DEF vars, TypeOK, Accepted, AcceptedResolves, ResolvedFromSource, Answered, Offered
  <1>. QED  BY <1>1, <1>2, <1>3, <1>4, <1>5, <1>6, <1>7 DEF Next

LEMMA PolicyInvariant == Spec => []PolicyInv
  <1>. QED  BY InitPolicyInv, StepPolicyInv, PTL DEF Spec

(* Every field of the state of the gateway's policies has its type.        *)
THEOREM TypeCorrect == Spec => []TypeOK
  <1>1. PolicyInv => TypeOK
    BY DEF PolicyInv
  <1>. QED  BY <1>1, PolicyInvariant, PTL

(* Whatever documents a start and the reloads find: what validation        *)
(* accepted does not fail when a server or a session uses it.              *)
THEOREM AcceptedConfigurationsResolve == Spec => []AcceptedResolves
  <1>1. PolicyInv => AcceptedResolves
    BY DEF PolicyInv
  <1>. QED  BY <1>1, PolicyInvariant, PTL

(* Whatever the requests and documents are: a request is answered by what  *)
(* is written for its user and server, or else by the default.             *)
THEOREM DecisionsAreAsWritten == Spec => []DecisionAsWritten
  <1>1. PolicyInv => DecisionAsWritten
    <2>. SUFFICES ASSUME PolicyInv, connection.pc \in {"open", "over"}
                  PROVE  DecisionAsWritten
      BY DEF DecisionAsWritten
    <2>. DEFINE request == connection.request
                policy == connection.policy
                f == Governs(request)
    <2>1. /\ connection.user \in Users /\ connection.server \in Servers
          /\ per_user_per_server \in BOOLEAN
          /\ request \in Requests
          /\ policy \in Effective
      BY DEF PolicyInv, TypeOK
    <2>2. /\ IsDocument(connection.source)
          /\ ValidAuthorizationPolicy(connection.source, per_user_per_server)
          /\ connection.user \in DOMAIN connection.source.users
          /\ policy = EffectivePolicy(connection.source, connection.user, connection.server,
                                      per_user_per_server)
      BY DEF PolicyInv, ResolvedFromSource, Accepted, ValidSemantics, Held
    <2>3. connection.permitted = Permitted(policy, request)
      BY DEF PolicyInv, Answered
    <2>4. f = "nothing" => Permitted(policy, request)
      BY <2>1, PermittedByField
    <2>5. f # "nothing" => f \in Fields /\ Permitted(policy, request) = policy[f]
      BY <2>1, PermittedByField
    <2>. HIDE DEF f, policy, request
    <2>6. CASE f = "nothing"
      BY <2>3, <2>4, <2>6 DEF DecisionAsWritten, f, policy, request
    <2>7. CASE f # "nothing"
      <3>. DEFINE written == Written(connection.source, connection.user, connection.server, f)
      <3>1. IF written = {} THEN policy[f] = Default[f] ELSE written = {policy[f]}
        BY <2>1, <2>2, <2>5, <2>7, WrittenIsEffective
      <3>2. connection.permitted = policy[f]
        BY <2>3, <2>5, <2>7
      <3>. QED  BY <2>7, <3>1, <3>2 DEF DecisionAsWritten, f, request
    <2>. QED  BY <2>6, <2>7
  <1>. QED  BY <1>1, PolicyInvariant, PTL

(* Whatever lists of key exchanges a start and the reloads find, of any    *)
(* length: what is offered to a client and to a target is what is listed   *)
(* for it, in that order and without repetition.                           *)
THEOREM OffersAreAsPreferred == Spec => []OfferAsPreferred
  <1>1. PolicyInv => OfferAsPreferred
    <2>. SUFFICES ASSUME PolicyInv PROVE OfferAsPreferred
      OBVIOUS
    <2>1. ASSUME frontend.pc = "serving"
          PROVE  OffersListed(frontend.offer.summary,
                              frontend.offer.kex_policy.frontend_preferred,
                              frontend.offer.kex_policy.frontend_require_post_quantum)
      <3>. DEFINE kex == frontend.offer.kex_policy
                  p == kex.frontend_preferred
                  r == kex.frontend_require_post_quantum
      <3>1. p \in Seq(KexNames) /\ r \in BOOLEAN
        BY <2>1 DEF PolicyInv, TypeOK, KexPolicyConfig
      <3>2. frontend.offer.summary = PolicySummary(p, r) /\ PolicySummary(p, r).offered # Refused
        BY <2>1 DEF PolicyInv, Offered, FrontendSummary
      <3>. HIDE DEF p, r
      <3>3. OffersListed(frontend.offer.summary, p, r)
        BY <3>1, <3>2, SummaryIsListed
      <3>. QED  BY <3>3 DEF p, r
    <2>2. ASSUME connection.pc \in {"open", "over"}
          PROVE  OffersListed(connection.offer.summary,
                              connection.offer.kex_policy.backend_preferred,
                              connection.offer.kex_policy.backend_require_post_quantum)
      <3>. DEFINE kex == connection.offer.kex_policy
                  p == kex.backend_preferred
                  r == kex.backend_require_post_quantum
      <3>1. p \in Seq(KexNames) /\ r \in BOOLEAN
        BY <2>2 DEF PolicyInv, TypeOK, KexPolicyConfig
      <3>2. connection.offer.summary = PolicySummary(p, r) /\ PolicySummary(p, r).offered # Refused
        BY <2>2 DEF PolicyInv, Offered, BackendSummary
      <3>. HIDE DEF p, r
      <3>3. OffersListed(connection.offer.summary, p, r)
        BY <3>1, <3>2, SummaryIsListed
      <3>. QED  BY <3>3 DEF p, r
    <2>. QED  BY <2>1, <2>2 DEF OfferAsPreferred
  <1>. QED  BY <1>1, PolicyInvariant, PTL

=============================================================================
