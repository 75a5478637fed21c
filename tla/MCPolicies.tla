----------------------------- MODULE MCPolicies -----------------------------
(* Every short list of key exchanges, for clients and for targets, and     *)
(* every mix of a few entries in both places of the authorization policy.  *)
EXTENDS Policies

MCUsers == {"alice", "bob"}
MCServers == {"git", "web"}

MCKexNames == {"mlkem768", "curve25519", "libssh", "sntrup761"}
MCSupported == {"mlkem768", "curve25519", "libssh"}
MCPostQuantum == {"mlkem768", "sntrup761"}

Lists == UNION {[1 .. n -> MCKexNames] : n \in 0 .. 4}
DefaultList == <<"mlkem768", "curve25519", "libssh">>

Kex(front, front_pq, back, back_pq) ==
    [frontend_preferred |-> front, frontend_require_post_quantum |-> front_pq,
     backend_preferred |-> back, backend_require_post_quantum |-> back_pq]

DefaultKex == Kex(DefaultList, FALSE, DefaultList, FALSE)
SomeKex ==
    {Kex(list, pq, DefaultList, FALSE) : list \in Lists, pq \in BOOLEAN}
    \cup {Kex(DefaultList, TRUE, list, pq) : list \in Lists, pq \in BOOLEAN}

Nothing == [f \in {} |-> TRUE]
NoScp == [f \in {"scp"} |-> FALSE]
Forward == [f \in {"local", "remote"} |-> f = "local"]
NoSftp == [f \in {"sftp", "remote"} |-> f = "remote"]
AllWritten == [f \in Fields |-> f \in {"scp", "remote"}]
SomeEntries == {Nothing, NoScp, Forward, NoSftp, AllWritten}

SomePairs == {<<"git", "alice">>, <<"web", "alice">>, <<"git", "bob">>}
SomeTables == UNION {[pairs -> SomeEntries] : pairs \in SUBSET SomePairs}

Record(allowed, entry) == [allowed_servers |-> allowed, authorization |-> entry]

SomeUsers ==
    {[u \in MCUsers |-> IF u = "alice" THEN Record(allowed, a) ELSE Record({"git"}, b)] :
        allowed \in {{"git"}, {"git", "web"}}, a \in SomeEntries, b \in {Nothing, NoSftp}}
    \cup {[u \in {"alice"} |-> Record({"web"}, a)] : a \in SomeEntries}

Plain(kex, mode, users, tables) ==
    [kex_policy |-> kex, per_user_per_server |-> mode, users |-> users,
     server_user_policies |-> tables]

NoTables == [p \in {} |-> Nothing]
OnlyAlice == [u \in {"alice"} |-> Record({"web"}, Nothing)]

MCDocuments ==
    {Plain(kex, TRUE, OnlyAlice, NoTables) : kex \in SomeKex}
    \cup {Plain(DefaultKex, mode, users, tables) :
             mode \in BOOLEAN, users \in SomeUsers, tables \in SomeTables}

(* Reloads: other key exchanges without the user alice, fields of users,   *)
(* tables, and a backend that resolves to nothing.                         *)
MCReplacements ==
    { Plain(Kex(<<"libssh", "mlkem768">>, FALSE, <<"curve25519", "mlkem768">>, TRUE), TRUE,
            [u \in {"bob"} |-> Record({"git"}, Nothing)], NoTables),
      Plain(DefaultKex, TRUE, [u \in MCUsers |-> Record({"git"}, NoScp)], NoTables),
      Plain(DefaultKex, FALSE, [u \in MCUsers |-> Record(MCServers, Nothing)],
            [p \in {<<"git", "alice">>} |-> NoSftp]),
      Plain(Kex(DefaultList, FALSE, <<"curve25519">>, TRUE), TRUE, OnlyAlice, NoTables) }

Run(executable, arguments) == [executable |-> executable, arguments |-> arguments]
MCCommands ==
    { Unreadable,
      Run("other", <<{"t"}>>),
      Run("scp", <<{}, {}>>),
      Run("scp", <<{"other"}, {"t"}, {}>>),
      Run("scp", <<{}, {"other", "f"}>>),
      Run("scp", <<{"other"}, DoubleDash, {"t"}>>) }
=============================================================================
