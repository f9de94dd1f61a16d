------------------------------- MODULE UsersDB -------------------------------
(***************************************************************************)
(* The accounts of the server: who is logged in, by the address of its     *)
(* PlayerClient, and what of the accounts a restart finds on the disk.     *)
(* The file is written through one stream that is opened once and never    *)
(* rewound, and read as the one document it begins with.                   *)
(***************************************************************************)
CONSTANTS
    Blocks,     \* addresses a PlayerClient can have; a freed one is used again
    Conns,      \* the peers
    Names, Passwords,
    Null,       \* no client, no session, no account
    Broken      \* an account whose entry in the document was cut short

\* by is history: the peer that sent LoginUser.
Sessions == [by : Conns, name : Names]

ASSUME UsersAssumption ==
    /\ Null \notin Conns \union Passwords \union Sessions
    /\ Broken \notin Passwords \union {Null}

VARIABLES
    up,             \* the server runs
    db,             \* db: name -> password, Null or Broken
    stored,         \* the accounts in the document the file begins with
    rewound,        \* nothing was written since the stream was opened
    client,         \* address -> the peer whose PlayerClient is there
    pc_users,       \* pc_users: address -> Null or the session
    logged_users    \* logged_users

sessions == <<client, pc_users, logged_users>>
vars == <<up, db, stored, rewound, sessions>>

Accounts == [Names -> Passwords \union {Null, Broken}]

TypeOK ==
    /\ up \in BOOLEAN /\ rewound \in BOOLEAN
    /\ db \in Accounts /\ stored \in Accounts
    /\ client \in [Blocks -> Conns \union {Null}]
    /\ pc_users \in [Blocks -> Sessions \union {Null}]
    /\ \A b \in Blocks : client[b] = Null => pc_users[b] = Null
    /\ logged_users \subseteq Names

NoAccounts == [n \in Names |-> Null]
Empty == [b \in Blocks |-> Null]

\* The first start creates an empty file.
Init ==
    /\ up = TRUE /\ rewound = TRUE
    /\ db = NoAccounts /\ stored = NoAccounts
    /\ client = Empty /\ pc_users = Empty /\ logged_users = {}

-----------------------------------------------------------------------------
(* Clients and their sessions                                              *)

Connect(c, b) ==
    /\ up /\ client[b] = Null /\ \A x \in Blocks : client[x] # c
    /\ client' = [client EXCEPT ![b] = c]
    /\ UNCHANGED <<up, db, stored, rewound, pc_users, logged_users>>

\* login_user: one login per name and per client; verify_user compares the
\* passwords.
Login(b, n, w) ==
    /\ up /\ client[b] # Null
    /\ n \notin logged_users /\ pc_users[b] = Null
    /\ db[n] = w
    /\ pc_users' = [pc_users EXCEPT ![b] = [by |-> client[b], name |-> n]]
    /\ logged_users' = logged_users \union {n}
    /\ UNCHANGED <<up, db, stored, rewound, client>>

\* What logout_user leaves of the sessions, for a client with one or without.
NamesKept(b) == logged_users
NamesAfter(b) ==
    {n \in logged_users : pc_users[b] = Null \/ pc_users[b].name # n}

Logout(b) ==
    /\ up /\ client[b] # Null /\ pc_users[b] # Null
    /\ logged_users' = NamesAfter(b)
    /\ pc_users' = [pc_users EXCEPT ![b] = Null]
    /\ UNCHANGED <<up, db, stored, rewound, client>>

ForgetfulDisconnect(b) ==
    /\ up /\ client[b] # Null
    /\ client' = [client EXCEPT ![b] = Null]
    /\ UNCHANGED <<up, db, stored, rewound, pc_users, logged_users>>

\* ~PlayerClient logs out before its memory is free for the next.
Disconnect(b) ==
    /\ up /\ client[b] # Null
    /\ logged_users' = NamesAfter(b)
    /\ pc_users' = [pc_users EXCEPT ![b] = Null]
    /\ client' = [client EXCEPT ![b] = Null]
    /\ UNCHANGED <<up, db, stored, rewound>>

-----------------------------------------------------------------------------
(* Accounts and their file                                                 *)

\* save(): only the first write of a run lands at the start of the file.  A later
\* one goes behind it, where no load looks.
Saved(accounts) == IF rewound THEN accounts ELSE stored

\* register_user: a name is taken once, whatever its entry is like.
Register(b, n, w) ==
    /\ up /\ client[b] # Null
    /\ db[n] = Null
    /\ db' = [db EXCEPT ![n] = w]
    /\ stored' = Saved(db')
    /\ rewound' = FALSE
    /\ UNCHANGED <<up, sessions>>

Gone ==
    /\ up' = FALSE
    /\ client' = Empty /\ pc_users' = Empty /\ logged_users' = {}

\* ~Net -> destroy(): the accounts are saved once more.
Shutdown ==
    /\ up
    /\ Gone
    /\ stored' = Saved(db)
    /\ rewound' = FALSE
    /\ UNCHANGED <<db>>

Crash ==
    /\ up
    /\ Gone
    /\ UNCHANGED <<db, stored, rewound>>

\* A crash while save() writes a new account.  The new document agrees with the
\* old one up to the end of its last account, and so the accounts before the cut
\* are there, and the new one is there, absent or cut.
CrashInSave(b, n) ==
    /\ up /\ client[b] # Null
    /\ db[n] = Null /\ rewound
    /\ Gone
    /\ stored' = [db EXCEPT ![n] = Broken]
    /\ UNCHANGED <<db, rewound>>

\* verify_user reads a string where a cut account has none: the exception is
\* caught nowhere.
LoginBroken(b, n) ==
    /\ up /\ client[b] # Null
    /\ n \notin logged_users /\ pc_users[b] = Null
    /\ db[n] = Broken
    /\ Gone
    /\ UNCHANGED <<db, stored, rewound>>

\* A load that gives up on a document that does not parse.
LoadWhole ==
    IF \E n \in Names : stored[n] = Broken THEN NoAccounts ELSE stored

\* load(): what was parsed before the error stays in db, and the result of
\* from_file is not looked at.
Load == stored

Start ==
    /\ ~up
    /\ up' = TRUE
    /\ db' = Load
    /\ rewound' = TRUE
    /\ UNCHANGED <<stored, sessions>>

Next ==
    \/ \E b \in Blocks :
        \/ \E c \in Conns : Connect(c, b)
        \/ \E n \in Names :
            \/ \E w \in Passwords : Register(b, n, w) \/ Login(b, n, w)
            \/ LoginBroken(b, n)
            \/ CrashInSave(b, n)
        \/ Logout(b)
        \/ Disconnect(b)
    \/ Shutdown \/ Crash \/ Start

Spec == Init /\ [][Next]_vars

-----------------------------------------------------------------------------
(* What holds                                                              *)

\* The two tables of sessions agree: no name is logged in twice, and no name
\* stays locked when its client logs out, leaves or is replaced.
SessionsMatch ==
    /\ logged_users =
        {n \in Names : \E b \in Blocks : pc_users[b] # Null /\ pc_users[b].name = n}
    /\ \A a, b \in Blocks :
        pc_users[a] # Null /\ pc_users[b] # Null /\ a # b
            => pc_users[a].name # pc_users[b].name

\* A session belongs to the peer that logged in, though it is found by the
\* address of a PlayerClient and the next one may have the same address.
SessionIsOwn ==
    \A b \in Blocks : pc_users[b] # Null => pc_users[b].by = client[b]

\* An account that a restart would find is found, with its password, by every
\* later one, whatever is registered, saved or cut short in between.
StoredAccountsStay ==
    [][\A n \in Names : stored[n] \in Passwords => stored'[n] = stored[n]]_vars
=============================================================================
