---------------------------- MODULE UsersDBProofs ----------------------------
(***************************************************************************)
(* Proofs about UsersDB, for any number of peers, addresses and names.     *)
(***************************************************************************)
EXTENDS UsersDB, TLAPS

\* While the server runs, its accounts cover what the file begins with: what a
\* save writes there loses nothing.
Covered == up => \A n \in Names : stored[n] \in Passwords => db[n] = stored[n]

IInv == TypeOK /\ SessionsMatch /\ SessionIsOwn /\ Covered

\* The invariant holds at the first start.
LEMMA InitInv == Init => IInv
BY UsersAssumption
   DEF Init, IInv, TypeOK, SessionsMatch, SessionIsOwn, Covered, Accounts,
       NoAccounts, Empty

\* A step that changes no session keeps what is said of the sessions.
LEMMA SessionsStay ==
    ASSUME SessionsMatch, SessionIsOwn, UNCHANGED sessions
    PROVE  SessionsMatch' /\ SessionIsOwn'
BY DEF sessions, SessionsMatch, SessionIsOwn

\* Nothing is logged in when the process is gone.
LEMMA GoneInv ==
    ASSUME Gone
    PROVE  /\ up' = FALSE
           /\ client' \in [Blocks -> Conns \union {Null}]
           /\ pc_users' \in [Blocks -> Sessions \union {Null}]
           /\ \A b \in Blocks : client'[b] = Null => pc_users'[b] = Null
           /\ logged_users' \subseteq Names
           /\ SessionsMatch' /\ SessionIsOwn' /\ Covered'
BY DEF Gone, Empty, SessionsMatch, SessionIsOwn, Covered

\* A new PlayerClient, at an address whose last one has logged out.
LEMMA ConnectInv ==
    ASSUME IInv, NEW c \in Conns, NEW b \in Blocks, Connect(c, b)
    PROVE  IInv'
<1> USE DEF IInv, Connect
<1>1. pc_users[b] = Null
  BY DEF TypeOK
<1>2. TypeOK'
  BY <1>1 DEF TypeOK
<1>3. SessionsMatch' /\ Covered'
  BY DEF SessionsMatch, Covered
<1>4. SessionIsOwn'
  BY <1>1 DEF SessionIsOwn, TypeOK
<1> QED BY <1>2, <1>3, <1>4

LEMMA LoginInv ==
    ASSUME IInv, NEW b \in Blocks, NEW n \in Names, NEW w \in Passwords,
           Login(b, n, w)
    PROVE  IInv'
<1> USE DEF IInv, Login
<1> DEFINE s == [by |-> client[b], name |-> n]
<1>1. s \in Sessions /\ s # Null /\ s.name = n /\ s.by = client[b]
  <2>1. client[b] \in Conns
    BY DEF TypeOK
  <2>2. s \in Sessions
    BY <2>1 DEF Sessions
  <2> QED BY <2>2, UsersAssumption
<1>2. TypeOK'
  BY <1>1 DEF TypeOK
<1>3. SessionIsOwn' /\ Covered'
  BY <1>1 DEF SessionIsOwn, Covered, TypeOK
<1>4. SessionsMatch'
  BY <1>1 DEF SessionsMatch, TypeOK
<1> QED BY <1>2, <1>3, <1>4

\* A client without its session: its name is free and the others keep theirs.
LEMMA LoggedOut ==
    ASSUME TypeOK, SessionsMatch, NEW b \in Blocks,
           logged_users' = NamesAfter(b),
           pc_users' = [pc_users EXCEPT ![b] = Null]
    PROVE  SessionsMatch' /\ logged_users' \subseteq Names
<1>1. logged_users' \subseteq Names
  BY DEF NamesAfter, TypeOK
<1>2. \A a \in Blocks : pc_users'[a] = IF a = b THEN Null ELSE pc_users[a]
  BY DEF TypeOK
<1>3. \A x, y \in Blocks :
        pc_users'[x] # Null /\ pc_users'[y] # Null /\ x # y
            => pc_users'[x].name # pc_users'[y].name
  BY <1>2 DEF SessionsMatch
<1>4. ASSUME NEW n \in Names
      PROVE  n \in logged_users' <=>
                \E a \in Blocks : pc_users'[a] # Null /\ pc_users'[a].name = n
  BY <1>2 DEF SessionsMatch, NamesAfter
<1> QED BY <1>1, <1>3, <1>4 DEF SessionsMatch

LEMMA LogoutInv ==
    ASSUME IInv, NEW b \in Blocks, Logout(b)
    PROVE  IInv'
<1> USE DEF IInv, Logout
<1>1. SessionsMatch' /\ logged_users' \subseteq Names
  BY LoggedOut
<1>2. TypeOK'
  BY <1>1 DEF TypeOK
<1>3. SessionIsOwn' /\ Covered'
  BY DEF SessionIsOwn, Covered, TypeOK
<1> QED BY <1>1, <1>2, <1>3

LEMMA DisconnectInv ==
    ASSUME IInv, NEW b \in Blocks, Disconnect(b)
    PROVE  IInv'
<1> USE DEF IInv, Disconnect
<1>1. SessionsMatch' /\ logged_users' \subseteq Names
  BY LoggedOut
<1>2. TypeOK'
  BY <1>1 DEF TypeOK
<1>3. SessionIsOwn' /\ Covered'
  BY DEF SessionIsOwn, Covered, TypeOK
<1> QED BY <1>1, <1>2, <1>3

\* The new account is in db, and in the file if it is the first of the run.
LEMMA RegisterInv ==
    ASSUME IInv, NEW b \in Blocks, NEW n \in Names, NEW w \in Passwords,
           Register(b, n, w)
    PROVE  IInv' /\ \A m \in Names : stored[m] \in Passwords
                                        => stored'[m] = stored[m]
<1> USE DEF IInv, Register
<1>1. db' \in Accounts /\ stored' \in Accounts
  BY DEF TypeOK, Accounts, Saved
<1>2. TypeOK'
  BY <1>1 DEF TypeOK, sessions
<1>3. SessionsMatch' /\ SessionIsOwn'
  BY SessionsStay
<1>4. \A m \in Names : stored[m] \in Passwords => m # n
  BY UsersAssumption DEF Covered
<1>5. \A m \in Names : m # n => db'[m] = db[m]
  BY DEF TypeOK, Accounts
<1>6. \A m \in Names : stored[m] \in Passwords => stored'[m] = stored[m]
  BY <1>4, <1>5 DEF Saved, Covered
<1>7. Covered'
  BY <1>4, <1>5 DEF Saved, Covered
<1> QED BY <1>2, <1>3, <1>6, <1>7

\* The ends of the process.
LEMMA EndInv ==
    ASSUME IInv,
           \/ Shutdown \/ Crash
           \/ \E b \in Blocks, n \in Names : CrashInSave(b, n) \/ LoginBroken(b, n)
    PROVE  IInv' /\ \A m \in Names : stored[m] \in Passwords
                                        => stored'[m] = stored[m]
<1> USE DEF IInv
<1>1. Gone /\ db' = db
  BY DEF Shutdown, Crash, CrashInSave, LoginBroken
<1> DEFINE Kept ==
      /\ rewound' \in BOOLEAN
      /\ stored' \in Accounts
      /\ \A m \in Names : stored[m] \in Passwords => stored'[m] = stored[m]
<1>2. Kept
  <2>1. CASE Shutdown
    BY <2>1 DEF Shutdown, Saved, Covered, TypeOK
  <2>2. CASE Crash
    BY <2>2 DEF Crash, TypeOK
  <2>3. ASSUME NEW b \in Blocks, NEW n \in Names, CrashInSave(b, n)
        PROVE  Kept
    <3>1. stored[n] \notin Passwords
      BY <2>3, UsersAssumption DEF CrashInSave, Covered
    <3>2. stored' \in Accounts
      BY <2>3 DEF CrashInSave, TypeOK, Accounts
    <3>3. \A m \in Names : m # n => stored'[m] = db[m]
      BY <2>3 DEF CrashInSave, TypeOK, Accounts
    <3> QED BY <2>3, <3>1, <3>2, <3>3 DEF CrashInSave, Covered, TypeOK
  <2>4. ASSUME NEW b \in Blocks, NEW n \in Names, LoginBroken(b, n)
        PROVE  Kept
    BY <2>4 DEF LoginBroken, TypeOK
  <2> HIDE DEF Kept
  <2> QED BY <2>1, <2>2, <2>3, <2>4
<1>3. TypeOK'
  BY <1>1, <1>2, GoneInv DEF TypeOK
<1> QED BY <1>1, <1>2, <1>3, GoneInv

LEMMA StartInv == ASSUME IInv, Start PROVE IInv'
<1> USE DEF IInv, Start
<1>1. TypeOK'
  BY DEF TypeOK, Load, sessions
<1>2. SessionsMatch' /\ SessionIsOwn'
  BY SessionsStay
<1>3. Covered'
  BY DEF Covered, Load
<1> QED BY <1>1, <1>2, <1>3

\* Every step keeps the invariant, and the accounts the file begins with.
LEMMA StepInv ==
    ASSUME IInv, [Next]_vars
    PROVE  IInv' /\ \A m \in Names : stored[m] \in Passwords
                                        => stored'[m] = stored[m]
<1>1. ASSUME NEW b \in Blocks, NEW c \in Conns, Connect(c, b)
      PROVE  IInv' /\ stored' = stored
  BY <1>1, ConnectInv DEF Connect
<1>2. ASSUME NEW b \in Blocks, NEW n \in Names, NEW w \in Passwords, Login(b, n, w)
      PROVE  IInv' /\ stored' = stored
  BY <1>2, LoginInv DEF Login
<1>3. ASSUME NEW b \in Blocks, Logout(b)
      PROVE  IInv' /\ stored' = stored
  BY <1>3, LogoutInv DEF Logout
<1>4. ASSUME NEW b \in Blocks, Disconnect(b)
      PROVE  IInv' /\ stored' = stored
  BY <1>4, DisconnectInv DEF Disconnect
<1>5. CASE Start
  BY <1>5, StartInv DEF Start
<1>6. CASE UNCHANGED vars
  <2>1. UNCHANGED sessions
    BY <1>6 DEF vars
  <2>2. SessionsMatch' /\ SessionIsOwn'
    BY <2>1, SessionsStay DEF IInv
  <2>3. TypeOK' /\ Covered'
    BY <1>6 DEF vars, sessions, IInv, TypeOK, Covered
  <2> QED BY <1>6, <2>2, <2>3 DEF IInv, vars
<1> QED
  BY <1>1, <1>2, <1>3, <1>4, <1>5, <1>6, RegisterInv, EndInv DEF Next

\* The invariant holds in every state of every behaviour.
LEMMA Invariance == Spec => []IInv
<1>1. IInv /\ [Next]_vars => IInv'
  BY StepInv
<1> QED BY InitInv, <1>1, PTL DEF Spec

\* The tables of accounts and sessions keep their types.
THEOREM UsersTypeCorrect == Spec => []TypeOK
BY Invariance, PTL DEF IInv

\* The tables of sessions agree: one login per name, none left behind.
THEOREM SessionsAgree == Spec => []SessionsMatch
BY Invariance, PTL DEF IInv

\* No peer is taken for another who was at the same address.
THEOREM NoInheritedLogin == Spec => []SessionIsOwn
BY Invariance, PTL DEF IInv

\* What the file begins with is never lost or changed by what follows, be it a
\* registration, a shutdown, a crash, or a crash in the middle of a save.
THEOREM StoredAccountsKept == Spec => StoredAccountsStay
<1>1. IInv /\ [Next]_vars =>
        [\A n \in Names : stored[n] \in Passwords => stored'[n] = stored[n]]_vars
  BY StepInv
<1> QED BY Invariance, <1>1, PTL DEF Spec, StoredAccountsStay
=============================================================================
