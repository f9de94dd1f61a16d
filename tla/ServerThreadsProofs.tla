------------------------- MODULE ServerThreadsProofs -------------------------
(***************************************************************************)
(* For any number of players, connections and resources: a player's        *)
(* connection is alive and points back at it, and no running resource      *)
(* slips between the threads.                                              *)
(***************************************************************************)
EXTENDS ServerThreads, TLAPS

\* Who owns a lock is where the code takes and releases it.
LocksMatchControl ==
    /\ at \in {"Syncing", "Sent"} <=> object = Main
    /\ at \in {"Starting", "Stopping"} <=> resource = Main
    /\ \A c \in Conns : thread[c] = "Syncing" <=> object = c
    /\ \A c \in Conns : thread[c] = "Sending" <=> resource = c

ArgumentsMatchControl ==
    /\ at = "Sent" => arg \in listed
    /\ at = "Starting" => arg \in Resources
    /\ todo \subseteq listed
    /\ at \notin {"Syncing", "Sent"} => todo = {}

\* A connection asks once: while a StartupSync is on its way, the connection
\* has no player yet.
AsksOnce ==
    \A c \in Conns :
        /\ asks[c] # Null => thread[c] \in {"Reading", "Sending"}
        /\ asks[c] # Null \/ thread[c] \in {"Free", "Fresh"} => userdata[c] = Null
        /\ thread[c] = "Syncing" => userdata[c] \in listed

\* A block is given to the next player as the constructor leaves it.
FreedForgotten == \A s \in Slots \ listed : tcp[s] = Null /\ ~synced[s]

\* What the main thread is about to clear has been announced.
SentBeforeCleared ==
    at = "Sent" => \A r \in queue[arg] \intersect Running : r \in announced[arg]

ThreadsInv ==
    /\ TypeOK /\ LocksMatchControl /\ ArgumentsMatchControl /\ AsksOnce
    /\ FreedForgotten /\ SentBeforeCleared /\ TcpAlive /\ RunningAnnounced

LEMMA InitThreads == Init => ThreadsInv
  BY ThreadsAssumption DEF Init, ThreadsInv, TypeOK, LocksMatchControl,
     ArgumentsMatchControl, AsksOnce, FreedForgotten, SentBeforeCleared, TcpAlive,
     RunningAnnounced

\* Every action keeps the types.
LEMMA TypeKept ==
    ASSUME ThreadsInv, Next
    PROVE  TypeOK'
<1> USE ThreadsAssumption DEF ThreadsInv, TypeOK, ArgumentsMatchControl,
        mainVars, playerVars, connVars
<1>1. CASE MainStep /\ UNCHANGED fault
  BY <1>1 DEF MainStep, SyncBegin, Everybody, SkipPlayer, SendPending, Existing,
     ClearPending, SyncEnd, TickEnd, StartSync, StopEnd
<1>2. ASSUME NEW s \in Slots, NEW n \in Nids, NEW c \in Conns, Connect(s, n, c),
             UNCHANGED fault
      PROVE  TypeOK'
  BY <1>2 DEF Connect, FreeNids
<1>3. ASSUME NEW s \in Slots, Disconnect(s), UNCHANGED fault
      PROVE  TypeOK'
  BY <1>3 DEF Disconnect
<1>4. ASSUME NEW r \in Resources, StartBegin(r) \/ StopBegin(r) \/ Refresh(r),
             UNCHANGED fault
      PROVE  TypeOK'
  BY <1>4 DEF StartBegin, StopBegin, Refresh
<1>5. ASSUME NEW c \in Conns, StartupSync(c)
      PROVE  TypeOK'
  BY <1>5 DEF StartupSync, ObjectFree, Named
<1>6. ASSUME NEW c \in Conns, QueueRunning(c)
      PROVE  TypeOK'
  BY <1>6 DEF QueueRunning, Running
<1>7. ASSUME NEW c \in Conns,
             Accept(c) \/ FilesBegin(c) \/ FilesEnd(c) \/ Close(c)
      PROVE  TypeOK'
  BY <1>7 DEF Accept, FilesBegin, FilesEnd, Close
<1>8. ASSUME NEW c \in Conns, Report(c) \/ Reap(c)
      PROVE  TypeOK'
  BY <1>8 DEF Report, Unlinked, Reap
<1>9. CASE \E r \in Resources : RefreshRunning(r)
  BY <1>9 DEF RefreshRunning
<1> HIDE DEF ThreadsInv, TypeOK, ArgumentsMatchControl
<1> QED
  BY <1>1, <1>2, <1>3, <1>4, <1>5, <1>6, <1>7, <1>8, <1>9
     DEF Next, Packets, ConnStep, UpdateStep

\* A thread is between taking and releasing a lock exactly if it owns it.
LEMMA LocksKept ==
    ASSUME ThreadsInv, Next
    PROVE  LocksMatchControl'
<1> USE ThreadsAssumption DEF ThreadsInv, TypeOK, LocksMatchControl,
        mainVars, playerVars, connVars
<1>1. CASE MainStep
  BY <1>1 DEF MainStep, SyncBegin, Everybody, SkipPlayer, SendPending, Existing,
     ClearPending, SyncEnd, TickEnd, StartSync, StopEnd
<1>2. ASSUME NEW s \in Slots, NEW n \in Nids, NEW c \in Conns, Connect(s, n, c)
      PROVE  LocksMatchControl'
  BY <1>2 DEF Connect, FreeNids
<1>3. ASSUME NEW s \in Slots, Disconnect(s)
      PROVE  LocksMatchControl'
  BY <1>3 DEF Disconnect
<1>4. ASSUME NEW r \in Resources, StartBegin(r) \/ StopBegin(r) \/ Refresh(r)
      PROVE  LocksMatchControl'
  BY <1>4 DEF StartBegin, StopBegin, Refresh
<1>5. ASSUME NEW c \in Conns, StartupSync(c)
      PROVE  LocksMatchControl'
  BY <1>5 DEF StartupSync, ObjectFree, Named
<1>6. ASSUME NEW c \in Conns, QueueRunning(c)
      PROVE  LocksMatchControl'
  BY <1>6 DEF QueueRunning, Running
<1>7. ASSUME NEW c \in Conns,
             Accept(c) \/ FilesBegin(c) \/ FilesEnd(c) \/ Close(c)
      PROVE  LocksMatchControl'
  BY <1>7 DEF Accept, FilesBegin, FilesEnd, Close
<1>8. ASSUME NEW c \in Conns, Report(c) \/ Reap(c)
      PROVE  LocksMatchControl'
  BY <1>8 DEF Report, Unlinked, Reap
<1>9. CASE \E r \in Resources : RefreshRunning(r)
  BY <1>9 DEF RefreshRunning
<1> HIDE DEF ThreadsInv, TypeOK, LocksMatchControl
<1> QED
  BY <1>1, <1>2, <1>3, <1>4, <1>5, <1>6, <1>7, <1>8, <1>9
     DEF Next, Packets, ConnStep, UpdateStep

\* The players of the current round stay listed, as nobody is removed in it.
LEMMA ArgumentsKept ==
    ASSUME ThreadsInv, Next
    PROVE  ArgumentsMatchControl'
<1> USE ThreadsAssumption DEF ThreadsInv, TypeOK, LocksMatchControl, ArgumentsMatchControl,
        mainVars, playerVars, connVars
<1>1. CASE MainStep
  BY <1>1 DEF MainStep, SyncBegin, Everybody, SkipPlayer, SendPending, Existing,
     ClearPending, SyncEnd, TickEnd, StartSync, StopEnd
<1>2. ASSUME NEW s \in Slots, NEW n \in Nids, NEW c \in Conns, Connect(s, n, c)
      PROVE  ArgumentsMatchControl'
  BY <1>2 DEF Connect, FreeNids
<1>3. ASSUME NEW s \in Slots, Disconnect(s)
      PROVE  ArgumentsMatchControl'
  BY <1>3 DEF Disconnect
<1>4. ASSUME NEW r \in Resources, StartBegin(r) \/ StopBegin(r) \/ Refresh(r)
      PROVE  ArgumentsMatchControl'
  BY <1>4 DEF StartBegin, StopBegin, Refresh
<1>5. ASSUME NEW c \in Conns, StartupSync(c)
      PROVE  ArgumentsMatchControl'
  BY <1>5 DEF StartupSync, ObjectFree, Named
<1>6. ASSUME NEW c \in Conns, QueueRunning(c)
      PROVE  ArgumentsMatchControl'
  BY <1>6 DEF QueueRunning, Running
<1>7. ASSUME NEW c \in Conns,
             Accept(c) \/ FilesBegin(c) \/ FilesEnd(c) \/ Close(c)
      PROVE  ArgumentsMatchControl'
  BY <1>7 DEF Accept, FilesBegin, FilesEnd, Close
<1>8. ASSUME NEW c \in Conns, Report(c) \/ Reap(c)
      PROVE  ArgumentsMatchControl'
  BY <1>8 DEF Report, Unlinked, Reap
<1>9. CASE \E r \in Resources : RefreshRunning(r)
  BY <1>9 DEF RefreshRunning
<1> HIDE DEF ThreadsInv, TypeOK, LocksMatchControl, ArgumentsMatchControl
<1> QED
  BY <1>1, <1>2, <1>3, <1>4, <1>5, <1>6, <1>7, <1>8, <1>9
     DEF Next, Packets, ConnStep, UpdateStep

\* A connection that is still to ask has no player, and a player whose queue
\* is filled is not removed meanwhile: the thread owns the object lock.
LEMMA AsksKept ==
    ASSUME ThreadsInv, Next
    PROVE  AsksOnce'
<1> USE ThreadsAssumption DEF ThreadsInv, TypeOK, LocksMatchControl, AsksOnce,
        mainVars, playerVars, connVars
<1>1. CASE MainStep
  BY <1>1 DEF MainStep, SyncBegin, Everybody, SkipPlayer, SendPending, Existing,
     ClearPending, SyncEnd, TickEnd, StartSync, StopEnd
<1>2. ASSUME NEW s \in Slots, NEW n \in Nids, NEW c \in Conns, Connect(s, n, c)
      PROVE  AsksOnce'
  BY <1>2 DEF Connect, FreeNids
<1>3. ASSUME NEW s \in Slots, Disconnect(s)
      PROVE  AsksOnce'
  BY <1>3 DEF Disconnect
<1>4. ASSUME NEW r \in Resources, StartBegin(r) \/ StopBegin(r) \/ Refresh(r)
      PROVE  AsksOnce'
  BY <1>4 DEF StartBegin, StopBegin, Refresh
<1>5. ASSUME NEW c \in Conns, StartupSync(c)
      PROVE  AsksOnce'
  BY <1>5 DEF StartupSync, ObjectFree, Named
<1>6. ASSUME NEW c \in Conns, QueueRunning(c)
      PROVE  AsksOnce'
  BY <1>6 DEF QueueRunning, Running
<1>7. ASSUME NEW c \in Conns,
             Accept(c) \/ FilesBegin(c) \/ FilesEnd(c) \/ Close(c)
      PROVE  AsksOnce'
  BY <1>7 DEF Accept, FilesBegin, FilesEnd, Close
<1>8. ASSUME NEW c \in Conns, Report(c) \/ Reap(c)
      PROVE  AsksOnce'
  BY <1>8 DEF Report, Unlinked, Reap
<1>9. CASE \E r \in Resources : RefreshRunning(r)
  BY <1>9 DEF RefreshRunning
<1> HIDE DEF ThreadsInv, TypeOK, LocksMatchControl, AsksOnce
<1> QED
  BY <1>1, <1>2, <1>3, <1>4, <1>5, <1>6, <1>7, <1>8, <1>9
     DEF Next, Packets, ConnStep, UpdateStep

\* Player and connection stay linked: Report clears the pointer before Reap
\* frees the connection, and a connection is linked to one player only.
LEMMA TcpKept ==
    ASSUME ThreadsInv, Next
    PROVE  (FreedForgotten /\ TcpAlive)'
<1> USE ThreadsAssumption DEF ThreadsInv, TypeOK, AsksOnce, FreedForgotten, TcpAlive,
        mainVars, playerVars, connVars
<1>1. CASE MainStep
  BY <1>1 DEF MainStep, SyncBegin, Everybody, SkipPlayer, SendPending, Existing,
     ClearPending, SyncEnd, TickEnd, StartSync, StopEnd
<1>2. ASSUME NEW s \in Slots, NEW n \in Nids, NEW c \in Conns, Connect(s, n, c)
      PROVE  (FreedForgotten /\ TcpAlive)'
  BY <1>2 DEF Connect, FreeNids
<1>3. ASSUME NEW s \in Slots, Disconnect(s)
      PROVE  (FreedForgotten /\ TcpAlive)'
  BY <1>3 DEF Disconnect
<1>4. ASSUME NEW r \in Resources, StartBegin(r) \/ StopBegin(r) \/ Refresh(r)
      PROVE  (FreedForgotten /\ TcpAlive)'
  BY <1>4 DEF StartBegin, StopBegin, Refresh
<1>5. ASSUME NEW c \in Conns, StartupSync(c)
      PROVE  (FreedForgotten /\ TcpAlive)'
  BY <1>5 DEF StartupSync, ObjectFree, Named
<1>6. ASSUME NEW c \in Conns, QueueRunning(c)
      PROVE  (FreedForgotten /\ TcpAlive)'
  BY <1>6 DEF QueueRunning, Running
<1>7. ASSUME NEW c \in Conns,
             Accept(c) \/ FilesBegin(c) \/ FilesEnd(c) \/ Close(c)
      PROVE  (FreedForgotten /\ TcpAlive)'
  BY <1>7 DEF Accept, FilesBegin, FilesEnd, Close
<1>8. ASSUME NEW c \in Conns, Report(c) \/ Reap(c)
      PROVE  (FreedForgotten /\ TcpAlive)'
  BY <1>8 DEF Report, Unlinked, Reap
<1>9. CASE \E r \in Resources : RefreshRunning(r)
  BY <1>9 DEF RefreshRunning
<1> HIDE DEF ThreadsInv, TypeOK, AsksOnce, FreedForgotten, TcpAlive
<1> QED
  BY <1>1, <1>2, <1>3, <1>4, <1>5, <1>6, <1>7, <1>8, <1>9
     DEF Next, Packets, ConnStep, UpdateStep

\* While the main thread owns the object lock, nobody adds to the queue that it
\* is about to clear.
LEMMA SentKept ==
    ASSUME ThreadsInv, Next
    PROVE  SentBeforeCleared'
<1> USE ThreadsAssumption DEF ThreadsInv, TypeOK, LocksMatchControl, ArgumentsMatchControl, SentBeforeCleared, Running,
        mainVars, playerVars, connVars
<1>1. CASE MainStep
  BY <1>1 DEF MainStep, SyncBegin, Everybody, SkipPlayer, SendPending, Existing,
     ClearPending, SyncEnd, TickEnd, StartSync, StopEnd
<1>2. ASSUME NEW s \in Slots, NEW n \in Nids, NEW c \in Conns, Connect(s, n, c)
      PROVE  SentBeforeCleared'
  BY <1>2 DEF Connect, FreeNids
<1>3. ASSUME NEW s \in Slots, Disconnect(s)
      PROVE  SentBeforeCleared'
  BY <1>3 DEF Disconnect
<1>4. ASSUME NEW r \in Resources, StartBegin(r) \/ StopBegin(r) \/ Refresh(r)
      PROVE  SentBeforeCleared'
  BY <1>4 DEF StartBegin, StopBegin, Refresh
<1>5. ASSUME NEW c \in Conns, StartupSync(c)
      PROVE  SentBeforeCleared'
  BY <1>5 DEF StartupSync, ObjectFree, Named
<1>6. ASSUME NEW c \in Conns, QueueRunning(c)
      PROVE  SentBeforeCleared'
  BY <1>6 DEF QueueRunning, Running
<1>7. ASSUME NEW c \in Conns,
             Accept(c) \/ FilesBegin(c) \/ FilesEnd(c) \/ Close(c)
      PROVE  SentBeforeCleared'
  BY <1>7 DEF Accept, FilesBegin, FilesEnd, Close
<1>8. ASSUME NEW c \in Conns, Report(c) \/ Reap(c)
      PROVE  SentBeforeCleared'
  BY <1>8 DEF Report, Unlinked, Reap
<1>9. CASE \E r \in Resources : RefreshRunning(r)
  BY <1>9 DEF RefreshRunning
<1> HIDE DEF ThreadsInv, TypeOK, LocksMatchControl, ArgumentsMatchControl, SentBeforeCleared, Running
<1> QED
  BY <1>1, <1>2, <1>3, <1>4, <1>5, <1>6, <1>7, <1>8, <1>9
     DEF Next, Packets, ConnStep, UpdateStep

\* Nothing that runs slips.
LEMMA AnnouncedKept ==
    ASSUME ThreadsInv, Next
    PROVE  RunningAnnounced'
<1> USE ThreadsAssumption DEF ThreadsInv, TypeOK, LocksMatchControl, ArgumentsMatchControl, AsksOnce, SentBeforeCleared, FreedForgotten,
        RunningAnnounced, Running,
        mainVars, playerVars, connVars
<1>1. CASE MainStep
  BY <1>1 DEF MainStep, SyncBegin, Everybody, SkipPlayer, SendPending, Existing,
     ClearPending, SyncEnd, TickEnd, StartSync, StopEnd
<1>2. ASSUME NEW s \in Slots, NEW n \in Nids, NEW c \in Conns, Connect(s, n, c)
      PROVE  RunningAnnounced'
  BY <1>2 DEF Connect, FreeNids
<1>3. ASSUME NEW s \in Slots, Disconnect(s)
      PROVE  RunningAnnounced'
  BY <1>3 DEF Disconnect
<1>4. ASSUME NEW r \in Resources, StartBegin(r) \/ StopBegin(r) \/ Refresh(r)
      PROVE  RunningAnnounced'
  BY <1>4 DEF StartBegin, StopBegin, Refresh
<1>5. ASSUME NEW c \in Conns, StartupSync(c)
      PROVE  RunningAnnounced'
  BY <1>5 DEF StartupSync, ObjectFree, Named
<1>6. ASSUME NEW c \in Conns, QueueRunning(c)
      PROVE  RunningAnnounced'
  BY <1>6 DEF QueueRunning, Running
<1>7. ASSUME NEW c \in Conns,
             Accept(c) \/ FilesBegin(c) \/ FilesEnd(c) \/ Close(c)
      PROVE  RunningAnnounced'
  BY <1>7 DEF Accept, FilesBegin, FilesEnd, Close
<1>8. ASSUME NEW c \in Conns, Report(c) \/ Reap(c)
      PROVE  RunningAnnounced'
  BY <1>8 DEF Report, Unlinked, Reap
<1>9. CASE \E r \in Resources : RefreshRunning(r)
  BY <1>9 DEF RefreshRunning
<1> HIDE DEF ThreadsInv, TypeOK, LocksMatchControl, ArgumentsMatchControl, AsksOnce, SentBeforeCleared, FreedForgotten,
        RunningAnnounced, Running
<1> QED
  BY <1>1, <1>2, <1>3, <1>4, <1>5, <1>6, <1>7, <1>8, <1>9
     DEF Next, Packets, ConnStep, UpdateStep

LEMMA NextKeeps == ThreadsInv /\ [Next]_vars => ThreadsInv'
<1> SUFFICES ASSUME ThreadsInv, [Next]_vars PROVE ThreadsInv'
  OBVIOUS
<1>1. CASE Next
  BY <1>1, TypeKept, LocksKept, ArgumentsKept, AsksKept, TcpKept, SentKept,
     AnnouncedKept DEF ThreadsInv
<1>2. CASE UNCHANGED vars
  BY <1>2 DEF vars, mainVars, playerVars, connVars, ThreadsInv, TypeOK,
     LocksMatchControl, ArgumentsMatchControl, AsksOnce, FreedForgotten,
     SentBeforeCleared, TcpAlive, RunningAnnounced, Running
<1> QED BY <1>1, <1>2

-----------------------------------------------------------------------------
(* Theorems                                                                *)

\* Whatever the threads do in whatever order, the invariant holds.
THEOREM ThreadsInvariant == Spec => []ThreadsInv
  BY InitThreads, NextKeeps, PTL DEF Spec

\* The shared tables keep their types, and listed players their own NIDs.
THEOREM ThreadsTypeCorrect == Spec => []TypeOK
<1>1. ThreadsInv => TypeOK
  BY DEF ThreadsInv
<1> QED BY <1>1, ThreadsInvariant, PTL

\* No player ever keeps a pointer to a freed connection, although connections
\* are freed on another thread than players.
THEOREM ConnectionsAlive == Spec => []TcpAlive
<1>1. ThreadsInv => TcpAlive
  BY DEF ThreadsInv
<1> QED BY <1>1, ThreadsInvariant, PTL

\* The two locks are enough: no running resource is lost between StartupSync on
\* one thread and start_resource and sync_pending_resources on another.
THEOREM NothingSlips == Spec => []RunningAnnounced
<1>1. ThreadsInv => RunningAnnounced
  BY DEF ThreadsInv
<1> QED BY <1>1, ThreadsInvariant, PTL
=============================================================================
