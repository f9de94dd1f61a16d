--------------------------- MODULE ResourceDownload ---------------------------
(***************************************************************************)
(* How the files of the server's resources reach one client, and when its  *)
(* scripts start: the queue of the player on the server, the announcements *)
(* and the files over TCP, the requests of the client, and the stops that  *)
(* travel over enet.                                                       *)
(*                                                                         *)
(* A handler runs under the resource lock of its process and is one step;  *)
(* ServerThreads has the locks.  A file is a name with a write time.  What *)
(* is in the files, their sizes and the download bar are left out, and so  *)
(* are files that are empty or vanish from the server's disk.              *)
(***************************************************************************)
EXTENDS Naturals, Sequences, FiniteSets, SequencesExt

CONSTANTS
    Resources, Files,
    FilesOf,       \* the client and shared files of a resource
    Restarted, Edited, Removable,
                   \* resources somebody stops and starts, whose files change
                   \* on the server, and whose folder may be deleted
    CachedTimes,   \* write times of the files a client may have kept
    MaxTime,       \* bound on write times: 2 when the client connects
    MaxStops       \* bound on stops of running resources

NoFile == 0

ASSUME DownloadAssumption ==
    /\ FilesOf \in [Resources -> SUBSET Files]
    /\ IsFiniteSet(Resources) /\ IsFiniteSet(Files)
    /\ Restarted \union Edited \union Removable \subseteq Resources
    /\ CachedTimes \subseteq Nat
    /\ MaxTime \in Nat /\ MaxStops \in Nat

VARIABLES
    status,             \* server: of a resource, or "Absent"
    time,               \* server: write times of its files
    resources_to_sync,  \* server: the queue of the player
    stops_made,
    to_client, to_server, stops,   \* TCP, TCP, enet
    resources,          \* client: the names it has a Resource for
    running, up_to_date,
    files_to_download, files_downloaded,
    downloading_resources,
    startup_all_resources_synced,
    disk,               \* client: write times of the files in its folders
    announced,          \* history: write times in the last announcement it handled
    awaited,            \* history: what it asked for then, and has not got since
    mixed               \* history: resources for which files of two requests mix

serverVars == <<status, time, resources_to_sync, stops_made>>
clientVars == <<resources, running, up_to_date, files_to_download,
                files_downloaded, downloading_resources,
                startup_all_resources_synced, disk, announced, awaited, mixed>>
vars == <<serverVars, to_client, to_server, stops, clientVars>>

Times == Nat
Request == [rsrc : Resources, files : SUBSET Files]
Message ==
    [type : {"List"}, names : SUBSET Resources]
    \union [type : {"Sync"}, rsrc : Resources, info : [Files -> Times]]
    \union [type : {"File"}, rsrc : Resources, file : Files, lwt : Times]

\* Every variable has its type, and the client counts, keeps up to date and runs
\* only resources it knows.
TypeOK ==
    /\ status \in [Resources -> {"Running", "Stopped", "Absent"}]
    /\ time \in [Resources -> [Files -> Times]]
    /\ resources_to_sync \in Seq(Resources)
    /\ stops_made \in 0 .. MaxStops
    /\ to_client \in Seq(Message)
    /\ to_server \in Seq(Request)
    /\ stops \in Seq(Resources)
    /\ resources \subseteq Resources
    /\ running \subseteq resources /\ up_to_date \subseteq resources
    /\ files_to_download \in [Resources -> Nat]
    /\ files_downloaded \in [Resources -> Nat]
    /\ downloading_resources \subseteq Resources
    /\ startup_all_resources_synced \in BOOLEAN
    /\ disk \in [Resources -> [Files -> Times]]
    /\ announced \in [Resources -> [Files -> Times]]
    /\ awaited \in [Resources -> SUBSET Files] /\ mixed \subseteq Resources

NoTimes == [f \in Files |-> NoFile]

\* StartupSync has queued what runs; the client comes with whatever it kept in its
\* download folder.
Init ==
    /\ status \in [Resources -> {"Running", "Stopped"}]
    /\ time = [r \in Resources |-> [f \in Files |-> 2]]
    /\ resources_to_sync \in SetToSeqs({r \in Resources : status[r] = "Running"})
    /\ resources_to_sync # <<>>
    /\ stops_made = 0
    /\ to_client = <<>> /\ to_server = <<>> /\ stops = <<>>
    /\ resources = {} /\ running = {} /\ up_to_date = {}
    /\ files_to_download = [r \in Resources |-> 0]
    /\ files_downloaded = [r \in Resources |-> 0]
    /\ downloading_resources = {}
    /\ startup_all_resources_synced = FALSE
    /\ disk \in [Resources -> [Files -> CachedTimes]]
    /\ announced = [r \in Resources |-> NoTimes]
    /\ awaited = [r \in Resources |-> {}] /\ mixed = {}

-----------------------------------------------------------------------------
(* The server.                                                             *)

StartResource(r) ==
    /\ status[r] = "Stopped"
    /\ status' = [status EXCEPT ![r] = "Running"]
    /\ resources_to_sync' = Append(resources_to_sync, r)
    /\ UNCHANGED <<time, stops_made, to_client, to_server, stops, clientVars>>

\* The client is told over enet.
StopResource(r) ==
    /\ r \in Restarted /\ status[r] = "Running" /\ stops_made < MaxStops
    /\ status' = [status EXCEPT ![r] = "Stopped"]
    /\ stops' = Append(stops, r)
    /\ stops_made' = stops_made + 1
    /\ UNCHANGED <<time, resources_to_sync, to_client, to_server, clientVars>>

\* refresh frees a resource whose folder is gone, and tells nobody.  If it still
\* runs, the check of ~Resource ends the server: that is left to ServerThreads.
RefreshAway(r) ==
    /\ r \in Removable /\ status[r] = "Stopped"
    /\ status' = [status EXCEPT ![r] = "Absent"]
    /\ UNCHANGED <<time, resources_to_sync, stops_made, to_client, to_server,
                   stops, clientVars>>

EditFile(r, f) ==
    /\ r \in Edited /\ f \in FilesOf[r] /\ time[r][f] < MaxTime
    /\ time' = [time EXCEPT ![r][f] = @ + 1]
    /\ UNCHANGED <<status, resources_to_sync, stops_made, to_client, to_server,
                   stops, clientVars>>

\* What a packet says of the files of r; other files have no entry.
FilesInfo(r) == [f \in Files |-> IF f \in FilesOf[r] THEN time[r][f] ELSE NoFile]

List(q) == [type |-> "List", names |-> ToSet(q)]
Sync(r) == [type |-> "Sync", rsrc |-> r, info |-> FilesInfo(r)]
File(r, f) == [type |-> "File", rsrc |-> r, file |-> f, lwt |-> time[r][f]]

Exists(r) == status[r] # "Absent"

\* The places of the queue in a set P, first to last.
InOrder(P) ==
    {at \in [1 .. Cardinality(P) -> P] : \A j, k \in DOMAIN at : j < k => at[j] < at[k]}

\* All names are listed, and those that still exist announced.
SyncPendingResources ==
    /\ resources_to_sync # <<>>
    /\ LET q == resources_to_sync IN
       \E at \in InOrder({i \in DOMAIN q : Exists(q[i])}) :
         to_client' = Append(to_client, List(q)) \o [k \in DOMAIN at |-> Sync(q[at[k]])]
    /\ resources_to_sync' = <<>>
    /\ UNCHANGED <<status, time, stops_made, to_server, stops, clientVars>>

\* The files of a request, in an order of their own; none if r is gone.
Answer ==
    /\ to_server # <<>>
    /\ LET q == Head(to_server)
       IN  \/ /\ Exists(q.rsrc)
              /\ \E order \in SetToSeqs(q.files) :
                   to_client' = to_client \o [i \in 1 .. Len(order) |->
                                                File(q.rsrc, order[i])]
           \/ ~Exists(q.rsrc) /\ UNCHANGED to_client
    /\ to_server' = Tail(to_server)
    /\ UNCHANGED <<serverVars, stops, clientVars>>

-----------------------------------------------------------------------------
(* The client: TCP messages in order, and stops between them.              *)

StartEverything(runs, ends) ==
    /\ startup_all_resources_synced' = (startup_all_resources_synced \/ ends)
    /\ running' = IF ends THEN Resources ELSE runs

\* end_download, and what it does to the resources that run: the first time,
\* all of them start.
EndDownload(runs, ends) ==
    /\ startup_all_resources_synced' = (startup_all_resources_synced \/ ends)
    /\ running' = IF ends /\ ~startup_all_resources_synced THEN resources' ELSE runs

StartNothing(runs, r, complete) == runs

\* start_resource for a resource that is complete, once startup is over.
StartIf(runs, r, complete) ==
    IF complete /\ startup_all_resources_synced THEN runs \union {r} ELSE runs

\* An announcement ends the download only if no resource was ever out of date,
\* a file whenever it was the last.
AllUpToDate == downloading_resources' = {} /\ up_to_date' = resources'
NothingLeft == downloading_resources' = {}

HandleList(m) ==
    /\ m.type = "List"
    /\ downloading_resources' = downloading_resources \union m.names
    /\ UNCHANGED <<to_server, resources, running, up_to_date, files_to_download,
                   files_downloaded, startup_all_resources_synced, disk, announced,
                   awaited, mixed>>

\* An empty or missing folder asks for all files, without naming them.
CompleteSync(r) == disk[r] = NoTimes
NewFiles(m) == {f \in Files : m.info[f] # NoFile /\ disk[m.rsrc][f] = NoFile}
OutdatedOrNew(m) == {f \in Files : m.info[f] \notin {NoFile, disk[m.rsrc][f]}}
FilesToRequest(m) ==
    IF CompleteSync(m.rsrc) THEN FilesOf[m.rsrc] ELSE OutdatedOrNew(m)
UpToDate(m) == ~CompleteSync(m.rsrc) /\ FilesToRequest(m) = {}

\* Files of an incomplete folder that the server does not list are removed.
Kept(m) == [f \in Files |-> IF m.info[f] = NoFile THEN NoFile ELSE disk[m.rsrc][f]]

\* Both counters start again.
AddToTarget(m) == files_to_download[m.rsrc] + Cardinality(FilesToRequest(m))
Target(m) == Cardinality(FilesToRequest(m))

\* The files of r that are on their way, and those that are asked for.
FilesComing(r) ==
    {i \in DOMAIN to_client : to_client[i].type = "File" /\ to_client[i].rsrc = r}
FilesAsked(r) ==
    {a \in (DOMAIN to_server) \X Files :
        to_server[a[1]].rsrc = r /\ a[2] \in to_server[a[1]].files}

\* The counters do not tell what they count.  As long as files of an earlier
\* request are coming they count these, too; and that differs from counting what
\* m asks for if m asks for other files than those awaited.
Mixed(m) ==
    IF FilesComing(m.rsrc) = {} /\ FilesAsked(m.rsrc) = {} THEN mixed \ {m.rsrc}
    ELSE IF FilesToRequest(m) = awaited[m.rsrc] THEN mixed
    ELSE mixed \union {m.rsrc}

HandleSync(m) ==
    /\ m.type = "Sync"
    /\ LET r == m.rsrc IN
       /\ resources' = resources \union {r}
       /\ announced' = [announced EXCEPT ![r] = m.info]
       /\ awaited' = [awaited EXCEPT ![r] = FilesToRequest(m)]
       /\ mixed' = Mixed(m)
       /\ disk' = [disk EXCEPT ![r] = Kept(m)]
       /\ files_downloaded' = [files_downloaded EXCEPT ![r] = 0]
       /\ files_to_download' = [files_to_download EXCEPT ![r] = Target(m)]
       /\ \/ /\ UpToDate(m)
             /\ up_to_date' = up_to_date \union {r}
             /\ downloading_resources' = downloading_resources \ {r}
             /\ UNCHANGED to_server
          \/ /\ ~UpToDate(m)
             /\ up_to_date' = up_to_date \ {r}
             /\ to_server' =
                  Append(to_server, [rsrc |-> r, files |-> FilesToRequest(m)])
             /\ UNCHANGED downloading_resources
       /\ EndDownload(StartIf(running \ {r}, r, UpToDate(m)), AllUpToDate)

HandleFile(m) ==
    /\ m.type = "File"
    /\ LET r == m.rsrc
           count == files_downloaded[r] + 1
           complete == count = files_to_download[r]
       IN
       /\ resources' = resources \union {r}
       /\ disk' = [disk EXCEPT ![r][m.file] = m.lwt]
       /\ files_downloaded' = [files_downloaded EXCEPT ![r] = count]
       /\ downloading_resources' = IF complete THEN downloading_resources \ {r}
                                   ELSE downloading_resources
       /\ awaited' = [awaited EXCEPT ![r] = @ \ {m.file}]
       /\ UNCHANGED <<to_server, up_to_date, files_to_download, announced, mixed>>
       /\ EndDownload(StartIf(running, r, complete), NothingLeft)

HandleMessage ==
    /\ to_client # <<>>
    /\ LET m == Head(to_client)
       IN  HandleList(m) \/ HandleSync(m) \/ HandleFile(m)
    /\ to_client' = Tail(to_client)
    /\ UNCHANGED <<serverVars, stops>>

\* ResourceAction_Stop, on the client's main thread.
HandleStop ==
    /\ stops # <<>>
    /\ running' = running \ {Head(stops)}
    /\ stops' = Tail(stops)
    /\ UNCHANGED <<serverVars, to_client, to_server, resources, up_to_date,
                   files_to_download, files_downloaded, downloading_resources,
                   startup_all_resources_synced, disk, announced, awaited, mixed>>

Next ==
    \/ \E r \in Resources : StartResource(r) \/ StopResource(r) \/ RefreshAway(r)
    \/ \E r \in Resources, f \in Files : EditFile(r, f)
    \/ SyncPendingResources \/ Answer
    \/ HandleMessage \/ HandleStop

Spec == Init /\ [][Next]_vars

\* The tick of the server, its thread of the connection, and the client's thread
\* of the connection and tick run for ever.
Fairness ==
    /\ WF_vars(SyncPendingResources) /\ WF_vars(Answer)
    /\ WF_vars(HandleMessage) /\ WF_vars(HandleStop)

LiveSpec == Spec /\ Fairness

-----------------------------------------------------------------------------
(* Properties                                                              *)

\* "start the script right away once we downloaded all its files": what runs on
\* the client has every file in a version of the server, as it was announced or
\* later.  Excepted is a resource that was announced again, with other files to
\* ask for, while files of an earlier request were still coming: their arrival
\* completes the new count, and it may start without a file.  Only a resource that
\* somebody both stops and edits gets there.
StartedComplete ==
    /\ \A r \in running \ mixed, f \in Files : disk[r][f] \in announced[r][f] .. time[r][f]
    /\ mixed \subseteq Restarted \intersect Edited

\* How many files of r are on their way, or asked for.
Coming(r) == Cardinality(FilesComing(r)) + Cardinality(FilesAsked(r))

\* Whatever was announced again in between, enough files are coming for the
\* counters of a resource that still exists to meet.
AnswersSuffice ==
    \A r \in resources : Exists(r) =>
        files_to_download[r] <= files_downloaded[r] + Coming(r)

\* The server lists a resource and then has no file of it to send.
Unanswered(r) ==
    r \in downloading_resources /\ (~Exists(r) \/ FilesOf[r] = {})

\* Startup ends, unless it waits for a resource without files or without folder.
StartupEnds ==
    <>[](startup_all_resources_synced \/ \E r \in Resources : Unanswered(r))

\* "syncing a resource will start the resource": what runs on the server for
\* good, and is not stopped on the way, runs on the client for good.
UnstoppedRuns ==
    \A r \in Resources :
        [](r \notin ToSet(stops)) /\ <>[](status[r] = "Running") =>
        <>[](\/ r \in running \/ Unanswered(r)
             \/ ~startup_all_resources_synced /\ \E q \in Resources : Unanswered(q))
=============================================================================
