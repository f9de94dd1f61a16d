----------------------- MODULE ClientConnectionProofs -----------------------
(***************************************************************************)
(* Proofs about the two protocols of a client that connects over TCP:      *)
(* ClientHandshake and ResourceDownload.                                   *)
(*                                                                         *)
(* The handshake: the invariant follows the conversation of an undisturbed *)
(* handshake and says of every cancel, pending or about to be given, which *)
(* wait it belongs to.                                                     *)
(*                                                                         *)
(* The downloads: for each resource, Sound(r) says where everything is     *)
(* that the client still awaits: among the packets under way, or in the    *)
(* first request for files the server will answer; the two counters of the *)
(* client differ by just that much, unless files of two requests mix, and  *)
(* mixed says of which resources they do.                                  *)
(*                                                                         *)
(* Enough(r) needs none of this: the files that are under way or asked for *)
(* only move, from a request to a packet to the counter, and a new         *)
(* announcement resets the counters together with a new request.           *)
(***************************************************************************)
EXTENDS ClientHandshake, ResourceDownload, SequenceTheorems, FiniteSetTheorems, TLAPS

(* The handshake                                                           *)

\* The points of an undisturbed conversation: what is under way, what the server
\* is about to send, and what the reader has stored.
Asked    == /\ up = <<"Password">> /\ down = <<>> /\ server = "Reading"
            /\ ~acked /\ ~valid /\ ~files
Answered == /\ up = <<>> /\ down = <<"Accepted">> /\ server = "SendFiles"
            /\ ~acked /\ ~valid /\ ~files
Complete == /\ up = <<>> /\ down = <<"Accepted", "Files">> /\ server = "Reading"
            /\ ~acked /\ ~valid /\ ~files
Accepted == /\ up = <<>> /\ down = <<>> /\ server = "SendFiles"
            /\ acked /\ valid /\ ~files
Sending  == /\ up = <<>> /\ down = <<"Files">> /\ server = "Reading"
            /\ acked /\ valid /\ ~files
Received == /\ up \in {<<>>, <<"StartupSync">>} /\ down = <<>>
            /\ server = "Reading"
            /\ acked /\ valid /\ files

Conversation ==
    Asked \/ Answered \/ Complete \/ Accepted \/ Sending \/ Received

\* Which wait a cancel belongs to.  One that is pending or given while the first
\* wait lasts comes after the ack; one that follows another, or follows the end
\* of a sleep, comes after the files.
CancelsFit ==
    /\ reader \in {"Reading", "Cancelling"}
    /\ canceled => acked
    /\ reader = "Cancelling" => acked
    /\ canceled /\ reader = "Cancelling" => files
    /\ stage = "Password" /\ sleeper = "Check" =>
        acked /\ (canceled => files) /\ (reader = "Cancelling" => files)
    /\ stage # "Password" =>
        acked /\ (canceled => files) /\ (reader = "Cancelling" => files)
    /\ stage = "Files" /\ sleeper = "Check" => files
    /\ stage \in {"Enet", "Ticking", "Ready"} => files
    /\ up = <<"StartupSync">> => stage = "Ready"
    /\ stage # "Failed" /\ open

Undisturbed == Conversation /\ CancelsFit

\* However disturbed, the password is asked for once and answered once.
AskedOnce ==
    /\ up \in {<<>>, <<"Password">>, <<"StartupSync">>}
    /\ up = <<"Password">> => down = <<>> /\ server # "SendFiles" /\ ~files
    /\ up = <<"StartupSync">> => stage = "Ready"
    /\ server = "SendFiles" => Len(down) =< 1
    /\ stage \in {"Enet", "Ticking", "Ready"} => files

HandshakeInv == HandshakeTypeOK /\ AskedOnce /\ (causes = {} => Undisturbed)

-----------------------------------------------------------------------------

\* The short queues of the conversation.
LEMMA TailOnly == ASSUME NEW a PROVE Tail(<<a>>) = <<>> /\ Head(<<a>>) = a
OBVIOUS

LEMMA TailSecond ==
    ASSUME NEW a, NEW b PROVE Tail(<<a, b>>) = <<b>> /\ Head(<<a, b>>) = a
OBVIOUS

LEMMA AppendFirst == ASSUME NEW a PROVE Append(<<>>, a) = <<a>>
OBVIOUS

LEMMA AppendSecond ==
    ASSUME NEW S, NEW a \in S, NEW b \in S
    PROVE  Append(<<a>>, b) = <<a, b>>
<1> DEFINE s == Append(<<a>>, b)
           t == <<a, b>>
<1>1. s \in Seq(S) /\ Len(s) = 2
  OBVIOUS
<1>2. s[1] = a
  OBVIOUS
<1>3. s[2] = b
  OBVIOUS
<1>4. t \in Seq(S) /\ Len(t) = 2 /\ t[1] = a /\ t[2] = b
  OBVIOUS
<1>5. \A i \in 1..2 : i = 1 \/ i = 2
  OBVIOUS
<1> HIDE DEF s, t
<1>6. s = t
  BY <1>1, <1>2, <1>3, <1>4, <1>5, SeqEqual, Z3
<1> QED BY <1>6 DEF s, t

\* The invariant holds when the reader thread has been started.
LEMMA InitHandshake == HandshakeInit => HandshakeInv
<1> SUFFICES ASSUME HandshakeInit PROVE HandshakeInv
  OBVIOUS
<1>1. HandshakeTypeOK
  <2>1. <<"Password">> \in Seq({"Password", "StartupSync"})
    OBVIOUS
  <2>2. <<>> \in Seq({"Accepted", "Refused", "Files"}) /\ Len(<<>>) =< 2
    OBVIOUS
  <2> QED BY <2>1, <2>2 DEF HandshakeInit, HandshakeTypeOK
<1>2. AskedOnce
  BY DEF HandshakeInit, AskedOnce
<1>3. Undisturbed
  BY DEF HandshakeInit, Undisturbed, Conversation, Asked, CancelsFit
<1> QED BY <1>1, <1>2, <1>3 DEF HandshakeInv

\* Every step keeps the types.
LEMMA HandshakeTypeStep ==
    HandshakeTypeOK /\ AskedOnce /\ [HandshakeNext]_handshakeVars => HandshakeTypeOK'
<1> SUFFICES ASSUME HandshakeTypeOK, AskedOnce, [HandshakeNext]_handshakeVars
             PROVE  HandshakeTypeOK'
  OBVIOUS
<1> USE DEF HandshakeTypeOK
<1>1. CASE MainStep
  <2>1. CASE EnterSleep
    <3>1. sleeper' \in {"Enter", "Asleep", "Check"} /\ canceled' \in BOOLEAN
      BY <2>1 DEF EnterSleep
    <3> QED BY <2>1, <3>1 DEF EnterSleep, flags, netVars
  <2>2. CASE Wake
    BY <2>2, ZenonT(30) DEF Wake, flags, netVars
  <2>3. CASE CheckWait
    BY <2>3 DEF CheckWait, Waiting, Arrived, flags, netVars
  <2>4. CASE TickLost
    BY <2>4 DEF TickLost, flags, netVars
  <2> QED BY <1>1, <2>1, <2>2, <2>3, <2>4 DEF MainStep
<1>2. CASE RunOut
  BY <1>2 DEF RunOut, flags, netVars
<1>3. CASE EnetConnect
  BY <1>3 DEF EnetConnect, flags, netVars
<1>4. CASE Initialized
  <2>1. Append(up, "StartupSync") \in Seq({"Password", "StartupSync"})
    OBVIOUS
  <2> QED BY <1>4, <2>1 DEF Initialized, flags
<1>5. CASE ReaderStep
  <2>1. CASE ReadPacket
    <3>1. Tail(down) \in Seq({"Accepted", "Refused", "Files"}) /\ Len(Tail(down)) =< 2
      BY <2>1 DEF ReadPacket
    <3> QED BY <2>1, <3>1 DEF ReadPacket, mainVars
  <2>2. CASE CancelSleep
    BY <2>2 DEF CancelSleep, mainVars, flags, netVars
  <2>3. CASE ReadFails
    BY <2>3 DEF ReadFails, mainVars, flags, netVars
  <2>4. CASE EndRead
    BY <2>4 DEF EndRead, mainVars, flags, netVars
  <2> QED BY <1>5, <2>1, <2>2, <2>3, <2>4 DEF ReaderStep
<1>6. CASE ServerStep
  <2>1. CASE HandlePassword
    <3>1. up = <<"Password">> /\ down = <<>>
      BY <2>1 DEF HandlePassword, AskedOnce
    <3>2. Tail(up) \in Seq({"Password", "StartupSync"})
      BY <3>1
    <3>3. down' = <<"Accepted">> \/ down' = <<"Refused">>
      BY <2>1, <3>1, AppendFirst DEF HandlePassword
    <3>4. /\ down' \in Seq({"Accepted", "Refused", "Files"})
          /\ Len(down') =< 2
      <4>1. \A a \in {"Accepted", "Refused", "Files"} :
              <<a>> \in Seq({"Accepted", "Refused", "Files"}) /\ Len(<<a>>) =< 2
        OBVIOUS
      <4> QED BY <3>3, <4>1
    <3>5. /\ up' \in Seq({"Password", "StartupSync"})
          /\ server' \in {"Reading", "SendFiles", "Closed"}
          /\ causes' \subseteq {"Refused", "Broken", "Silent", "RanOut"}
      BY <2>1, <3>2 DEF HandlePassword, Taken
    <3> QED BY <2>1, <3>4, <3>5 DEF HandlePassword, mainVars, flags
  <2>2. CASE SyncDefaultFiles
    <3>1. /\ Append(down, "Files") \in Seq({"Accepted", "Refused", "Files"})
          /\ Len(Append(down, "Files")) =< 2
      BY <2>2 DEF SyncDefaultFiles, AskedOnce
    <3> QED BY <2>2, <3>1 DEF SyncDefaultFiles, mainVars, flags
  <2>3. CASE HandleStartupSync
    <3>1. Tail(up) \in Seq({"Password", "StartupSync"})
      BY <2>3 DEF HandleStartupSync
    <3> QED BY <2>3, <3>1 DEF HandleStartupSync, Taken, mainVars, flags
  <2> QED BY <1>6, <2>1, <2>2, <2>3 DEF ServerStep
<1>7. CASE ServerHearsNothing
  BY <1>7 DEF ServerHearsNothing, mainVars, flags, netVars
<1>8. CASE ClientHearsNothing
  BY <1>8, ZenonT(30) DEF ClientHearsNothing, mainVars, flags, netVars
<1>9. CASE Break
  <2>1. ASSUME NEW n \in 0..Len(down)
        PROVE  /\ SubSeq(down, 1, n) \in Seq({"Accepted", "Refused", "Files"})
               /\ Len(SubSeq(down, 1, n)) =< 2
    OBVIOUS
  <2>2. up' \in Seq({"Password", "StartupSync"})
    BY <1>9 DEF Break
  <2> QED BY <1>9, <2>1, <2>2 DEF Break, mainVars, flags
<1>10. CASE UNCHANGED handshakeVars
  BY <1>10 DEF handshakeVars, mainVars, flags, netVars
<1> QED BY <1>1, <1>2, <1>3, <1>4, <1>5, <1>6, <1>7, <1>8, <1>9, <1>10 DEF HandshakeNext

\* Every step keeps the order of the conversation.
LEMMA AskedOnceStep ==
    HandshakeTypeOK /\ AskedOnce /\ [HandshakeNext]_handshakeVars => AskedOnce'
<1> SUFFICES ASSUME HandshakeTypeOK, AskedOnce, [HandshakeNext]_handshakeVars
             PROVE  AskedOnce'
  OBVIOUS
<1> USE DEF AskedOnce
<1>1. CASE MainStep
  <2>1. CASE EnterSleep
    BY <2>1 DEF EnterSleep, flags, netVars
  <2>2. CASE Wake
    BY <2>2 DEF Wake, flags, netVars
  <2>3. CASE CheckWait
    BY <2>3 DEF CheckWait, Waiting, Arrived, flags, netVars
  <2>4. CASE TickLost
    BY <2>4 DEF TickLost, flags, netVars
  <2> QED BY <1>1, <2>1, <2>2, <2>3, <2>4 DEF MainStep
<1>2. CASE RunOut
  BY <1>2 DEF RunOut, flags, netVars
<1>3. CASE EnetConnect
  BY <1>3 DEF EnetConnect, flags, netVars
<1>4. CASE Initialized
  <2>1. up = <<>>
    BY <1>4 DEF Initialized
  <2>2. up' = <<>> \/ up' = <<"StartupSync">>
    BY <1>4, <2>1 DEF Initialized
  <2> QED BY <1>4, <2>2 DEF Initialized, flags
<1>5. CASE ReaderStep
  <2>1. CASE ReadPacket
    <3>1. Len(down) =< 1 => Len(Tail(down)) =< 1
      BY <2>1 DEF ReadPacket, HandshakeTypeOK
    <3> QED BY <2>1, <3>1 DEF ReadPacket, mainVars
  <2>2. CASE CancelSleep
    BY <2>2 DEF CancelSleep, mainVars, flags, netVars
  <2>3. CASE ReadFails
    BY <2>3 DEF ReadFails, mainVars, flags, netVars
  <2>4. CASE EndRead
    BY <2>4 DEF EndRead, mainVars, flags, netVars
  <2> QED BY <1>5, <2>1, <2>2, <2>3, <2>4 DEF ReaderStep
<1>6. CASE ServerStep
  <2>1. CASE HandlePassword
    <3>1. up = <<"Password">> /\ down = <<>>
      BY <2>1 DEF HandlePassword
    <3>2. up' = <<>>
      BY <2>1, <3>1, TailOnly DEF HandlePassword, Taken
    <3>3. down' = <<"Accepted">> \/ down' = <<"Refused">>
      BY <2>1, <3>1, AppendFirst DEF HandlePassword
    <3>4. Len(<<"Accepted">>) =< 1 /\ Len(<<"Refused">>) =< 1
      OBVIOUS
    <3>5. Len(down') =< 1
      BY <3>3, <3>4
    <3> QED BY <2>1, <3>2, <3>5 DEF HandlePassword, mainVars, flags
  <2>2. CASE SyncDefaultFiles
    BY <2>2 DEF SyncDefaultFiles, mainVars, flags
  <2>3. CASE HandleStartupSync
    <3>1. up = <<"Password">> \/ up = <<"StartupSync">>
      BY <2>3 DEF HandleStartupSync
    <3>2. up' = <<>>
      BY <2>3, <3>1, TailOnly DEF HandleStartupSync, Taken
    <3> QED BY <2>3, <3>2 DEF HandleStartupSync, mainVars, flags
  <2> QED BY <1>6, <2>1, <2>2, <2>3 DEF ServerStep
<1>7. CASE ServerHearsNothing
  BY <1>7 DEF ServerHearsNothing, mainVars, flags, netVars
<1>8. CASE ClientHearsNothing
  BY <1>8 DEF ClientHearsNothing, mainVars, flags, netVars
<1>9. CASE Break
  BY <1>9 DEF Break, mainVars, flags
<1>10. CASE UNCHANGED handshakeVars
  BY <1>10 DEF handshakeVars, mainVars, flags, netVars
<1> QED BY <1>1, <1>2, <1>3, <1>4, <1>5, <1>6, <1>7, <1>8, <1>9, <1>10 DEF HandshakeNext

\* A step that ends without a cause began without one, and keeps every cancel
\* with its wait.
LEMMA UndisturbedStep ==
    HandshakeTypeOK /\ Undisturbed /\ [HandshakeNext]_handshakeVars /\ causes = {} /\ causes' = {}
        => Undisturbed'
<1> SUFFICES ASSUME HandshakeTypeOK, Undisturbed, [HandshakeNext]_handshakeVars, causes = {}, causes' = {}
             PROVE  Undisturbed'
  OBVIOUS
<1> USE DEF Undisturbed, Conversation, CancelsFit, Asked, Answered, Complete,
            Accepted, Sending, Received
<1>1. CASE MainStep
  <2>1. CASE EnterSleep
    BY <2>1 DEF EnterSleep, Waiting, flags, netVars, HandshakeTypeOK
  <2>2. CASE Wake
    BY <2>2 DEF Wake, Waiting, flags, netVars, HandshakeTypeOK
  <2>3. CASE CheckWait
    BY <2>3 DEF CheckWait, Waiting, Arrived, flags, netVars, HandshakeTypeOK
  <2>4. CASE TickLost
    BY <2>4 DEF TickLost
  <2> QED BY <1>1, <2>1, <2>2, <2>3, <2>4 DEF MainStep
<1>2. CASE RunOut
  BY <1>2 DEF RunOut
<1>3. CASE EnetConnect
  BY <1>3 DEF EnetConnect, flags, netVars
<1>4. CASE Initialized
  <2>1. Received /\ up = <<>>
    BY <1>4 DEF Initialized
  <2>2. up' = <<"StartupSync">>
    BY <1>4, <2>1 DEF Initialized
  <2> QED BY <1>4, <2>1, <2>2 DEF Initialized, flags
<1>5. CASE ReaderStep
  <2>1. CASE ReadPacket
    <3>1. Head(<<"Accepted">>) = "Accepted" /\ Tail(<<"Accepted">>) = <<>>
      BY TailOnly
    <3>2. Head(<<"Files">>) = "Files" /\ Tail(<<"Files">>) = <<>>
      BY TailOnly
    <3>3. Head(<<"Accepted", "Files">>) = "Accepted"
      BY TailSecond
    <3>4. Tail(<<"Accepted", "Files">>) = <<"Files">>
      BY TailSecond
    <3> QED BY <2>1, <3>1, <3>2, <3>3, <3>4 DEF ReadPacket, mainVars, HandshakeTypeOK
  <2>2. CASE CancelSleep
    BY <2>2 DEF CancelSleep, mainVars, flags, netVars, HandshakeTypeOK
  <2>3. CASE ReadFails
    BY <2>3 DEF ReadFails
  <2>4. CASE EndRead
    BY <2>4 DEF EndRead
  <2> QED BY <1>5, <2>1, <2>2, <2>3, <2>4 DEF ReaderStep
<1>6. CASE ServerStep
  <2>1. CASE HandlePassword
    <3>1. Asked /\ Tail(up) = <<>> /\ Append(down, "Accepted") = <<"Accepted">>
      BY <2>1, TailOnly, AppendFirst DEF HandlePassword
    <3> QED BY <2>1, <3>1 DEF HandlePassword, Taken, mainVars, flags
  <2>2. CASE SyncDefaultFiles
    <3>1. Append(<<>>, "Files") = <<"Files">>
      BY AppendFirst
    <3>2. Append(<<"Accepted">>, "Files") = <<"Accepted", "Files">>
      <4> DEFINE S == {"Accepted", "Files"}
      <4>1. "Accepted" \in S /\ "Files" \in S
        OBVIOUS
      <4> HIDE DEF S
      <4> QED BY <4>1, AppendSecond
    <3> QED BY <2>2, <3>1, <3>2 DEF SyncDefaultFiles, mainVars, flags
  <2>3. CASE HandleStartupSync
    <3>1. Received /\ Tail(up) = <<>>
      BY <2>3, TailOnly DEF HandleStartupSync
    <3> QED BY <2>3, <3>1 DEF HandleStartupSync, Taken, mainVars, flags
  <2> QED BY <1>6, <2>1, <2>2, <2>3 DEF ServerStep
<1>7. CASE ServerHearsNothing \/ ClientHearsNothing \/ Break
  BY <1>7 DEF ServerHearsNothing, ClientHearsNothing, Break
<1>8. CASE UNCHANGED handshakeVars
  BY <1>8 DEF handshakeVars, mainVars, flags, netVars
<1> QED BY <1>1, <1>2, <1>3, <1>4, <1>5, <1>6, <1>7, <1>8 DEF HandshakeNext

\* No step takes a cause away.
LEMMA CausesStay == [HandshakeNext]_handshakeVars => causes \subseteq causes'
BY DEF HandshakeNext, handshakeVars, MainStep, EnterSleep, Wake, CheckWait, TickLost, RunOut,
   EnetConnect, Initialized, ReaderStep, ReadPacket, CancelSleep, ReadFails,
   EndRead, ServerStep, HandlePassword, SyncDefaultFiles, HandleStartupSync,
   ServerHearsNothing, ClientHearsNothing, Break

\* The invariant holds in every state of every behaviour.
LEMMA HandshakeInvariant == HandshakeSpec => []HandshakeInv
<1>1. HandshakeInv /\ [HandshakeNext]_handshakeVars => HandshakeInv'
  BY HandshakeTypeStep, AskedOnceStep, UndisturbedStep, CausesStay DEF HandshakeInv
<1> QED BY InitHandshake, <1>1, PTL DEF HandshakeSpec

\* The variables of the two threads and the connection keep their types, and no
\* more than the two answers are ever under way to the client.
THEOREM HandshakeTypeCorrect == HandshakeSpec => []HandshakeTypeOK
BY HandshakeInvariant, PTL DEF HandshakeInv

\* The client ends in one of its checks only if the server refused the password,
\* the connection broke or went silent, or a wait ran into its timeout, whatever
\* the order in which the threads reach the sleep.
THEOREM HandshakeEndsForCause == HandshakeSpec => []EndsForCause
<1>1. HandshakeInv => EndsForCause
  BY DEF HandshakeInv, Undisturbed, CancelsFit, EndsForCause
<1> QED BY HandshakeInvariant, <1>1, PTL

-----------------------------------------------------------------------------
(* The downloads                                                           *)

AnnouncedAt(i, r) == to_client[i].type = "Sync" /\ to_client[i].rsrc = r
ListedAt(i, r) == to_client[i].type = "List" /\ r \in to_client[i].names
FileAt(i, r) == to_client[i].type = "File" /\ to_client[i].rsrc = r
AskedAt(i, r) == to_server[i].rsrc = r

\* The write times in the packets of r are between those announced and those of
\* the server, and so are those of its files that are not awaited.
TimesOK(r) ==
    /\ \A f \in Files :
         /\ 2 <= time[r][f] /\ (r \notin Edited => time[r][f] = 2)
         /\ announced[r][f] <= time[r][f]
         /\ r \in resources /\ f \notin awaited[r] => disk[r][f] \in announced[r][f] .. time[r][f]
    /\ \A i \in DOMAIN to_client : AnnouncedAt(i, r) => \A f \in Files :
         IF f \in FilesOf[r] THEN to_client[i].info[f] \in 2 .. time[r][f]
                             ELSE to_client[i].info[f] = NoFile
    /\ \A i \in DOMAIN to_client : FileAt(i, r) =>
         /\ to_client[i].lwt \in announced[r][to_client[i].file] .. time[r][to_client[i].file]
         /\ 2 <= to_client[i].lwt

\* A file that comes after an announcement is not older than it says.
OrderOK(r) ==
    \A i, j \in DOMAIN to_client : i < j /\ AnnouncedAt(i, r) /\ FileAt(j, r) =>
        to_client[i].info[to_client[j].file] <= to_client[j].lwt

\* Between a list and its announcements no file is sent.
ListedBetween(i, j, r) == \E k \in DOMAIN to_client : i < k /\ k < j /\ ListedAt(k, r)
BatchOK(r) ==
    \A i, j \in DOMAIN to_client : i < j /\ AnnouncedAt(j, r) =>
        \/ ListedBetween(i, j, r)
        \/ /\ ~ FileAt(i, r)
           /\ AnnouncedAt(i, r) => to_client[i].info = to_client[j].info

\* What nobody stops is announced once.
OnceOK(r) ==
    LET queued == {i \in DOMAIN resources_to_sync : resources_to_sync[i] = r}
        synced == {i \in DOMAIN to_client : AnnouncedAt(i, r)}
    IN  r \notin Restarted =>
          /\ \A i, j \in queued : i = j
          /\ \A i, j \in synced : i = j
          /\ queued = {} \/ synced = {}
          /\ r \in resources => queued = {} /\ synced = {}
          /\ status[r] # "Running" => queued = {} /\ synced = {} /\ r \notin resources

FreshOK(r) ==
    r \notin resources =>
        /\ \A i \in DOMAIN to_client : ~ FileAt(i, r)
        /\ \A i \in DOMAIN to_server : ~ AskedAt(i, r)

\* An announcement comes after the list, and meets a resource that is being
\* downloaded, or has nothing to download.
Fits(i, r) == \A f \in Files : to_client[i].info[f] \in {NoFile, disk[r][f]}
ListedOK(r) ==
    \A i \in DOMAIN to_client : AnnouncedAt(i, r) =>
        \/ r \in downloading_resources
        \/ \E j \in DOMAIN to_client : j < i /\ ListedAt(j, r)
        \/ Fits(i, r)

\* Of what nobody edits the client awaits what it has not got.
ExactOK(r) ==
    r \in resources \ Edited => awaited[r] = {f \in FilesOf[r] : disk[r][f] # 2}
MixedOK(r) == r \in mixed => r \in Restarted /\ r \in Edited

Sent(r, f, i) ==
    \E j \in DOMAIN to_client : j < i /\ FileAt(j, r) /\ to_client[j].file = f

\* What is awaited is under way, each file before any is repeated, or is what the
\* first request asks for; the counters meet when it has come.
SentOK(r) ==
    /\ \A f \in awaited[r] : \E i \in DOMAIN to_client : FileAt(i, r) /\ to_client[i].file = f
    /\ \A i \in DOMAIN to_client : FileAt(i, r) =>
         \/ to_client[i].file \in awaited[r] /\ ~ Sent(r, to_client[i].file, i)
         \/ \A f \in awaited[r] : Sent(r, f, i)
FirstAsked(r, F) ==
    \E i \in DOMAIN to_server :
      /\ AskedAt(i, r) /\ to_server[i].files = F
      /\ \A j \in DOMAIN to_server : j < i /\ AskedAt(j, r) => to_server[j].files = {}
AskedOK(r) ==
    /\ \A i \in DOMAIN to_client : ~ FileAt(i, r)
    /\ Exists(r) => FirstAsked(r, awaited[r])
MissingOK(r) ==
    r \in resources \ mixed /\ awaited[r] # {} =>
        /\ r \in downloading_resources
        /\ Cardinality(awaited[r]) + files_downloaded[r] = files_to_download[r]
        /\ SentOK(r) \/ AskedOK(r)

RunningOK(r) == r \in running \ mixed => awaited[r] = {}

Sound(r) ==
    /\ TimesOK(r) /\ OrderOK(r) /\ BatchOK(r) /\ OnceOK(r) /\ FreshOK(r)
    /\ ListedOK(r) /\ ExactOK(r) /\ MixedOK(r) /\ MissingOK(r) /\ RunningOK(r)

DownloadInv == TypeOK /\ \A r \in Resources : Sound(r)

-----------------------------------------------------------------------------
(* Queues of the downloads                                                 *)

\* t is s and the n messages of b after it.
Longer(s, n, b, t) ==
    \E L \in Nat :
        /\ DOMAIN s = 1 .. L
        /\ DOMAIN t = 1 .. L + n
        /\ \A i \in 1 .. L : t[i] = s[i]
        /\ \A k \in 1 .. n : t[L + k] = b[k]

LEMMA ConcatLonger ==
    ASSUME NEW S, NEW s \in Seq(S), NEW n \in Nat, NEW b \in [1 .. n -> S]
    PROVE  s \o b \in Seq(S) /\ Longer(s, n, b, s \o b)
<1>1. b \in Seq(S) /\ Len(b) = n
  OBVIOUS
<1>2. s \o b \in Seq(S) /\ Len(s \o b) = Len(s) + n
  BY <1>1
<1>3. \A i \in 1 .. Len(s) : (s \o b)[i] = s[i]
  BY <1>1
<1>4. \A k \in 1 .. n : (s \o b)[Len(s) + k] = b[k]
  BY <1>1
<1>5. Len(s) \in Nat /\ DOMAIN s = 1 .. Len(s) /\ DOMAIN (s \o b) = 1 .. Len(s) + n
  BY <1>2
<1>6. QED
  BY <1>2, <1>3, <1>4, <1>5 DEF Longer

LEMMA AppendLonger ==
    ASSUME NEW S, NEW s \in Seq(S), NEW x \in S
    PROVE  Append(s, x) \in Seq(S) /\ Longer(s, 1, <<x>>, Append(s, x))
<1> DEFINE L == Len(s)
           t == Append(s, x)
           b == <<x>>
<1>1. t \in Seq(S) /\ L \in Nat /\ DOMAIN s = 1 .. L /\ DOMAIN t = 1 .. L + 1
  OBVIOUS
<1>2. (\A i \in 1 .. L : t[i] = s[i]) /\ t[L + 1] = x
  OBVIOUS
<1>3. \A k \in 1 .. 1 : k = 1 /\ b[k] = x
  OBVIOUS
<1> HIDE DEF L, t, b
<1>4. \A k \in 1 .. 1 : t[L + k] = b[k]
  BY <1>2, <1>3
<1>5. Longer(s, 1, b, t)
  BY <1>1, <1>2, <1>4 DEF Longer
<1>6. QED
  BY <1>1, <1>5 DEF t, b

\* t is s without its first message.
Shorter(s, t) ==
    \E L \in Nat :
        /\ DOMAIN s = 1 .. L + 1 /\ DOMAIN t = 1 .. L
        /\ \A i \in 1 .. L : t[i] = s[i + 1]

LEMMA TailShorter ==
    ASSUME NEW S, NEW s \in Seq(S), s # <<>>
    PROVE  /\ Tail(s) \in Seq(S) /\ Head(s) = s[1] /\ s[1] \in S
           /\ Shorter(s, Tail(s))
<1>1. Len(s) \in Nat \ {0} /\ DOMAIN s = 1 .. Len(s)
  OBVIOUS
<1>2. Tail(s) \in Seq(S) /\ DOMAIN Tail(s) = 1 .. Len(s) - 1
  OBVIOUS
<1>3. \A i \in 1 .. Len(s) - 1 : Tail(s)[i] = s[i + 1]
  OBVIOUS
<1>4. Head(s) = s[1] /\ s[1] \in S
  OBVIOUS
<1>5. Len(s) - 1 \in Nat /\ DOMAIN s = 1 .. (Len(s) - 1) + 1
  BY <1>1
<1>6. QED
  BY <1>2, <1>3, <1>4, <1>5 DEF Shorter

\* The files of a request, in some order: each of them once.
LEMMA InAnyOrder ==
    ASSUME NEW S, IsFiniteSet(S), NEW order \in SetToSeqs(S)
    PROVE  /\ Cardinality(S) \in Nat /\ order \in [1 .. Cardinality(S) -> S]
           /\ Len(order) = Cardinality(S)
           /\ \A i, j \in 1 .. Cardinality(S) : order[i] = order[j] => i = j
           /\ \A x \in S : \E i \in 1 .. Cardinality(S) : order[i] = x
<1> DEFINE n == Cardinality(S)
<1>1. n \in Nat
  BY FS_CardinalityType
<1>2. /\ order \in [1 .. n -> S]
      /\ \A i, j \in 1 .. n : i # j => order[i] # order[j]
  BY DEF SetToSeqs
<1>3. ASSUME NEW x \in S, \A i \in 1 .. n : order[i] # x PROVE FALSE
  <2>1. order \in [1 .. n -> S \ {x}]
    BY <1>2, <1>3
  <2>2. IsFiniteSet(S \ {x}) /\ Cardinality(S \ {x}) = n - 1
    BY FS_RemoveElement
  <2>3. IsFiniteSet(1 .. n) /\ Cardinality(1 .. n) = n
    BY <1>1, FS_Interval
  <2>4. n - 1 < n
    BY <1>1
  <2> HIDE DEF n
  <2>5. \E i, j \in 1 .. n : i # j /\ order[i] = order[j]
    BY <2>1, <2>2, <2>3, <2>4, FS_PigeonHole
  <2>6. QED
    BY <1>2, <2>5
<1>4. Len(order) = n
  BY <1>1, <1>2
<1>5. QED
  BY <1>1, <1>2, <1>3, <1>4

\* The places of the existing resources in the queue.
LEMMA PlacesInOrder ==
    ASSUME NEW S, NEW q \in Seq(S), NEW P \in SUBSET (DOMAIN q), NEW at \in InOrder(P)
    PROVE  /\ Cardinality(P) \in Nat /\ at \in [1 .. Cardinality(P) -> P]
           /\ \A i, j \in 1 .. Cardinality(P) : at[i] = at[j] => i = j
<1> DEFINE n == Cardinality(P)
<1>1. IsFiniteSet(DOMAIN q)
  <2>1. DOMAIN q = 1 .. Len(q) /\ Len(q) \in Nat
    OBVIOUS
  <2>2. QED
    BY <2>1, FS_Interval
<1>2. n \in Nat
  BY <1>1, FS_Subset, FS_CardinalityType
<1>3. at \in [1 .. n -> P] /\ \A j, k \in DOMAIN at : j < k => at[j] < at[k]
  BY DEF InOrder
<1>4. \A i \in 1 .. n : at[i] \in Nat
  <2>1. \A i \in DOMAIN q : i \in Nat
    OBVIOUS
  <2>2. QED
    BY <1>3, <2>1
<1> HIDE DEF n
<1>5. \A i, j \in 1 .. n : i # j => at[i] # at[j]
  <2>1. \A i, j \in 1 .. n : i # j => i < j \/ j < i
    BY <1>2
  <2>2. QED
    BY <1>3, <1>4, <2>1
<1>6. QED
  BY <1>2, <1>3, <1>5 DEF n

-----------------------------------------------------------------------------
(* Types of the downloads                                                  *)

LEMMA FilesFinite ==
    /\ FilesOf \in [Resources -> SUBSET Files]
    /\ \A S \in SUBSET Files : IsFiniteSet(S) /\ Cardinality(S) \in Nat
  BY DownloadAssumption, FS_Subset, FS_CardinalityType DEF DownloadAssumption

LEMMA MessageFields ==
    ASSUME NEW m \in Message
    PROVE  /\ m.type \in {"List", "Sync", "File"}
           /\ m.type = "List" => m.names \in SUBSET Resources
           /\ m.type = "Sync" => m.rsrc \in Resources /\ m.info \in [Files -> Nat]
           /\ m.type = "File" => m.rsrc \in Resources /\ m.file \in Files /\ m.lwt \in Nat
  BY DEF Message, Times

\* What the server sends.
LEMMA SyncSends ==
    ASSUME TypeOK, SyncPendingResources
    PROVE  LET q == resources_to_sync
               P == {i \in DOMAIN q : Exists(q[i])}
               s == Append(to_client, List(q))
           IN  \E at \in InOrder(P) :
                 LET b == [k \in 1 .. Cardinality(P) |-> Sync(q[at[k]])] IN
                 /\ Cardinality(P) \in Nat /\ at \in [1 .. Cardinality(P) -> P]
                 /\ \A i, j \in 1 .. Cardinality(P) : at[i] = at[j] => i = j
                 /\ s \in Seq(Message) /\ Longer(to_client, 1, <<List(q)>>, s)
                 /\ to_client' \in Seq(Message)
                 /\ Longer(s, Cardinality(P), b, to_client')
<1> DEFINE q == resources_to_sync
           P == {i \in DOMAIN q : Exists(q[i])}
           s == Append(to_client, List(q))
<1>1. PICK at \in InOrder(P) : to_client' = s \o [k \in DOMAIN at |-> Sync(q[at[k]])]
  BY DEF SyncPendingResources
<1>2. q \in Seq(Resources) /\ to_client \in Seq(Message)
  BY DEF TypeOK
<1>3. P \in SUBSET (DOMAIN q)
  OBVIOUS
<1>4. /\ Cardinality(P) \in Nat /\ at \in [1 .. Cardinality(P) -> P]
      /\ \A i, j \in 1 .. Cardinality(P) : at[i] = at[j] => i = j
  BY <1>2, <1>3, PlacesInOrder
<1>5. List(q) \in Message
  BY <1>2 DEF List, Message, ToSet
<1>6. s \in Seq(Message) /\ Longer(to_client, 1, <<List(q)>>, s)
  BY <1>2, <1>5, AppendLonger
<1> DEFINE b == [k \in 1 .. Cardinality(P) |-> Sync(q[at[k]])]
<1>7. \A r \in Resources : Sync(r) \in Message
  BY FilesFinite DEF Sync, FilesInfo, Message, TypeOK, NoFile, Times
<1>8. b \in [1 .. Cardinality(P) -> Message]
  <2>1. \A k \in 1 .. Cardinality(P) : q[at[k]] \in Resources
    BY <1>2, <1>4
  <2>2. QED
    BY <1>7, <2>1
<1>9. to_client' = s \o b
  BY <1>1, <1>4
<1>10. to_client' \in Seq(Message) /\ Longer(s, Cardinality(P), b, to_client')
  <2> HIDE DEF s, b
  <2>1. QED
    BY <1>4, <1>6, <1>8, <1>9, ConcatLonger
<1>11. QED
  BY <1>4, <1>6, <1>10

LEMMA AnswerSends ==
    ASSUME TypeOK, Answer
    PROVE  LET h == to_server[1] IN
           /\ h \in Request /\ to_server' \in Seq(Request) /\ Shorter(to_server, to_server')
           /\ to_client' \in Seq(Message)
           /\ \/ ~ Exists(h.rsrc) /\ to_client' = to_client
              \/ \E order \in SetToSeqs(h.files) :
                   LET n == Cardinality(h.files)
                       b == [k \in 1 .. n |-> File(h.rsrc, order[k])]
                   IN  /\ Exists(h.rsrc)
                       /\ n \in Nat /\ order \in [1 .. n -> h.files]
                       /\ \A i, j \in 1 .. n : order[i] = order[j] => i = j
                       /\ \A f \in h.files : \E i \in 1 .. n : order[i] = f
                       /\ Longer(to_client, n, b, to_client')
<1> DEFINE h == to_server[1]
<1>1. to_server \in Seq(Request) /\ to_client \in Seq(Message) /\ to_server # <<>>
  BY DEF TypeOK, Answer
<1>2. /\ h = Head(to_server) /\ h \in Request
      /\ to_server' \in Seq(Request) /\ Shorter(to_server, to_server')
  BY <1>1, TailShorter DEF Answer
<1>3. h.rsrc \in Resources /\ h.files \in SUBSET Files
  BY <1>2 DEF Request
<1>4. CASE ~ Exists(h.rsrc) /\ to_client' = to_client
  BY <1>1, <1>2, <1>4
<1>5. ASSUME NEW order \in SetToSeqs(h.files), Exists(h.rsrc),
             to_client' = to_client \o [i \in 1 .. Len(order) |-> File(h.rsrc, order[i])]
      PROVE  LET n == Cardinality(h.files)
                 b == [k \in 1 .. n |-> File(h.rsrc, order[k])]
             IN  /\ n \in Nat /\ order \in [1 .. n -> h.files]
                 /\ \A i, j \in 1 .. n : order[i] = order[j] => i = j
                 /\ \A f \in h.files : \E i \in 1 .. n : order[i] = f
                 /\ Longer(to_client, n, b, to_client')
                 /\ to_client' \in Seq(Message)
  <2> DEFINE n == Cardinality(h.files)
             b == [k \in 1 .. n |-> File(h.rsrc, order[k])]
  <2>1. /\ n \in Nat /\ order \in [1 .. n -> h.files] /\ Len(order) = n
        /\ \A i, j \in 1 .. n : order[i] = order[j] => i = j
        /\ \A f \in h.files : \E i \in 1 .. n : order[i] = f
    BY <1>3, FilesFinite, InAnyOrder
  <2>2. b \in [1 .. n -> Message]
    <3>1. \A f \in Files : File(h.rsrc, f) \in Message
      BY <1>3 DEF File, Message, TypeOK, Times
    <3>2. \A k \in 1 .. n : order[k] \in Files
      BY <1>3, <2>1
    <3> HIDE DEF h, n
    <3>3. QED
      BY <3>1, <3>2
  <2>3. to_client' = to_client \o b
    BY <1>5, <2>1
  <2> HIDE DEF h, n, b
  <2>4. to_client' \in Seq(Message) /\ Longer(to_client, n, b, to_client')
    BY <1>1, <2>1, <2>2, <2>3, ConcatLonger
  <2>5. QED
    BY <2>1, <2>4 DEF n, b
<1>6. \/ ~ Exists(h.rsrc) /\ to_client' = to_client
      \/ \E order \in SetToSeqs(h.files) :
           /\ Exists(h.rsrc)
           /\ to_client' = to_client \o [i \in 1 .. Len(order) |-> File(h.rsrc, order[i])]
  BY <1>2 DEF Answer
<1>7. CASE \E order \in SetToSeqs(h.files) :
             /\ Exists(h.rsrc)
             /\ to_client' = to_client \o [i \in 1 .. Len(order) |-> File(h.rsrc, order[i])]
  <2>1. PICK order \in SetToSeqs(h.files) :
             /\ Exists(h.rsrc)
             /\ to_client' = to_client \o [i \in 1 .. Len(order) |-> File(h.rsrc, order[i])]
    BY <1>7
  <2> HIDE DEF h
  <2>2. QED
    BY <1>2, <1>5, <2>1 DEF h
<1>8. QED
  BY <1>4, <1>6, <1>7

\* The packet that is handled, and the queue behind it.
LEMMA HeadHandled ==
    ASSUME TypeOK, HandleMessage
    PROVE  LET m == to_client[1] IN
           /\ to_client # <<>> /\ 1 \in DOMAIN to_client /\ m \in Message
           /\ HandleList(m) \/ HandleSync(m) \/ HandleFile(m)
           /\ to_client' \in Seq(Message) /\ Shorter(to_client, to_client')
           /\ UNCHANGED <<serverVars, stops>>
<1>1. to_client \in Seq(Message) /\ to_client # <<>>
  BY DEF TypeOK, HandleMessage
<1>2. /\ to_client' \in Seq(Message) /\ Head(to_client) = to_client[1]
      /\ to_client[1] \in Message /\ Shorter(to_client, to_client')
  BY <1>1, TailShorter DEF HandleMessage
<1>3. 1 \in DOMAIN to_client
  BY <1>2 DEF Shorter
<1>4. QED
  BY <1>1, <1>2, <1>3 DEF HandleMessage

LEMMA RequestFiles ==
    ASSUME TypeOK, NEW m \in Message, m.type = "Sync"
    PROVE  /\ FilesToRequest(m) \in SUBSET Files
           /\ Target(m) \in Nat
           /\ Kept(m) \in [Files -> Nat]
           /\ [rsrc |-> m.rsrc, files |-> FilesToRequest(m)] \in Request
<1>1. m.rsrc \in Resources /\ m.info \in [Files -> Nat]
  BY MessageFields
<1>2. FilesToRequest(m) \in SUBSET Files
  BY <1>1, FilesFinite DEF FilesToRequest, OutdatedOrNew
<1>3. Kept(m) \in [Files -> Nat]
  BY <1>1 DEF Kept, NoFile, TypeOK, Times
<1>4. QED
  BY <1>1, <1>2, <1>3, FilesFinite DEF Target, Request

LEMMA DownloadTypeStep == TypeOK /\ [Next]_vars => TypeOK'
<1> SUFFICES ASSUME TypeOK, [Next]_vars PROVE TypeOK'
  OBVIOUS
<1> USE DEF serverVars, clientVars, Times
<1>1. ASSUME NEW r \in Resources, StartResource(r) PROVE TypeOK'
  BY <1>1 DEF TypeOK, StartResource
<1>2. ASSUME NEW r \in Resources, StopResource(r) PROVE TypeOK'
  BY <1>2, DownloadAssumption DEF TypeOK, StopResource, DownloadAssumption
<1>3. ASSUME NEW r \in Resources, RefreshAway(r) PROVE TypeOK'
  BY <1>3 DEF TypeOK, RefreshAway
<1>4. ASSUME NEW r \in Resources, NEW f \in Files, EditFile(r, f) PROVE TypeOK'
  BY <1>4, SMTT(30) DEF TypeOK, EditFile
<1>5. CASE SyncPendingResources
  <2>1. to_client' \in Seq(Message)
    BY <1>5, SyncSends
  <2>2. QED
    BY <1>5, <2>1 DEF TypeOK, SyncPendingResources
<1>6. CASE Answer
  <2>1. to_client' \in Seq(Message) /\ to_server' \in Seq(Request)
    BY <1>6, AnswerSends
  <2>2. QED
    BY <1>6, <2>1 DEF TypeOK, Answer
<1>7. CASE HandleMessage
  <2> DEFINE m == to_client[1]
  <2>1. /\ m \in Message
        /\ HandleList(m) \/ HandleSync(m) \/ HandleFile(m)
        /\ to_client' \in Seq(Message) /\ UNCHANGED <<serverVars, stops>>
    BY <1>7, HeadHandled
  <2> HIDE DEF m
  <2>2. CASE HandleList(m)
    BY <2>1, <2>2, MessageFields DEF HandleList, TypeOK
  <2>3. CASE HandleSync(m)
    <3>1. m.type = "Sync" /\ m.rsrc \in Resources /\ m.info \in [Files -> Nat]
      BY <2>1, <2>3, MessageFields DEF HandleSync
    <3>2. /\ Target(m) \in Nat /\ Kept(m) \in [Files -> Nat]
          /\ [rsrc |-> m.rsrc, files |-> FilesToRequest(m)] \in Request
      BY <2>1, <3>1, RequestFiles
    <3>3. /\ resources' = resources \union {m.rsrc}
          /\ running' \in SUBSET resources'
          /\ startup_all_resources_synced' \in BOOLEAN
      BY <2>3, <3>1 DEF HandleSync, EndDownload, StartIf, TypeOK
    <3>4. to_server' \in Seq(Request)
      <4>1. /\ to_server \in Seq(Request)
            /\ \/ to_server' = to_server
               \/ to_server' = Append(to_server, [rsrc |-> m.rsrc, files |-> FilesToRequest(m)])
        BY <2>3 DEF HandleSync, TypeOK
      <4>2. QED
        BY <3>2, <4>1, AppendLonger
    <3>5. up_to_date' \in SUBSET resources' /\ downloading_resources' \in SUBSET Resources
      BY <2>3, <3>1 DEF HandleSync, TypeOK
    <3>6. /\ announced' \in [Resources -> [Files -> Nat]]
          /\ disk' \in [Resources -> [Files -> Nat]]
          /\ files_downloaded' \in [Resources -> Nat]
          /\ files_to_download' \in [Resources -> Nat]
      BY <2>3, <3>1, <3>2 DEF HandleSync, TypeOK
    <3>7. awaited' \in [Resources -> SUBSET Files] /\ mixed' \in SUBSET Resources
      BY <2>1, <2>3, <3>1, RequestFiles DEF HandleSync, Mixed, TypeOK
    <3>8. QED
      BY <2>1, <3>1, <3>3, <3>4, <3>5, <3>6, <3>7 DEF TypeOK
  <2>4. CASE HandleFile(m)
    <3>1. m.rsrc \in Resources /\ m.file \in Files /\ m.lwt \in Nat
      BY <2>1, <2>4, MessageFields DEF HandleFile
    <3>2. /\ resources' = resources \union {m.rsrc}
          /\ running' \in SUBSET resources'
          /\ startup_all_resources_synced' \in BOOLEAN
      BY <2>4, <3>1 DEF HandleFile, EndDownload, StartIf, TypeOK
    <3>3. /\ disk' \in [Resources -> [Files -> Nat]]
          /\ files_downloaded' \in [Resources -> Nat]
          /\ downloading_resources' \in SUBSET Resources
      BY <2>4, <3>1, SMTT(30) DEF HandleFile, TypeOK
    <3>4. awaited' \in [Resources -> SUBSET Files] /\ mixed' \in SUBSET Resources
      <4>1. awaited' = [awaited EXCEPT ![m.rsrc] = @ \ {m.file}] /\ mixed' = mixed
        BY <2>4 DEF HandleFile
      <4>2. awaited \in [Resources -> SUBSET Files] /\ mixed \in SUBSET Resources
        BY DEF TypeOK
      <4>3. QED
        BY <3>1, <4>1, <4>2
    <3>5. QED
      BY <2>1, <2>4, <3>1, <3>2, <3>3, <3>4 DEF TypeOK, HandleFile
  <2>5. QED
    BY <2>1, <2>2, <2>3, <2>4
<1>8. CASE HandleStop
  BY <1>8 DEF TypeOK, HandleStop
<1>9. CASE UNCHANGED vars
  BY <1>9 DEF TypeOK, vars
<1>10. QED
  BY <1>1, <1>2, <1>3, <1>4, <1>5, <1>6, <1>7, <1>8, <1>9 DEF Next

LEMMA DownloadTypeInit == Init => TypeOK
<1> SUFFICES ASSUME Init PROVE TypeOK
  OBVIOUS
<1>1. CachedTimes \subseteq Nat /\ MaxStops \in Nat /\ IsFiniteSet(Resources)
  BY DownloadAssumption DEF DownloadAssumption
<1>2. resources_to_sync \in Seq(Resources)
  <2> DEFINE S == {r \in Resources : status[r] = "Running"}
             n == Cardinality(S)
  <2>1. n \in Nat
    <3>1. S \in SUBSET Resources
      OBVIOUS
    <3>2. IsFiniteSet(S)
      BY <1>1, <3>1, FS_Subset
    <3>3. QED
      BY <3>2, FS_CardinalityType
  <2>2. resources_to_sync \in [1 .. n -> S]
    BY DEF Init, SetToSeqs
  <2> HIDE DEF n
  <2>3. QED
    BY <2>1, <2>2
<1>3. disk \in [Resources -> [Files -> Nat]]
  BY <1>1 DEF Init
<1>4. /\ status \in [Resources -> {"Running", "Stopped", "Absent"}]
      /\ stops_made \in 0 .. MaxStops
  BY <1>1 DEF Init
<1>5. to_client \in Seq(Message) /\ to_server \in Seq(Request) /\ stops \in Seq(Resources)
  BY DEF Init
<1>6. /\ time \in [Resources -> [Files -> Nat]]
      /\ announced \in [Resources -> [Files -> Nat]]
      /\ files_to_download \in [Resources -> Nat]
      /\ files_downloaded \in [Resources -> Nat]
  BY DEF Init, NoTimes, NoFile
<1>7. /\ resources \subseteq Resources /\ running \subseteq resources
      /\ up_to_date \subseteq resources /\ downloading_resources \subseteq Resources
      /\ startup_all_resources_synced \in BOOLEAN
      /\ awaited \in [Resources -> SUBSET Files] /\ mixed \subseteq Resources
  BY DEF Init
<1>8. QED
  BY <1>2, <1>3, <1>4, <1>5, <1>6, <1>7 DEF TypeOK, Times

-----------------------------------------------------------------------------
(* Steps of the downloads                                                  *)

\* Steps that send and read nothing.
LEMMA QuietKeeps ==
    ASSUME TypeOK, TypeOK', NEW r \in Resources, Sound(r),
           UNCHANGED <<to_client, to_server, resources, disk, announced, awaited, mixed,
                       files_to_download, files_downloaded, downloading_resources>>,
           r \in running' => r \in running,
           \A f \in Files : time'[r][f] >= time[r][f],
           r \notin Edited => time'[r] = time[r],
           OnceOK(r)', Exists(r)' => Exists(r)
    PROVE  Sound(r)'
<1> USE DEF Sound
<1>1. TimesOK(r)'
  <2>1. \A f \in Files :
          time[r][f] \in Nat /\ time'[r][f] \in Nat /\ announced[r][f] \in Nat /\ disk[r][f] \in Nat
    BY DEF TypeOK, Times
  <2>2. \A i \in DOMAIN to_client : FileAt(i, r) =>
          to_client[i].file \in Files /\ to_client[i].lwt \in Nat
    <3>1. to_client \in Seq(Message)
      BY DEF TypeOK
    <3>2. \A i \in DOMAIN to_client : to_client[i] \in Message
      BY <3>1
    <3>3. QED
      BY <3>2, MessageFields DEF FileAt
  <2>3. \A f \in Files :
          /\ 2 <= time'[r][f] /\ (r \notin Edited => time'[r][f] = 2)
          /\ announced[r][f] <= time'[r][f]
          /\ r \in resources /\ f \notin awaited[r] => disk[r][f] \in announced[r][f] .. time'[r][f]
    BY <2>1 DEF TimesOK
  <2>4. ASSUME NEW i \in DOMAIN to_client, AnnouncedAt(i, r), NEW f \in Files
        PROVE  IF f \in FilesOf[r] THEN to_client[i].info[f] \in 2 .. time'[r][f]
                                   ELSE to_client[i].info[f] = NoFile
    BY <2>1, <2>4 DEF TimesOK
  <2>5. ASSUME NEW i \in DOMAIN to_client, FileAt(i, r)
        PROVE  /\ to_client[i].lwt \in
                    announced[r][to_client[i].file] .. time'[r][to_client[i].file]
               /\ 2 <= to_client[i].lwt
    BY <2>1, <2>2, <2>5 DEF TimesOK
  <2>6. QED
    BY <2>3, <2>4, <2>5 DEF TimesOK, AnnouncedAt, FileAt
<1>2. OrderOK(r)' /\ BatchOK(r)'
  BY DEF OrderOK, BatchOK, ListedBetween, AnnouncedAt, FileAt, ListedAt
<1>3. FreshOK(r)' /\ ExactOK(r)' /\ MixedOK(r)' /\ RunningOK(r)'
  BY DEF FreshOK, ExactOK, MixedOK, RunningOK, FileAt, AskedAt
<1>4. ListedOK(r)'
  BY DEF ListedOK, Fits, AnnouncedAt, ListedAt
<1>5. MissingOK(r)'
  <2>1. SentOK(r)' <=> SentOK(r)
    BY DEF SentOK, FileAt, Sent
  <2>2. AskedOK(r) => AskedOK(r)'
    BY DEF AskedOK, FirstAsked, FileAt, AskedAt
  <2>3. QED
    BY <2>1, <2>2 DEF MissingOK
<1>6. QED
  BY <1>1, <1>2, <1>3, <1>4, <1>5

LEMMA StartKeeps ==
    ASSUME TypeOK, TypeOK', NEW x \in Resources, StartResource(x), NEW r \in Resources, Sound(r)
    PROVE  Sound(r)'
<1>1. /\ status[x] = "Stopped" /\ status' = [status EXCEPT ![x] = "Running"]
      /\ resources_to_sync' = Append(resources_to_sync, x)
      /\ UNCHANGED <<time, to_client, to_server, stops, clientVars>>
  BY DEF StartResource
<1>2. /\ resources_to_sync \in Seq(Resources) /\ r \in Resources
      /\ status \in [Resources -> {"Running", "Stopped", "Absent"}]
  BY DEF TypeOK
<1>3. Longer(resources_to_sync, 1, <<x>>, resources_to_sync')
  BY <1>1, <1>2, AppendLonger
<1>4. OnceOK(r)'
  <2>1. PICK L \in Nat :
          /\ DOMAIN resources_to_sync = 1 .. L /\ DOMAIN resources_to_sync' = 1 .. L + 1
          /\ \A i \in 1 .. L : resources_to_sync'[i] = resources_to_sync[i]
          /\ resources_to_sync'[L + 1] = x
    <3>1. 1 \in 1 .. 1 /\ <<x>>[1] = x
      OBVIOUS
    <3>2. QED
      BY <1>3, <3>1 DEF Longer
  <2>2. CASE r # x
    <3>1. /\ \A i \in DOMAIN resources_to_sync' : resources_to_sync'[i] = r =>
               i \in DOMAIN resources_to_sync /\ resources_to_sync[i] = r
          /\ status'[r] = status[r]
      BY <1>1, <1>2, <2>1, <2>2
    <3>2. QED
      BY <1>1, <3>1 DEF Sound, OnceOK, AnnouncedAt, clientVars
  <2>3. CASE r = x
    <3>1. r \notin Restarted =>
            /\ \A i \in DOMAIN resources_to_sync : resources_to_sync[i] # r
            /\ \A i \in DOMAIN to_client : ~ AnnouncedAt(i, r)
            /\ r \notin resources
      BY <1>1, <2>3 DEF Sound, OnceOK
    <3>2. status'[r] = "Running"
      BY <1>1, <1>2, <2>3
    <3>3. r \notin Restarted =>
            \A i \in DOMAIN resources_to_sync' : resources_to_sync'[i] = r => i = L + 1
      BY <2>1, <3>1
    <3>4. QED
      BY <1>1, <3>1, <3>2, <3>3 DEF OnceOK, AnnouncedAt, clientVars
  <2>4. QED
    BY <2>2, <2>3
<1>5. Exists(r)' => Exists(r)
  BY <1>1, <1>2 DEF Exists
<1>6. \A f \in Files : time'[r][f] >= time[r][f]
  BY <1>1, <1>2, SMTT(30) DEF TypeOK, Times
<1>7. QED
  BY <1>1, <1>4, <1>5, <1>6, QuietKeeps DEF clientVars

LEMMA StopRefreshKeeps ==
    ASSUME TypeOK, TypeOK', NEW x \in Resources, StopResource(x) \/ RefreshAway(x),
           NEW r \in Resources, Sound(r)
    PROVE  Sound(r)'
<1>1. /\ UNCHANGED <<time, resources_to_sync, to_client, to_server, clientVars>>
      /\ r \in Resources
  BY DEF StopResource, RefreshAway
<1>2. /\ Exists(r)' => Exists(r)
      /\ status'[r] # status[r] => r \in Restarted \/ status[r] # "Running"
  <2>1. status \in [Resources -> {"Running", "Stopped", "Absent"}]
    BY DEF TypeOK
  <2>2. CASE StopResource(x)
    BY <2>1, <2>2 DEF StopResource, Exists
  <2>3. CASE RefreshAway(x)
    BY <2>1, <2>3 DEF RefreshAway, Exists
  <2> QED BY <2>2, <2>3
<1>3. OnceOK(r)'
  BY <1>1, <1>2 DEF Sound, OnceOK, AnnouncedAt, clientVars
<1>4. \A f \in Files : time'[r][f] >= time[r][f]
  BY <1>1 DEF TypeOK, Times
<1>5. QED
  BY <1>1, <1>2, <1>3, <1>4, QuietKeeps DEF clientVars

LEMMA EditKeeps ==
    ASSUME TypeOK, TypeOK', NEW x \in Resources, NEW g \in Files, EditFile(x, g),
           NEW r \in Resources, Sound(r)
    PROVE  Sound(r)'
<1>1. /\ x \in Edited /\ time' = [time EXCEPT ![x][g] = @ + 1]
      /\ UNCHANGED <<status, resources_to_sync, to_client, to_server, clientVars>>
      /\ r \in Resources
  BY DEF EditFile
<1>2. OnceOK(r)' /\ (Exists(r)' => Exists(r))
  BY <1>1 DEF Sound, OnceOK, AnnouncedAt, Exists, clientVars
<1>3. /\ \A f \in Files : time'[r][f] >= time[r][f]
      /\ r \notin Edited => time'[r] = time[r]
  <2>1. time \in [Resources -> [Files -> Nat]]
    BY DEF TypeOK, Times
  <2>2. \A f \in Files : time'[r][f] = IF r = x /\ f = g THEN time[r][f] + 1 ELSE time[r][f]
    BY <1>1, <2>1
  <2>3. r # x => time'[r] = time[r]
    BY <1>1, <2>1
  <2>4. \A f \in Files : time[r][f] \in Nat
    BY <1>1, <2>1
  <2>5. QED
    BY <1>1, <2>2, <2>3, <2>4
<1>4. QED
  BY <1>1, <1>2, <1>3, QuietKeeps DEF clientVars

LEMMA StopHandledKeeps ==
    ASSUME TypeOK, TypeOK', HandleStop, NEW r \in Resources, Sound(r)
    PROVE  Sound(r)'
<1>1. /\ UNCHANGED <<serverVars, to_client, to_server, resources, files_to_download,
                     files_downloaded, downloading_resources, disk, announced, awaited,
                     mixed>>
      /\ r \in Resources /\ (r \in running' => r \in running)
  BY DEF HandleStop
<1>2. OnceOK(r)' /\ (Exists(r)' => Exists(r))
  BY <1>1 DEF Sound, OnceOK, AnnouncedAt, Exists, serverVars
<1>3. \A f \in Files : time'[r][f] >= time[r][f]
  BY <1>1 DEF TypeOK, Times, serverVars
<1>4. QED
  BY <1>1, <1>2, <1>3, QuietKeeps DEF serverVars

\* Where the announcements come to stand, behind what is under way.
LEMMA SyncQueue ==
    ASSUME TypeOK, SyncPendingResources
    PROVE  LET q == resources_to_sync IN
           \E L, n \in Nat : \E at \in [1 .. n -> DOMAIN q] :
             /\ DOMAIN to_client = 1 .. L /\ DOMAIN to_client' = 1 .. L + 1 + n
             /\ \A i \in 1 .. L : to_client'[i] = to_client[i]
             /\ to_client'[L + 1] = List(q)
             /\ \A k \in 1 .. n :
                  Exists(q[at[k]]) /\ to_client'[L + 1 + k] = Sync(q[at[k]])
             /\ \A j, k \in 1 .. n : at[j] = at[k] => j = k
<1> DEFINE q == resources_to_sync
           P == {i \in DOMAIN q : Exists(q[i])}
           n == Cardinality(P)
           s == Append(to_client, List(q))
<1>1. PICK at \in InOrder(P) :
        /\ n \in Nat /\ at \in [1 .. n -> P]
        /\ \A i, j \in 1 .. n : at[i] = at[j] => i = j
        /\ Longer(to_client, 1, <<List(q)>>, s)
        /\ Longer(s, n, [k \in 1 .. n |-> Sync(q[at[k]])], to_client')
  BY SyncSends
<1>2. \A k \in 1 .. n : at[k] \in DOMAIN q /\ Exists(q[at[k]])
  BY <1>1
<1>3. at \in [1 .. n -> DOMAIN q]
  BY <1>1
<1> HIDE DEF s, P
<1>4. PICK L \in Nat :
        /\ DOMAIN to_client = 1 .. L /\ DOMAIN s = 1 .. L + 1
        /\ \A i \in 1 .. L : s[i] = to_client[i]
        /\ \A k \in 1 .. 1 : s[L + k] = <<List(q)>>[k]
  BY <1>1 DEF Longer
<1>5. s[L + 1] = List(q)
  <2>1. 1 \in 1 .. 1 /\ <<List(q)>>[1] = List(q)
    OBVIOUS
  <2> HIDE DEF q
  <2>2. QED
    BY <1>4, <2>1
<1> DEFINE b == [k \in 1 .. n |-> Sync(q[at[k]])]
<1>6. \A k \in 1 .. n : b[k] = Sync(q[at[k]])
  OBVIOUS
<1> HIDE DEF n, q, b
<1>7. PICK M \in Nat :
        /\ DOMAIN s = 1 .. M /\ DOMAIN to_client' = 1 .. M + n
        /\ \A i \in 1 .. M : to_client'[i] = s[i]
        /\ \A k \in 1 .. n : to_client'[M + k] = b[k]
  BY <1>1 DEF Longer, b
<1>8. M = L + 1
  BY <1>4, <1>7
<1>9. \A i \in 1 .. L : to_client'[i] = to_client[i]
  BY <1>4, <1>7, <1>8
<1>10. to_client'[L + 1] = List(q)
  BY <1>5, <1>7, <1>8
<1>11. \A k \in 1 .. n : to_client'[L + 1 + k] = Sync(q[at[k]])
  BY <1>6, <1>7, <1>8
<1>12. DOMAIN to_client' = 1 .. L + 1 + n
  BY <1>7, <1>8
<1>13. QED
  BY <1>1, <1>2, <1>3, <1>4, <1>9, <1>10, <1>11, <1>12, SMTT(30) DEF q

LEMMA SyncKeeps ==
    ASSUME TypeOK, TypeOK', SyncPendingResources, NEW r \in Resources, Sound(r)
    PROVE  Sound(r)'
<1> DEFINE q == resources_to_sync
<1>1. /\ UNCHANGED <<status, time, to_server, clientVars>> /\ resources_to_sync' = <<>>
      /\ r \in Resources /\ q \in Seq(Resources)
  BY DEF SyncPendingResources, TypeOK
<1>0. PICK L \in Nat, n \in Nat : \E at \in [1 .. n -> DOMAIN q] :
        /\ DOMAIN to_client = 1 .. L /\ DOMAIN to_client' = 1 .. L + 1 + n
        /\ \A i \in 1 .. L : to_client'[i] = to_client[i]
        /\ to_client'[L + 1] = List(q)
        /\ \A k \in 1 .. n :
             Exists(q[at[k]]) /\ to_client'[L + 1 + k] = Sync(q[at[k]])
        /\ \A j, k \in 1 .. n : at[j] = at[k] => j = k
  BY SyncQueue
<1>2. PICK at \in [1 .. n -> DOMAIN q] :
        /\ DOMAIN to_client = 1 .. L /\ DOMAIN to_client' = 1 .. L + 1 + n
        /\ \A i \in 1 .. L : to_client'[i] = to_client[i]
        /\ to_client'[L + 1] = List(q)
        /\ \A k \in 1 .. n :
             Exists(q[at[k]]) /\ to_client'[L + 1 + k] = Sync(q[at[k]])
        /\ \A j, k \in 1 .. n : at[j] = at[k] => j = k
  BY <1>0
<1>3. \A i \in DOMAIN to_client' : i \in 1 .. L \/ i = L + 1 \/ \E k \in 1 .. n : i = L + 1 + k
  <2>1. ASSUME NEW i \in DOMAIN to_client', i \notin 1 .. L, i # L + 1
        PROVE  \E k \in 1 .. n : i = L + 1 + k
    <3>1. i - L - 1 \in 1 .. n /\ i = L + 1 + (i - L - 1)
      BY <1>2, <2>1, SMTT(30)
    <3>2. QED
      BY <3>1
  <2>2. QED
    BY <2>1
<1>4. \A k \in 1 .. n : at[k] \in DOMAIN q
  BY <1>2
<1> HIDE DEF q
<1>5. \A i \in 1 .. L : /\ i \in DOMAIN to_client
                        /\ (AnnouncedAt(i, r)' <=> AnnouncedAt(i, r))
                        /\ (FileAt(i, r)' <=> FileAt(i, r))
                        /\ (ListedAt(i, r)' <=> ListedAt(i, r))
  BY <1>2 DEF AnnouncedAt, FileAt, ListedAt
<1>6. ~ AnnouncedAt(L + 1, r)' /\ ~ FileAt(L + 1, r)'
  BY <1>2 DEF AnnouncedAt, FileAt, List
<1>7. \A k \in 1 .. n : ~ FileAt(L + 1 + k, r)' /\ (AnnouncedAt(L + 1 + k, r)' <=> q[at[k]] = r)
  <2>1. SUFFICES ASSUME NEW k \in 1 .. n
                 PROVE  /\ ~ FileAt(L + 1 + k, r)'
                        /\ AnnouncedAt(L + 1 + k, r)' <=> q[at[k]] = r
    OBVIOUS
  <2>2. to_client'[L + 1 + k] = Sync(q[at[k]])
    BY <1>2
  <2>3. Sync(q[at[k]]).type = "Sync" /\ Sync(q[at[k]]).rsrc = q[at[k]]
    BY DEF Sync
  <2>4. QED
    BY <2>2, <2>3 DEF AnnouncedAt, FileAt
<1>8. \A i \in DOMAIN to_client' :
        /\ FileAt(i, r)' => i \in 1 .. L /\ FileAt(i, r)
        /\ AnnouncedAt(i, r)' => \/ i \in 1 .. L /\ AnnouncedAt(i, r)
                                 \/ \E k \in 1 .. n : i = L + 1 + k /\ q[at[k]] = r
  <2>1. SUFFICES ASSUME NEW i \in DOMAIN to_client'
                 PROVE  /\ FileAt(i, r)' => i \in 1 .. L /\ FileAt(i, r)
                        /\ AnnouncedAt(i, r)' => \/ i \in 1 .. L /\ AnnouncedAt(i, r)
                                                 \/ \E k \in 1 .. n : i = L + 1 + k /\ q[at[k]] = r
    OBVIOUS
  <2>2. CASE i \in 1 .. L
    BY <1>5, <2>2
  <2>3. CASE i = L + 1
    BY <1>6, <2>3
  <2>4. ASSUME NEW k \in 1 .. n, i = L + 1 + k
        PROVE  ~ FileAt(i, r)' /\ (AnnouncedAt(i, r)' => q[at[k]] = r)
    BY <1>7, <2>4
  <2>5. QED
    BY <1>3, <2>2, <2>3, <2>4
<1>9. 1 .. L \subseteq DOMAIN to_client' /\ L + 1 \in DOMAIN to_client'
  BY <1>2
<1>10. awaited'[r] = awaited[r]
  BY <1>1 DEF clientVars
<1>11. TimesOK(r)'
  <2>1. TimesOK(r)
    BY DEF Sound
  <2>2. ASSUME NEW i \in DOMAIN to_client', AnnouncedAt(i, r)', NEW f \in Files
        PROVE  IF f \in FilesOf[r] THEN to_client'[i].info[f] \in 2 .. time[r][f]
                                   ELSE to_client'[i].info[f] = NoFile
    <3>1. CASE i \in 1 .. L /\ AnnouncedAt(i, r)
      BY <1>2, <2>1, <3>1 DEF TimesOK
    <3>2. ASSUME NEW k \in 1 .. n, i = L + 1 + k, q[at[k]] = r
          PROVE  IF f \in FilesOf[r] THEN to_client'[i].info[f] \in 2 .. time[r][f]
                                     ELSE to_client'[i].info[f] = NoFile
      <4>1. to_client'[i].info[f] = IF f \in FilesOf[r] THEN time[r][f] ELSE NoFile
        <5>1. to_client'[i] = Sync(r)
          BY <1>2, <3>2
        <5>2. QED
          BY <5>1 DEF Sync, FilesInfo
      <4>2. 2 <= time[r][f] /\ time[r][f] \in Nat
        BY <1>1, <2>1 DEF TimesOK, TypeOK, Times
      <4>3. QED
        BY <4>1, <4>2
    <3>3. QED
      BY <1>8, <2>2, <3>1, <3>2
  <2>3. ASSUME NEW i \in DOMAIN to_client', FileAt(i, r)'
        PROVE  /\ to_client'[i].lwt \in
                    announced[r][to_client'[i].file] .. time[r][to_client'[i].file]
               /\ 2 <= to_client'[i].lwt
    BY <1>2, <1>8, <2>1, <2>3 DEF TimesOK
  <2>4. QED
    BY <1>1, <2>1, <2>2, <2>3 DEF TimesOK, clientVars
<1>12. OnceOK(r)'
  <2>1. SUFFICES ASSUME r \notin Restarted
                 PROVE  /\ \A i, j \in DOMAIN to_client' :
                             AnnouncedAt(i, r)' /\ AnnouncedAt(j, r)' => i = j
                        /\ r \in resources \/ status[r] # "Running" =>
                             \A i \in DOMAIN to_client' : ~ AnnouncedAt(i, r)'
    BY <1>1 DEF OnceOK, Sound, clientVars
  <2>2. /\ \A i, j \in DOMAIN q : q[i] = r /\ q[j] = r => i = j
        /\ \A i, j \in DOMAIN to_client : AnnouncedAt(i, r) /\ AnnouncedAt(j, r) => i = j
        /\ \A i \in DOMAIN q, j \in DOMAIN to_client : ~ (q[i] = r /\ AnnouncedAt(j, r))
        /\ r \in resources \/ status[r] # "Running" =>
             /\ \A i \in DOMAIN q : q[i] # r
             /\ \A i \in DOMAIN to_client : ~ AnnouncedAt(i, r)
    BY <2>1 DEF Sound, OnceOK, q
  <2>3. \A j, k \in 1 .. n : q[at[j]] = r /\ q[at[k]] = r => j = k
    BY <1>2, <1>4, <2>2
  <2>4. QED
    BY <1>4, <1>5, <1>8, <2>2, <2>3
<1>13. FreshOK(r)'
  BY <1>1, <1>5, <1>8 DEF Sound, FreshOK, AskedAt, clientVars
<1>14. ListedOK(r)'
  <2>1. SUFFICES ASSUME NEW i \in DOMAIN to_client', AnnouncedAt(i, r)'
                 PROVE  \/ r \in downloading_resources
                        \/ \E j \in DOMAIN to_client' : j < i /\ ListedAt(j, r)'
                        \/ \A f \in Files : to_client'[i].info[f] \in {NoFile, disk[r][f]}
    BY <1>1 DEF ListedOK, Fits, clientVars
  <2>2. CASE i \in 1 .. L /\ AnnouncedAt(i, r)
    <3>1. \/ r \in downloading_resources
          \/ \E j \in 1 .. L : j < i /\ ListedAt(j, r)
          \/ \A f \in Files : to_client[i].info[f] \in {NoFile, disk[r][f]}
      BY <1>2, <1>5, <2>2 DEF Sound, ListedOK, Fits
    <3>2. QED
      BY <1>2, <1>5, <1>9, <2>2, <3>1
  <2>3. ASSUME NEW k \in 1 .. n, i = L + 1 + k, q[at[k]] = r
        PROVE  \E j \in DOMAIN to_client' : j < i /\ ListedAt(j, r)'
    <3>1. r \in ToSet(q)
      BY <1>4, <2>3 DEF ToSet
    <3>2. ListedAt(L + 1, r)'
      BY <1>2, <3>1 DEF ListedAt, List
    <3>3. L + 1 < i
      BY <2>3
    <3>4. QED
      BY <1>9, <3>2, <3>3
  <2>4. QED
    BY <1>8, <2>1, <2>2, <2>3
<1>15. MissingOK(r)' /\ RunningOK(r)'
  <2>1. ASSUME SentOK(r) PROVE SentOK(r)'
    <3>1. \A f, i : i \in 1 .. L => (Sent(r, f, i)' <=> Sent(r, f, i))
      <4>1. SUFFICES ASSUME NEW f, NEW i \in 1 .. L PROVE Sent(r, f, i)' <=> Sent(r, f, i)
        OBVIOUS
      <4>2. \A j \in DOMAIN to_client' : j < i => j \in 1 .. L
        BY <1>2
      <4>3. \A j \in 1 .. L : to_client'[j] = to_client[j] /\ (FileAt(j, r)' <=> FileAt(j, r))
        BY <1>2, <1>5
      <4>4. QED
        BY <1>2, <1>9, <4>2, <4>3 DEF Sent
    <3>2. \A f \in awaited[r] : \E i \in 1 .. L : FileAt(i, r) /\ to_client[i].file = f
      BY <1>2, <2>1 DEF SentOK
    <3>3. \A f \in awaited[r] : \E i \in DOMAIN to_client' : FileAt(i, r)' /\ to_client'[i].file = f
      BY <1>2, <1>5, <1>9, <3>2
    <3>4. \A i \in DOMAIN to_client' : FileAt(i, r)' =>
            \/ to_client'[i].file \in awaited[r] /\ ~ Sent(r, to_client[i].file, i)'
            \/ \A f \in awaited[r] : Sent(r, f, i)'
      <4>1. SUFFICES ASSUME NEW i \in DOMAIN to_client', FileAt(i, r)'
                     PROVE  \/ to_client'[i].file \in awaited[r] /\ ~ Sent(r, to_client[i].file, i)'
                            \/ \A f \in awaited[r] : Sent(r, f, i)'
        OBVIOUS
      <4>2. i \in 1 .. L /\ i \in DOMAIN to_client /\ FileAt(i, r) /\ to_client'[i] = to_client[i]
        BY <1>2, <1>5, <1>8, <4>1
      <4>3. \A f : Sent(r, f, i)' <=> Sent(r, f, i)
        BY <3>1, <4>2
      <4>4. QED
        BY <2>1, <4>2, <4>3 DEF SentOK
    <3>5. QED
      BY <1>10, <3>3, <3>4 DEF SentOK
  <2>2. ASSUME AskedOK(r) PROVE AskedOK(r)'
    BY <1>1, <1>5, <1>8, <1>10, <2>2 DEF AskedOK, FirstAsked, AskedAt, Exists
  <2>3. QED
    BY <1>1, <1>10, <2>1, <2>2 DEF Sound, MissingOK, RunningOK, clientVars
<1>16. OrderOK(r)'
  <2>1. SUFFICES ASSUME NEW i \in DOMAIN to_client', NEW j \in DOMAIN to_client', i < j,
                        AnnouncedAt(i, r)', FileAt(j, r)'
                 PROVE  to_client'[i].info[to_client'[j].file] <= to_client'[j].lwt
    BY DEF OrderOK
  <2>2. j \in 1 .. L /\ FileAt(j, r)
    BY <1>8, <2>1
  <2>3. i \in 1 .. L
    BY <1>2, <2>1, <2>2
  <2>4. AnnouncedAt(i, r) /\ to_client'[i] = to_client[i] /\ to_client'[j] = to_client[j]
    BY <1>2, <1>5, <2>1, <2>2, <2>3
  <2>5. QED
    BY <1>5, <2>1, <2>2, <2>3, <2>4 DEF Sound, OrderOK
<1>17. BatchOK(r)'
  <2>1. SUFFICES ASSUME NEW i \in DOMAIN to_client', NEW j \in DOMAIN to_client', i < j,
                        AnnouncedAt(j, r)'
                 PROVE  \/ ListedBetween(i, j, r)'
                        \/ /\ ~ FileAt(i, r)'
                           /\ AnnouncedAt(i, r)' => to_client'[i].info = to_client'[j].info
    BY DEF BatchOK
  <2>2. CASE j \in 1 .. L /\ AnnouncedAt(j, r)
    <3>1. i \in 1 .. L
      BY <1>2, <2>1, <2>2
    <3>2. to_client'[i] = to_client[i] /\ to_client'[j] = to_client[j]
      BY <1>2, <2>2, <3>1
    <3>3. \/ ListedBetween(i, j, r)
          \/ ~ FileAt(i, r) /\ (AnnouncedAt(i, r) => to_client[i].info = to_client[j].info)
      BY <1>5, <2>1, <2>2, <3>1 DEF Sound, BatchOK
    <3>4. ListedBetween(i, j, r) => ListedBetween(i, j, r)'
      BY <1>2, <1>5, <1>9 DEF ListedBetween
    <3>5. QED
      BY <1>5, <3>1, <3>2, <3>3, <3>4
  <2>3. ASSUME NEW k \in 1 .. n, j = L + 1 + k, q[at[k]] = r
        PROVE  \/ ListedBetween(i, j, r)'
               \/ /\ ~ FileAt(i, r)'
                  /\ AnnouncedAt(i, r)' => to_client'[i].info = to_client'[j].info
    <3>1. CASE i \in 1 .. L
      <4>1. r \in ToSet(q)
        BY <1>4, <2>3 DEF ToSet
      <4>2. ListedAt(L + 1, r)'
        BY <1>2, <4>1 DEF ListedAt, List
      <4>3. i < L + 1 /\ L + 1 < j
        BY <2>3, <3>1
      <4>4. QED
        BY <1>9, <4>2, <4>3 DEF ListedBetween
    <3>2. CASE i = L + 1
      BY <1>6, <3>2
    <3>3. ASSUME NEW l \in 1 .. n, i = L + 1 + l
          PROVE  /\ ~ FileAt(i, r)'
                 /\ AnnouncedAt(i, r)' => to_client'[i].info = to_client'[j].info
      <4>1. ~ FileAt(i, r)' /\ (AnnouncedAt(i, r)' => q[at[l]] = r)
        BY <1>7, <3>3
      <4>2. to_client'[i] = Sync(q[at[l]]) /\ to_client'[j] = Sync(q[at[k]])
        BY <1>2, <2>3, <3>3
      <4>3. QED
        BY <2>3, <4>1, <4>2
    <3>4. QED
      BY <1>3, <3>1, <3>2, <3>3
  <2>4. QED
    BY <1>8, <2>1, <2>2, <2>3
<1>18. ExactOK(r)' /\ MixedOK(r)'
  BY <1>1 DEF Sound, ExactOK, MixedOK, clientVars
<1>19. QED
  BY <1>11, <1>12, <1>13, <1>14, <1>15, <1>16, <1>17, <1>18 DEF Sound

\* The packets that were under way stay where they are.
LEMMA PrefixKept ==
    ASSUME NEW r, NEW L \in Nat, NEW n \in Nat, DOMAIN to_client = 1 .. L,
           DOMAIN to_client' = 1 .. L + n, \A i \in 1 .. L : to_client'[i] = to_client[i]
    PROVE  \A i \in 1 .. L :
             /\ i \in DOMAIN to_client /\ i \in DOMAIN to_client'
             /\ AnnouncedAt(i, r)' <=> AnnouncedAt(i, r)
             /\ FileAt(i, r)' <=> FileAt(i, r)
             /\ ListedAt(i, r)' <=> ListedAt(i, r)
             /\ \A f : Sent(r, f, i)' <=> Sent(r, f, i)
<1>1. SUFFICES ASSUME NEW i \in 1 .. L
               PROVE  /\ i \in DOMAIN to_client /\ i \in DOMAIN to_client'
                      /\ AnnouncedAt(i, r)' <=> AnnouncedAt(i, r)
                      /\ FileAt(i, r)' <=> FileAt(i, r)
                      /\ ListedAt(i, r)' <=> ListedAt(i, r)
                      /\ \A f : Sent(r, f, i)' <=> Sent(r, f, i)
  OBVIOUS
<1>2. \A j \in 1 .. L : /\ j \in DOMAIN to_client /\ j \in DOMAIN to_client'
                        /\ AnnouncedAt(j, r)' <=> AnnouncedAt(j, r)
                        /\ FileAt(j, r)' <=> FileAt(j, r)
                        /\ ListedAt(j, r)' <=> ListedAt(j, r)
  BY DEF AnnouncedAt, FileAt, ListedAt
<1>3. ASSUME NEW f PROVE Sent(r, f, i)' <=> Sent(r, f, i)
  <2>1. \A j \in DOMAIN to_client : j < i => j \in 1 .. L
    OBVIOUS
  <2>2. \A j \in DOMAIN to_client' : j < i => j \in 1 .. L
    OBVIOUS
  <2>3. QED
    BY <1>2, <2>1, <2>2 DEF Sent
<1>4. QED
  BY <1>2, <1>3

\* The requests of r, one place nearer.
LEMMA RequestsShift ==
    ASSUME NEW r, Shorter(to_server, to_server')
    PROVE  /\ (\A i \in DOMAIN to_server : ~ AskedAt(i, r)) =>
                \A i \in DOMAIN to_server' : ~ AskedAt(i, r)'
           /\ \A F : FirstAsked(r, F) /\ ~ (AskedAt(1, r) /\ to_server[1].files = F) =>
                FirstAsked(r, F)'
<1>1. PICK M \in Nat : /\ DOMAIN to_server = 1 .. M + 1 /\ DOMAIN to_server' = 1 .. M
                       /\ \A i \in 1 .. M : to_server'[i] = to_server[i + 1]
  BY DEF Shorter
<1>2. \A i \in 1 .. M : i + 1 \in DOMAIN to_server /\ (AskedAt(i, r)' <=> AskedAt(i + 1, r))
  BY <1>1 DEF AskedAt
<1>3. ASSUME NEW F, FirstAsked(r, F), ~ (AskedAt(1, r) /\ to_server[1].files = F)
      PROVE  FirstAsked(r, F)'
  <2>1. PICK i \in DOMAIN to_server :
          /\ AskedAt(i, r) /\ to_server[i].files = F
          /\ \A j \in DOMAIN to_server : j < i /\ AskedAt(j, r) => to_server[j].files = {}
    BY <1>3 DEF FirstAsked
  <2>2. i # 1
    BY <1>3, <2>1
  <2>3. i - 1 \in 1 .. M /\ (i - 1) + 1 = i
    BY <1>1, <2>2
  <2>4. AskedAt(i - 1, r)' /\ to_server'[i - 1].files = F
    BY <1>1, <1>2, <2>1, <2>3
  <2>5. \A j \in 1 .. M : j < i - 1 => j + 1 < i
    BY <1>1
  <2>6. \A j \in DOMAIN to_server' : j < i - 1 /\ AskedAt(j, r)' => to_server'[j].files = {}
    BY <1>1, <1>2, <2>1, <2>5
  <2>7. i - 1 \in DOMAIN to_server'
    BY <1>1, <2>3
  <2>8. QED
    BY <2>4, <2>6, <2>7 DEF FirstAsked
<1>4. QED
  BY <1>1, <1>2, <1>3

LEMMA AnswerKeeps ==
    ASSUME TypeOK, TypeOK', Answer, NEW r \in Resources, Sound(r)
    PROVE  Sound(r)'
<1> DEFINE h == to_server[1]
<1>1. /\ UNCHANGED <<status, time, resources_to_sync, clientVars>> /\ r \in Resources
      /\ h \in Request /\ Shorter(to_server, to_server')
  BY AnswerSends DEF Answer, serverVars
<1>2. /\ 1 \in DOMAIN to_server
      /\ AskedAt(1, r) <=> h.rsrc = r
      /\ awaited'[r] = awaited[r]
  BY <1>1 DEF Shorter, AskedAt, clientVars
<1>3. CASE ~ Exists(h.rsrc) /\ to_client' = to_client
  <2>1. /\ TimesOK(r)' /\ OrderOK(r)' /\ BatchOK(r)' /\ OnceOK(r)' /\ ListedOK(r)'
        /\ ExactOK(r)' /\ MixedOK(r)' /\ RunningOK(r)'
    <3>1. \A i : /\ AnnouncedAt(i, r)' <=> AnnouncedAt(i, r)
                 /\ FileAt(i, r)' <=> FileAt(i, r)
                 /\ ListedAt(i, r)' <=> ListedAt(i, r)
      BY <1>3 DEF AnnouncedAt, FileAt, ListedAt
    <3>2. TimesOK(r)'
      BY <1>1, <1>3, <3>1 DEF Sound, TimesOK, clientVars
    <3>3. OnceOK(r)'
      BY <1>1, <1>3, <3>1 DEF Sound, OnceOK, clientVars
    <3>4. ListedOK(r)' /\ RunningOK(r)'
      BY <1>1, <1>2, <1>3, <3>1 DEF Sound, ListedOK, Fits, RunningOK, clientVars
    <3>5. OrderOK(r)' /\ BatchOK(r)'
      BY <1>3, <3>1 DEF Sound, OrderOK, BatchOK, ListedBetween
    <3>6. ExactOK(r)' /\ MixedOK(r)'
      BY <1>1 DEF Sound, ExactOK, MixedOK, clientVars
    <3>7. QED
      BY <3>2, <3>3, <3>4, <3>5, <3>6
  <2>2. FreshOK(r)'
    BY <1>1, <1>3, RequestsShift DEF Sound, FreshOK, FileAt, clientVars
  <2>3. SentOK(r) => SentOK(r)'
    BY <1>2, <1>3 DEF SentOK, FileAt, Sent
  <2>4. AskedOK(r) => AskedOK(r)'
    <3>1. Exists(r) => ~ AskedAt(1, r)
      BY <1>2, <1>3
    <3>2. Exists(r)' <=> Exists(r)
      BY <1>1 DEF Exists
    <3>3. QED
      BY <1>1, <1>2, <1>3, <3>1, <3>2, RequestsShift DEF AskedOK, FileAt
  <2>5. MissingOK(r)'
    BY <1>1, <1>2, <2>3, <2>4 DEF Sound, MissingOK, clientVars
  <2>6. QED
    BY <2>1, <2>2, <2>5 DEF Sound
<1>4. ASSUME NEW n \in Nat, NEW order \in [1 .. n -> h.files], Exists(h.rsrc),
             \A i, j \in 1 .. n : order[i] = order[j] => i = j,
             \A f \in h.files : \E i \in 1 .. n : order[i] = f,
             NEW L \in Nat, DOMAIN to_client = 1 .. L, DOMAIN to_client' = 1 .. L + n,
             \A i \in 1 .. L : to_client'[i] = to_client[i],
             \A k \in 1 .. n : to_client'[L + k] = File(h.rsrc, order[k])
      PROVE  Sound(r)'
  <2>1. \A i \in 1 .. L :
             /\ i \in DOMAIN to_client /\ i \in DOMAIN to_client'
             /\ AnnouncedAt(i, r)' <=> AnnouncedAt(i, r)
             /\ FileAt(i, r)' <=> FileAt(i, r)
             /\ ListedAt(i, r)' <=> ListedAt(i, r)
             /\ \A f : Sent(r, f, i)' <=> Sent(r, f, i)
    BY <1>4, PrefixKept
  <2>2. \A k \in 1 .. n : /\ ~ AnnouncedAt(L + k, r)'
                          /\ FileAt(L + k, r)' <=> h.rsrc = r
                          /\ to_client'[L + k].file = order[k]
                          /\ to_client'[L + k].lwt = time[h.rsrc][order[k]]
    <3>1. SUFFICES ASSUME NEW k \in 1 .. n
                   PROVE  /\ ~ AnnouncedAt(L + k, r)'
                          /\ FileAt(L + k, r)' <=> h.rsrc = r
                          /\ to_client'[L + k].file = order[k]
                          /\ to_client'[L + k].lwt = time[h.rsrc][order[k]]
      OBVIOUS
    <3>2. to_client'[L + k] = File(h.rsrc, order[k])
      BY <1>4
    <3> HIDE DEF h
    <3>3. LET m == File(h.rsrc, order[k])
          IN  m.type = "File" /\ m.rsrc = h.rsrc /\ m.file = order[k] /\ m.lwt = time[h.rsrc][order[k]]
      BY DEF File
    <3>4. QED
      BY <3>2, <3>3 DEF AnnouncedAt, FileAt
  <2>3. \A i \in DOMAIN to_client' : i \in 1 .. L \/ \E k \in 1 .. n : i = L + k
    <3>1. ASSUME NEW i \in DOMAIN to_client', i \notin 1 .. L
          PROVE  \E k \in 1 .. n : i = L + k
      <4>1. i - L \in 1 .. n /\ i = L + (i - L)
        BY <1>4, <3>1
      <4>2. QED
        BY <4>1
    <3>2. QED
      BY <3>1
  <2>4. \A k \in 1 .. n : L + k \in DOMAIN to_client' /\ order[k] \in h.files
    BY <1>4
  <2>5. h.files \in SUBSET Files
    BY <1>1 DEF Request
  <2>6. \A i \in DOMAIN to_client' :
          AnnouncedAt(i, r)' => i \in 1 .. L /\ AnnouncedAt(i, r)
    BY <2>1, <2>2, <2>3
  <2> HIDE DEF h
  <2>7. TimesOK(r)'
    <3>1. TimesOK(r)
      BY DEF Sound
    <3>2. ASSUME NEW i \in DOMAIN to_client', FileAt(i, r)'
          PROVE  /\ to_client'[i].lwt \in
                      announced[r][to_client'[i].file] .. time[r][to_client'[i].file]
                 /\ 2 <= to_client'[i].lwt
      <4>1. CASE i \in 1 .. L
        BY <1>4, <2>1, <3>1, <3>2, <4>1 DEF TimesOK
      <4>2. ASSUME NEW k \in 1 .. n, i = L + k
            PROVE  /\ to_client'[i].lwt \in
                        announced[r][to_client'[i].file] .. time[r][to_client'[i].file]
                   /\ 2 <= to_client'[i].lwt
        <5>1. order[k] \in Files /\ h.rsrc = r
          BY <2>2, <2>4, <2>5, <3>2, <4>2
        <5>2. /\ announced[r][order[k]] <= time[r][order[k]] /\ 2 <= time[r][order[k]]
              /\ announced[r][order[k]] \in Nat /\ time[r][order[k]] \in Nat
          BY <1>1, <3>1, <5>1 DEF TimesOK, TypeOK, Times
        <5>3. to_client'[i].file = order[k] /\ to_client'[i].lwt = time[r][order[k]]
          BY <2>2, <4>2, <5>1
        <5>4. QED
          BY <5>2, <5>3
      <4>3. QED
        BY <2>3, <4>1, <4>2
    <3>3. ASSUME NEW i \in DOMAIN to_client', AnnouncedAt(i, r)', NEW f \in Files
          PROVE  IF f \in FilesOf[r] THEN to_client'[i].info[f] \in 2 .. time[r][f]
                                     ELSE to_client'[i].info[f] = NoFile
      BY <1>4, <2>1, <2>6, <3>1, <3>3 DEF TimesOK
    <3>4. QED
      BY <1>1, <3>1, <3>2, <3>3 DEF TimesOK, clientVars
  <2>8. OnceOK(r)'
    BY <1>1, <2>1, <2>6 DEF Sound, OnceOK, clientVars
  <2>9. FreshOK(r)'
    <3>1. SUFFICES ASSUME r \notin resources
                   PROVE  /\ \A i \in DOMAIN to_client' : ~ FileAt(i, r)'
                          /\ \A i \in DOMAIN to_server' : ~ AskedAt(i, r)'
      BY <1>1 DEF FreshOK, clientVars
    <3>2. /\ \A i \in DOMAIN to_client : ~ FileAt(i, r)
          /\ \A i \in DOMAIN to_server : ~ AskedAt(i, r)
      BY <3>1 DEF Sound, FreshOK
    <3>3. h.rsrc # r
      BY <1>2, <3>2
    <3>4. QED
      BY <1>1, <2>1, <2>2, <2>3, <3>2, <3>3, RequestsShift
  <2>10. ListedOK(r)'
    <3>1. SUFFICES ASSUME NEW i \in DOMAIN to_client', AnnouncedAt(i, r)'
                   PROVE  \/ r \in downloading_resources
                          \/ \E j \in DOMAIN to_client' : j < i /\ ListedAt(j, r)'
                          \/ \A f \in Files : to_client'[i].info[f] \in {NoFile, disk[r][f]}
      BY <1>1 DEF ListedOK, Fits, clientVars
    <3>2. \/ r \in downloading_resources
          \/ \E j \in 1 .. L : j < i /\ ListedAt(j, r)
          \/ \A f \in Files : to_client[i].info[f] \in {NoFile, disk[r][f]}
      BY <1>4, <2>1, <2>6, <3>1 DEF Sound, ListedOK, Fits
    <3>3. to_client'[i] = to_client[i]
      BY <1>4, <2>6, <3>1
    <3>4. QED
      BY <2>1, <3>2, <3>3
  <2>11. MissingOK(r)'
    <3>1. SUFFICES ASSUME awaited[r] # {}, SentOK(r) \/ AskedOK(r)
                   PROVE  SentOK(r)' \/ AskedOK(r)'
      BY <1>1, <1>2 DEF Sound, MissingOK, clientVars
    <3>2. CASE SentOK(r)
      <4>1. \A f \in awaited[r] : \E i \in 1 .. L : FileAt(i, r)' /\ to_client'[i].file = f
        BY <1>4, <2>1, <3>2 DEF SentOK
      <4>2. ASSUME NEW i \in DOMAIN to_client', FileAt(i, r)'
            PROVE  \/ to_client'[i].file \in awaited[r] /\ ~ Sent(r, to_client[i].file, i)'
                   \/ \A f \in awaited[r] : Sent(r, f, i)'
        <5>1. CASE i \in 1 .. L
          BY <1>4, <2>1, <3>2, <4>2, <5>1 DEF SentOK
        <5>2. ASSUME NEW k \in 1 .. n, i = L + k
              PROVE  \A f \in awaited[r] : Sent(r, f, i)'
          <6>1. \A j \in 1 .. L : j < i /\ j \in DOMAIN to_client'
            BY <2>1, <5>2
          <6>2. QED
            BY <4>1, <6>1 DEF Sent
        <5>3. QED
          BY <2>3, <5>1, <5>2
      <4>3. \A f \in awaited[r] : \E i \in DOMAIN to_client' : FileAt(i, r)' /\ to_client'[i].file = f
        BY <2>1, <4>1
      <4>4. QED
        BY <1>2, <4>2, <4>3 DEF SentOK
    <3>3. CASE AskedOK(r) /\ (h.rsrc # r \/ h.files = {})
      <4>1. \A i \in DOMAIN to_client' : ~ FileAt(i, r)'
        <5>1. h.files = {} => \A k \in 1 .. n : FALSE
          BY <2>4
        <5>2. QED
          BY <2>1, <2>2, <2>3, <3>3, <5>1 DEF AskedOK
      <4>2. ~ (AskedAt(1, r) /\ to_server[1].files = awaited[r]) /\ (Exists(r)' <=> Exists(r))
        BY <1>1, <1>2, <3>1, <3>3 DEF Exists, h
      <4>3. AskedOK(r)'
        BY <1>1, <1>2, <3>3, <4>1, <4>2, RequestsShift DEF AskedOK
      <4>4. QED
        BY <4>3
    <3>4. CASE AskedOK(r) /\ h.rsrc = r /\ h.files # {}
      <4>1. h.files = awaited[r]
        <5>1. PICK i \in DOMAIN to_server :
                /\ AskedAt(i, r) /\ to_server[i].files = awaited[r]
                /\ \A j \in DOMAIN to_server : j < i /\ AskedAt(j, r) => to_server[j].files = {}
          BY <1>4, <3>4 DEF AskedOK, FirstAsked
        <5>2. ~ (1 < i)
          BY <1>2, <3>4, <5>1 DEF h
        <5>3. i = 1
          BY <1>1, <5>2 DEF Shorter
        <5>4. QED
          BY <5>1, <5>3 DEF h
      <4>2. \A i \in 1 .. L : ~ FileAt(i, r)'
        BY <2>1, <3>4 DEF AskedOK
      <4>3. \A f \in awaited[r] : \E i \in DOMAIN to_client' : FileAt(i, r)' /\ to_client'[i].file = f
        BY <1>4, <2>2, <2>4, <3>4, <4>1, SMTT(30)
      <4>4. ASSUME NEW i \in DOMAIN to_client', FileAt(i, r)'
            PROVE  to_client'[i].file \in awaited[r] /\ ~ Sent(r, to_client[i].file, i)'
        <5>1. PICK k \in 1 .. n : i = L + k
          BY <2>3, <4>2, <4>4
        <5>2. to_client'[i].file = order[k] /\ order[k] \in awaited[r]
          BY <2>2, <2>4, <4>1, <5>1
        <5>3. ASSUME NEW j \in DOMAIN to_client', j < i, FileAt(j, r)'
              PROVE  to_client'[j].file # order[k]
          <6>1. PICK l \in 1 .. n : j = L + l
            BY <2>3, <4>2, <5>3
          <6>2. l # k
            BY <5>1, <5>3, <6>1
          <6>3. QED
            <7>1. to_client'[j].file = order[l]
              BY <2>2, <6>1
            <7>2. order[l] # order[k]
              BY <1>4, <6>2
            <7>3. QED
              BY <7>1, <7>2
        <5>4. ~ Sent(r, to_client[i].file, i)'
          BY <5>2, <5>3 DEF Sent
        <5>5. QED
          BY <5>2, <5>4
      <4>5. QED
        BY <1>2, <4>3, <4>4 DEF SentOK
    <3>5. QED
      BY <3>1, <3>2, <3>3, <3>4
  <2>12. RunningOK(r)'
    BY <1>1, <1>2 DEF Sound, RunningOK, clientVars
  <2>13. OrderOK(r)'
    <3>1. SUFFICES ASSUME NEW i \in DOMAIN to_client', NEW j \in DOMAIN to_client', i < j,
                          AnnouncedAt(i, r)', FileAt(j, r)'
                   PROVE  to_client'[i].info[to_client'[j].file] <= to_client'[j].lwt
      BY DEF OrderOK
    <3>2. i \in 1 .. L /\ AnnouncedAt(i, r) /\ to_client'[i] = to_client[i]
      BY <1>4, <2>6, <3>1
    <3>3. CASE j \in 1 .. L
      BY <1>4, <2>1, <3>1, <3>2, <3>3 DEF Sound, OrderOK
    <3>4. ASSUME NEW k \in 1 .. n, j = L + k
          PROVE  to_client'[i].info[to_client'[j].file] <= to_client'[j].lwt
      <4>1. order[k] \in Files /\ h.rsrc = r
        BY <2>2, <2>4, <2>5, <3>1, <3>4
      <4>2. to_client'[j].file = order[k] /\ to_client'[j].lwt = time[r][order[k]]
        BY <2>2, <3>4, <4>1
      <4>3. IF order[k] \in FilesOf[r] THEN to_client[i].info[order[k]] \in 2 .. time[r][order[k]]
                                      ELSE to_client[i].info[order[k]] = NoFile
        BY <2>1, <3>2, <4>1 DEF Sound, TimesOK
      <4>4. time[r][order[k]] \in Nat
        BY <4>1 DEF TypeOK, Times
      <4>5. QED
        BY <3>2, <4>2, <4>3, <4>4 DEF NoFile
    <3>5. QED
      BY <2>3, <3>3, <3>4
  <2>14. BatchOK(r)'
    <3>1. SUFFICES ASSUME NEW i \in DOMAIN to_client', NEW j \in DOMAIN to_client', i < j,
                          AnnouncedAt(j, r)'
                   PROVE  \/ ListedBetween(i, j, r)'
                          \/ /\ ~ FileAt(i, r)'
                             /\ AnnouncedAt(i, r)' => to_client'[i].info = to_client'[j].info
      BY DEF BatchOK
    <3>2. j \in 1 .. L /\ AnnouncedAt(j, r)
      BY <2>6, <3>1
    <3>3. i \in 1 .. L
      BY <1>4, <3>1, <3>2
    <3>4. to_client'[i] = to_client[i] /\ to_client'[j] = to_client[j]
      BY <1>4, <3>2, <3>3
    <3>5. \/ ListedBetween(i, j, r)
          \/ ~ FileAt(i, r) /\ (AnnouncedAt(i, r) => to_client[i].info = to_client[j].info)
      BY <2>1, <3>1, <3>2, <3>3 DEF Sound, BatchOK
    <3>6. ListedBetween(i, j, r) => ListedBetween(i, j, r)'
      BY <1>4, <2>1 DEF ListedBetween
    <3>7. QED
      BY <2>1, <3>3, <3>4, <3>5, <3>6
  <2>15. ExactOK(r)' /\ MixedOK(r)'
    BY <1>1 DEF Sound, ExactOK, MixedOK, clientVars
  <2>16. QED
    BY <2>7, <2>8, <2>9, <2>10, <2>11, <2>12, <2>13, <2>14, <2>15 DEF Sound
<1>5. CASE \E order \in SetToSeqs(h.files) :
                   LET n == Cardinality(h.files)
                       b == [k \in 1 .. n |-> File(h.rsrc, order[k])]
                   IN  /\ Exists(h.rsrc)
                       /\ n \in Nat /\ order \in [1 .. n -> h.files]
                       /\ \A i, j \in 1 .. n : order[i] = order[j] => i = j
                       /\ \A f \in h.files : \E i \in 1 .. n : order[i] = f
                       /\ Longer(to_client, n, b, to_client')
  <2> DEFINE n == Cardinality(h.files)
  <2>1. PICK order \in SetToSeqs(h.files) :
          /\ Exists(h.rsrc)
          /\ n \in Nat /\ order \in [1 .. n -> h.files]
          /\ \A i, j \in 1 .. n : order[i] = order[j] => i = j
          /\ \A f \in h.files : \E i \in 1 .. n : order[i] = f
          /\ Longer(to_client, n, [k \in 1 .. n |-> File(h.rsrc, order[k])], to_client')
    BY <1>5
  <2> DEFINE b == [k \in 1 .. n |-> File(h.rsrc, order[k])]
  <2>2. \A k \in 1 .. n : b[k] = File(h.rsrc, order[k])
    OBVIOUS
  <2> HIDE DEF h, n, b
  <2>3. PICK L \in Nat :
          /\ DOMAIN to_client = 1 .. L /\ DOMAIN to_client' = 1 .. L + n
          /\ \A i \in 1 .. L : to_client'[i] = to_client[i]
          /\ \A k \in 1 .. n : to_client'[L + k] = b[k]
    BY <2>1 DEF Longer, b
  <2>4. \A k \in 1 .. n : to_client'[L + k] = File(h.rsrc, order[k])
    BY <2>2, <2>3
  <2>5. QED
    BY <1>4, <2>1, <2>3, <2>4
<1>6. QED
  BY <1>3, <1>5, AnswerSends

\* A packet is read: the others are one place nearer.
LEMMA MessagesShift ==
    ASSUME NEW r, Shorter(to_client, to_client')
    PROVE  /\ \A i \in DOMAIN to_client' :
                /\ i \in Nat /\ i + 1 \in DOMAIN to_client /\ to_client'[i] = to_client[i + 1]
                /\ AnnouncedAt(i, r)' <=> AnnouncedAt(i + 1, r)
                /\ FileAt(i, r)' <=> FileAt(i + 1, r)
                /\ \A f : ~ (FileAt(1, r) /\ to_client[1].file = f) =>
                     (Sent(r, f, i)' <=> Sent(r, f, i + 1))
           /\ \A j \in DOMAIN to_client : j # 1 =>
                \E i \in DOMAIN to_client' :
                  /\ j = i + 1 /\ to_client'[i] = to_client[j]
                  /\ AnnouncedAt(i, r)' <=> AnnouncedAt(j, r)
                  /\ FileAt(i, r)' <=> FileAt(j, r)
                  /\ ListedAt(i, r)' <=> ListedAt(j, r)
<1>1. PICK M \in Nat : /\ DOMAIN to_client = 1 .. M + 1 /\ DOMAIN to_client' = 1 .. M
                       /\ \A i \in 1 .. M : to_client'[i] = to_client[i + 1]
  BY DEF Shorter
<1>2. \A i \in 1 .. M : /\ i \in Nat /\ i + 1 \in DOMAIN to_client
                        /\ to_client'[i] = to_client[i + 1]
                        /\ AnnouncedAt(i, r)' <=> AnnouncedAt(i + 1, r)
                        /\ FileAt(i, r)' <=> FileAt(i + 1, r)
                        /\ ListedAt(i, r)' <=> ListedAt(i + 1, r)
  BY <1>1 DEF AnnouncedAt, FileAt, ListedAt
<1>3. \A j \in DOMAIN to_client : j # 1 => j - 1 \in 1 .. M /\ j = (j - 1) + 1
  BY <1>1
<1>4. ASSUME NEW i \in 1 .. M, NEW f, ~ (FileAt(1, r) /\ to_client[1].file = f)
      PROVE  Sent(r, f, i)' <=> Sent(r, f, i + 1)
  <2>1. ASSUME Sent(r, f, i)' PROVE Sent(r, f, i + 1)
    <3>1. PICK j \in 1 .. M : j < i /\ FileAt(j, r)' /\ to_client'[j].file = f
      BY <1>1, <2>1 DEF Sent
    <3>2. /\ j + 1 \in DOMAIN to_client /\ j + 1 < i + 1
          /\ FileAt(j + 1, r) /\ to_client[j + 1].file = f
      BY <1>2, <3>1
    <3>3. QED
      BY <3>2 DEF Sent
  <2>2. ASSUME Sent(r, f, i + 1) PROVE Sent(r, f, i)'
    <3>1. PICK j \in DOMAIN to_client : j < i + 1 /\ FileAt(j, r) /\ to_client[j].file = f
      BY <2>2 DEF Sent
    <3>2. j # 1
      BY <1>4, <3>1
    <3>3. j - 1 \in 1 .. M /\ (j - 1) + 1 = j /\ j - 1 < i
      BY <1>1, <3>1, <3>2
    <3>4. FileAt(j - 1, r)' /\ to_client'[j - 1].file = f
      BY <1>2, <3>1, <3>3
    <3>5. QED
      BY <1>1, <3>3, <3>4 DEF Sent
  <2>3. QED
    BY <2>1, <2>2
<1>5. ASSUME NEW j \in DOMAIN to_client, j # 1
      PROVE  \E i \in DOMAIN to_client' :
                  /\ j = i + 1 /\ to_client'[i] = to_client[j]
                  /\ AnnouncedAt(i, r)' <=> AnnouncedAt(j, r)
                  /\ FileAt(i, r)' <=> FileAt(j, r)
                  /\ ListedAt(i, r)' <=> ListedAt(j, r)
  <2>1. j - 1 \in 1 .. M /\ j = (j - 1) + 1
    BY <1>3, <1>5
  <2>2. QED
    BY <1>1, <1>2, <2>1
<1>6. QED
  BY <1>1, <1>2, <1>4, <1>5

LEMMA OrderShift ==
    ASSUME NEW r, Shorter(to_client, to_client'), OrderOK(r), BatchOK(r)
    PROVE  OrderOK(r)' /\ BatchOK(r)'
<1>1. \A i \in DOMAIN to_client' :
        /\ i \in Nat /\ i + 1 \in DOMAIN to_client /\ to_client'[i] = to_client[i + 1]
        /\ AnnouncedAt(i, r)' <=> AnnouncedAt(i + 1, r)
        /\ FileAt(i, r)' <=> FileAt(i + 1, r)
  BY MessagesShift
<1>2. \A j \in DOMAIN to_client : j # 1 =>
        \E i \in DOMAIN to_client' : j = i + 1 /\ (ListedAt(i, r)' <=> ListedAt(j, r))
  BY MessagesShift
<1>3. \A i, j \in Nat : i < j <=> i + 1 < j + 1
  OBVIOUS
<1>4. ASSUME NEW i \in DOMAIN to_client', NEW j \in DOMAIN to_client',
             ListedBetween(i + 1, j + 1, r)
      PROVE  ListedBetween(i, j, r)'
  <2>1. PICK k \in DOMAIN to_client : i + 1 < k /\ k < j + 1 /\ ListedAt(k, r)
    BY <1>4 DEF ListedBetween
  <2>2. i \in Nat /\ j \in Nat
    BY <1>1
  <2>3. k # 1
    BY <2>1, <2>2
  <2>4. PICK l \in DOMAIN to_client' : k = l + 1 /\ ListedAt(l, r)'
    BY <1>2, <2>1, <2>3
  <2>5. l \in Nat /\ i < l /\ l < j
    BY <1>1, <2>1, <2>2, <2>4
  <2>6. QED
    BY <2>4, <2>5 DEF ListedBetween
<1>5. OrderOK(r)'
  BY <1>1, <1>3 DEF OrderOK
<1>6. BatchOK(r)'
  BY <1>1, <1>3, <1>4 DEF BatchOK
<1>7. QED
  BY <1>5, <1>6

\* A client that asks for something else asks last.
Behind(r) ==
    /\ DOMAIN to_server \subseteq DOMAIN to_server'
    /\ \A i \in DOMAIN to_server : to_server'[i] = to_server[i]
    /\ \A i \in DOMAIN to_server, j \in DOMAIN to_server' : j < i => j \in DOMAIN to_server
    /\ \A i \in DOMAIN to_server' \ DOMAIN to_server : ~ AskedAt(i, r)'

LEMMA RequestsKept ==
    ASSUME NEW r, to_server \in Seq(Request), NEW q \in Request, q.rsrc # r,
           to_server' = to_server \/ to_server' = Append(to_server, q)
    PROVE  Behind(r)
<1>1. CASE to_server' = to_server
  BY <1>1 DEF Behind
<1>2. CASE to_server' = Append(to_server, q)
  <2>1. /\ Len(to_server) \in Nat /\ DOMAIN to_server = 1 .. Len(to_server)
        /\ DOMAIN to_server' = 1 .. Len(to_server) + 1
        /\ \A i \in 1 .. Len(to_server) : to_server'[i] = to_server[i]
        /\ to_server'[Len(to_server) + 1] = q
    BY <1>2
  <2> DEFINE L == Len(to_server)
  <2> HIDE DEF L
  <2>2. /\ L \in Nat /\ DOMAIN to_server = 1 .. L /\ DOMAIN to_server' = 1 .. L + 1
        /\ \A i \in 1 .. L : to_server'[i] = to_server[i]
        /\ to_server'[L + 1] = q
    BY <2>1 DEF L
  <2>3. \A i \in DOMAIN to_server' \ DOMAIN to_server : i = L + 1
    BY <2>2
  <2>4. \A i \in DOMAIN to_server, j \in DOMAIN to_server' : j < i => j \in DOMAIN to_server
    BY <2>2
  <2>5. QED
    BY <2>2, <2>3, <2>4 DEF Behind, AskedAt
<1>3. QED
  BY <1>1, <1>2

\* Packets of others leave the downloads of r as they were.
LEMMA CalmKeeps ==
    ASSUME TypeOK, TypeOK', NEW r \in Resources, Sound(r),
           UNCHANGED <<status, time, resources_to_sync>>,
           Shorter(to_client, to_client'), 1 \in DOMAIN to_client,
           ~ AnnouncedAt(1, r), ~ FileAt(1, r), Behind(r),
           disk'[r] = disk[r], announced'[r] = announced[r],
           awaited'[r] = awaited[r], r \in mixed' <=> r \in mixed,
           files_to_download'[r] = files_to_download[r],
           files_downloaded'[r] = files_downloaded[r],
           r \in resources' <=> r \in resources,
           r \in downloading_resources \/ ListedAt(1, r) => r \in downloading_resources',
           r \in running' => \/ r \in running
                             \/ r \in resources' /\ downloading_resources' = {}
    PROVE  Sound(r)'
<1>1. Exists(r)' <=> Exists(r)
  BY DEF Exists
<1>2. \A i \in DOMAIN to_client' :
        /\ i \in Nat /\ i + 1 \in DOMAIN to_client /\ to_client'[i] = to_client[i + 1]
        /\ AnnouncedAt(i, r)' <=> AnnouncedAt(i + 1, r)
        /\ FileAt(i, r)' <=> FileAt(i + 1, r)
        /\ \A f : Sent(r, f, i)' <=> Sent(r, f, i + 1)
  BY MessagesShift
<1>3. \A j \in DOMAIN to_client : j # 1 =>
        \E i \in DOMAIN to_client' :
          /\ j = i + 1 /\ to_client'[i] = to_client[j]
          /\ FileAt(i, r)' <=> FileAt(j, r)
          /\ ListedAt(i, r)' <=> ListedAt(j, r)
  BY MessagesShift
<1>4. TimesOK(r)'
  <2>1. TimesOK(r)
    BY DEF Sound
  <2>2. ASSUME NEW i \in DOMAIN to_client', AnnouncedAt(i, r)', NEW f \in Files
        PROVE  IF f \in FilesOf[r] THEN to_client'[i].info[f] \in 2 .. time[r][f]
                                   ELSE to_client'[i].info[f] = NoFile
    BY <1>2, <2>1, <2>2 DEF TimesOK
  <2>3. ASSUME NEW i \in DOMAIN to_client', FileAt(i, r)'
        PROVE  /\ to_client'[i].lwt \in
                    announced[r][to_client'[i].file] .. time[r][to_client'[i].file]
               /\ 2 <= to_client'[i].lwt
    BY <1>2, <2>1, <2>3 DEF TimesOK
  <2>4. QED
    BY <2>1, <2>2, <2>3 DEF TimesOK
<1>5. OnceOK(r)'
  <2>1. SUFFICES ASSUME r \notin Restarted
                 PROVE  /\ \A i, j \in DOMAIN to_client' :
                             AnnouncedAt(i, r)' /\ AnnouncedAt(j, r)' => i = j
                        /\ (\A i \in DOMAIN to_client : ~ AnnouncedAt(i, r)) =>
                             \A i \in DOMAIN to_client' : ~ AnnouncedAt(i, r)'
    BY DEF OnceOK, Sound
  <2>2. \A i, j \in DOMAIN to_client : AnnouncedAt(i, r) /\ AnnouncedAt(j, r) => i = j
    BY <2>1 DEF Sound, OnceOK
  <2>3. \A i, j \in Nat : i + 1 = j + 1 => i = j
    OBVIOUS
  <2>4. QED
    BY <1>2, <2>2, <2>3
<1>6. FreshOK(r)'
  BY <1>2 DEF Sound, FreshOK, Behind, AskedAt
<1>7. ListedOK(r)'
  <2>1. SUFFICES ASSUME NEW i \in DOMAIN to_client', AnnouncedAt(i, r)'
                 PROVE  \/ r \in downloading_resources'
                        \/ \E j \in DOMAIN to_client' : j < i /\ ListedAt(j, r)'
                        \/ \A f \in Files : to_client'[i].info[f] \in {NoFile, disk[r][f]}
    BY DEF ListedOK, Fits
  <2>2. \/ r \in downloading_resources
        \/ \E j \in DOMAIN to_client : j < i + 1 /\ ListedAt(j, r)
        \/ \A f \in Files : to_client'[i].info[f] \in {NoFile, disk[r][f]}
    BY <1>2, <2>1 DEF Sound, ListedOK, Fits
  <2>3. ASSUME NEW j \in DOMAIN to_client, j < i + 1, ListedAt(j, r), j # 1
        PROVE  \E k \in DOMAIN to_client' : k < i /\ ListedAt(k, r)'
    <3>1. PICK k \in DOMAIN to_client' : j = k + 1 /\ ListedAt(k, r)'
      BY <1>3, <2>3
    <3>2. k < i
      BY <1>2, <2>3, <3>1
    <3>3. QED
      BY <3>1, <3>2
  <2>4. QED
    BY <2>2, <2>3
<1>8. MissingOK(r)'
  <2>1. ASSUME SentOK(r) PROVE SentOK(r)'
    <3>1. ASSUME NEW f \in awaited[r]
          PROVE  \E i \in DOMAIN to_client' : FileAt(i, r)' /\ to_client'[i].file = f
      <4>1. PICK j \in DOMAIN to_client : FileAt(j, r) /\ to_client[j].file = f
        BY <2>1 DEF SentOK
      <4>2. QED
        BY <1>3, <4>1
    <3>2. ASSUME NEW i \in DOMAIN to_client', FileAt(i, r)'
          PROVE  \/ to_client'[i].file \in awaited[r] /\ ~ Sent(r, to_client[i].file, i)'
                 \/ \A f \in awaited[r] : Sent(r, f, i)'
      BY <1>2, <2>1, <3>2 DEF SentOK
    <3>3. QED
      BY <1>1, <3>1, <3>2 DEF SentOK
  <2>2. ASSUME AskedOK(r) PROVE AskedOK(r)'
    <3>1. \A i \in DOMAIN to_client' : ~ FileAt(i, r)'
      BY <1>2, <2>2 DEF AskedOK
    <3>2. \A i \in DOMAIN to_server : i \in DOMAIN to_server' /\ (AskedAt(i, r)' <=> AskedAt(i, r))
      BY DEF Behind, AskedAt
    <3>3. ASSUME Exists(r)
          PROVE  \E i \in DOMAIN to_server' :
                   /\ AskedAt(i, r)' /\ to_server'[i].files = awaited[r]
                   /\ \A j \in DOMAIN to_server' :
                        j < i /\ AskedAt(j, r)' => to_server'[j].files = {}
      <4>1. PICK i \in DOMAIN to_server :
              /\ AskedAt(i, r) /\ to_server[i].files = awaited[r]
              /\ \A j \in DOMAIN to_server : j < i /\ AskedAt(j, r) => to_server[j].files = {}
        BY <2>2, <3>3 DEF AskedOK, FirstAsked
      <4>2. QED
        BY <3>2, <4>1 DEF Behind
    <3>4. QED
      BY <1>1, <3>1, <3>3 DEF AskedOK, FirstAsked
  <2>3. QED
    BY <1>1, <2>1, <2>2 DEF Sound, MissingOK
<1>9. RunningOK(r)'
  BY <1>1, <1>8 DEF Sound, RunningOK, MissingOK, TypeOK
<1>10. OrderOK(r)' /\ BatchOK(r)'
  BY OrderShift DEF Sound
<1>11. ExactOK(r)' /\ MixedOK(r)'
  BY DEF Sound, ExactOK, MixedOK
<1>12. QED
  BY <1>4, <1>5, <1>6, <1>7, <1>8, <1>9, <1>10, <1>11 DEF Sound

\* A list, or a packet of another resource.
LEMMA OtherHandledKeeps ==
    ASSUME TypeOK, TypeOK', HandleMessage, NEW r \in Resources, Sound(r),
           ~ AnnouncedAt(1, r), ~ FileAt(1, r)
    PROVE  Sound(r)'
<1> DEFINE m == to_client[1]
<1>1. /\ 1 \in DOMAIN to_client /\ m \in Message
      /\ HandleList(m) \/ HandleSync(m) \/ HandleFile(m)
      /\ Shorter(to_client, to_client') /\ UNCHANGED <<serverVars, stops>>
      /\ r \in Resources
  BY HeadHandled
<1>2. /\ AnnouncedAt(1, r) <=> m.type = "Sync" /\ m.rsrc = r
      /\ FileAt(1, r) <=> m.type = "File" /\ m.rsrc = r
      /\ ListedAt(1, r) <=> m.type = "List" /\ r \in m.names
  BY DEF AnnouncedAt, FileAt, ListedAt
<1>3. UNCHANGED <<status, time, resources_to_sync>>
  BY <1>1 DEF serverVars
<1> HIDE DEF m
<1>4. CASE HandleList(m)
  <2>1. /\ UNCHANGED <<to_server, resources, running, files_to_download,
                       files_downloaded, disk, announced, awaited, mixed>>
        /\ downloading_resources' = downloading_resources \union m.names
        /\ m.type = "List"
    BY <1>4 DEF HandleList
  <2>2. Behind(r)
    BY <2>1 DEF Behind
  <2>3. r \in downloading_resources \/ ListedAt(1, r) => r \in downloading_resources'
    BY <1>2, <2>1
  <2>4. QED
    BY <1>1, <1>3, <2>1, <2>2, <2>3, CalmKeeps
<1>5. CASE HandleSync(m)
  <2>1. m.type = "Sync" /\ m.rsrc # r
    BY <1>2, <1>5 DEF HandleSync
  <2>2. m.rsrc \in Resources
    BY <1>1, <2>1, MessageFields
  <2>3. Behind(r)
    <3>1. [rsrc |-> m.rsrc, files |-> FilesToRequest(m)] \in Request
      BY <1>1, <2>1, RequestFiles
    <3>2. [rsrc |-> m.rsrc, files |-> FilesToRequest(m)].rsrc = m.rsrc
      OBVIOUS
    <3>3. \/ to_server' = to_server
          \/ to_server' = Append(to_server, [rsrc |-> m.rsrc, files |-> FilesToRequest(m)])
      BY <1>5 DEF HandleSync
    <3>4. to_server \in Seq(Request)
      BY DEF TypeOK
    <3>5. QED
      BY <2>1, <3>1, <3>2, <3>3, <3>4, RequestsKept
  <2>4. /\ disk'[r] = disk[r] /\ announced'[r] = announced[r]
        /\ files_to_download'[r] = files_to_download[r]
        /\ files_downloaded'[r] = files_downloaded[r]
        /\ awaited'[r] = awaited[r]
    BY <1>1, <1>5, <2>1 DEF HandleSync, TypeOK
  <2>5. /\ r \in resources' <=> r \in resources
        /\ r \in downloading_resources => r \in downloading_resources'
        /\ r \in mixed' <=> r \in mixed
    BY <1>5, <2>1 DEF HandleSync, Mixed
  <2>6. r \in running' => \/ r \in running
                          \/ r \in resources' /\ downloading_resources' = {}
    BY <1>5, <2>1 DEF HandleSync, EndDownload, StartIf, AllUpToDate
  <2>7. ~ ListedAt(1, r)
    BY <1>2, <2>1
  <2>8. QED
    BY <1>1, <1>3, <2>3, <2>4, <2>5, <2>6, <2>7, CalmKeeps
<1>6. CASE HandleFile(m)
  <2>1. m.type = "File" /\ m.rsrc # r
    BY <1>2, <1>6 DEF HandleFile
  <2>2. m.rsrc \in Resources
    BY <1>1, <2>1, MessageFields
  <2>3. Behind(r)
    BY <1>6 DEF HandleFile, Behind
  <2>4. /\ disk'[r] = disk[r] /\ announced'[r] = announced[r]
        /\ files_to_download'[r] = files_to_download[r]
        /\ files_downloaded'[r] = files_downloaded[r]
        /\ awaited'[r] = awaited[r]
    BY <1>1, <1>6, <2>1 DEF HandleFile, TypeOK
  <2>5. /\ r \in resources' <=> r \in resources
        /\ r \in downloading_resources => r \in downloading_resources'
        /\ r \in mixed' <=> r \in mixed
    BY <1>6, <2>1 DEF HandleFile
  <2>6. r \in running' => \/ r \in running
                          \/ r \in resources' /\ downloading_resources' = {}
    BY <1>6, <2>1 DEF HandleFile, EndDownload, StartIf, NothingLeft
  <2>7. ~ ListedAt(1, r)
    BY <1>2, <2>1
  <2>8. QED
    BY <1>1, <1>3, <2>3, <2>4, <2>5, <2>6, <2>7, CalmKeeps
<1>7. QED
  BY <1>1, <1>4, <1>5, <1>6

\* What an announcement asks for: all that differs from it, and nothing if nothing
\* does.
LEMMA AsksForDifferent ==
    ASSUME TypeOK, NEW r \in Resources, NEW m, NEW info \in [Files -> Nat],
           m.rsrc = r, m.info = info,
           \A f \in Files : IF f \in FilesOf[r] THEN info[f] \in 2 .. time[r][f]
                                                ELSE info[f] = NoFile
    PROVE  /\ FilesToRequest(m) \in SUBSET Files
           /\ \A f \in Files : Kept(m)[f] = IF info[f] = 0 THEN 0 ELSE disk[r][f]
           /\ \A f \in Files \ FilesToRequest(m) : Kept(m)[f] = info[f]
           /\ (\A f \in Files : info[f] \in {NoFile, disk[r][f]}) => FilesToRequest(m) = {}
           /\ (\A f \in Files : time[r][f] = 2) =>
                FilesToRequest(m) = {f \in FilesOf[r] : disk[r][f] # 2}
<1>1. /\ disk[r] \in [Files -> Nat] /\ FilesOf[r] \in SUBSET Files
      /\ \A f \in Files : time[r][f] \in Nat
  BY FilesFinite DEF TypeOK, Times
<1>2. \A f \in Files : Kept(m)[f] = IF info[f] = 0 THEN 0 ELSE disk[r][f]
  BY DEF Kept, NoFile
<1>3. CASE CompleteSync(r)
  <2>1. \A f \in Files : disk[r][f] = 0
    BY <1>3 DEF CompleteSync, NoTimes, NoFile
  <2>2. FilesToRequest(m) = FilesOf[r]
    BY <1>3 DEF FilesToRequest
  <2>3. \A f \in Files \ FilesOf[r] : Kept(m)[f] = info[f]
    BY <1>2 DEF NoFile
  <2>4. (\A f \in Files : info[f] \in {NoFile, disk[r][f]}) => FilesOf[r] = {}
    <3>1. \A f \in FilesOf[r] : f \in Files /\ info[f] \notin {NoFile, disk[r][f]}
      BY <1>1, <2>1 DEF NoFile
    <3>2. QED
      BY <3>1
  <2>5. FilesOf[r] = {f \in FilesOf[r] : disk[r][f] # 2}
    BY <1>1, <2>1
  <2>6. QED
    BY <1>1, <1>2, <2>2, <2>3, <2>4, <2>5
<1>4. CASE ~ CompleteSync(r)
  <2>1. FilesToRequest(m) = {f \in Files : info[f] \notin {NoFile, disk[r][f]}}
    BY <1>4 DEF FilesToRequest, OutdatedOrNew
  <2>2. \A f \in Files : info[f] \in {NoFile, disk[r][f]} => Kept(m)[f] = info[f]
    BY <1>2 DEF NoFile
  <2>3. ASSUME \A f \in Files : time[r][f] = 2
        PROVE  FilesToRequest(m) = {f \in FilesOf[r] : disk[r][f] # 2}
    <3>1. \A f \in Files : info[f] = IF f \in FilesOf[r] THEN 2 ELSE 0
      BY <2>3 DEF NoFile
    <3>2. \A f \in Files :
            info[f] \notin {NoFile, disk[r][f]} <=> f \in FilesOf[r] /\ disk[r][f] # 2
      BY <1>1, <3>1 DEF NoFile
    <3>3. QED
      BY <1>1, <2>1, <3>2
  <2>4. QED
    BY <1>2, <2>1, <2>2, <2>3
<1>5. QED
  BY <1>3, <1>4

\* The announcement of r.
LEMMA SyncHandledKeeps ==
    ASSUME TypeOK, TypeOK', HandleMessage, NEW r \in Resources, Sound(r), AnnouncedAt(1, r)
    PROVE  Sound(r)'
<1> DEFINE m == to_client[1]
<1>1. /\ 1 \in DOMAIN to_client /\ m \in Message
      /\ HandleList(m) \/ HandleSync(m) \/ HandleFile(m)
      /\ Shorter(to_client, to_client')
      /\ UNCHANGED <<status, time, resources_to_sync>>
  BY HeadHandled DEF serverVars
<1>2. /\ m.type = "Sync" /\ m.rsrc = r /\ m.info \in [Files -> Nat]
      /\ ~ FileAt(1, r) /\ ~ ListedAt(1, r)
  BY <1>1, MessageFields DEF AnnouncedAt, FileAt, ListedAt
<1>3. HandleSync(m)
  BY <1>1, <1>2 DEF HandleList, HandleFile
<1> DEFINE info == m.info
           Q == FilesToRequest(m)
<1>4. \A f \in Files : IF f \in FilesOf[r] THEN info[f] \in 2 .. time[r][f]
                                           ELSE info[f] = NoFile
  BY <1>1 DEF Sound, TimesOK
<1>5. m.info = info /\ info \in [Files -> Nat] /\ to_client[1].info = info
  BY <1>2
<1> HIDE DEF m, info
<1>6. /\ Q \in SUBSET Files
      /\ \A f \in Files : Kept(m)[f] = IF info[f] = 0 THEN 0 ELSE disk[r][f]
      /\ \A f \in Files \ Q : Kept(m)[f] = info[f]
      /\ (\A f \in Files : info[f] \in {NoFile, disk[r][f]}) => Q = {}
      /\ (\A f \in Files : time[r][f] = 2) => Q = {f \in FilesOf[r] : disk[r][f] # 2}
  BY <1>2, <1>4, <1>5, AsksForDifferent
<1>7. /\ resources' = resources \union {r} /\ disk'[r] = Kept(m) /\ announced'[r] = info
      /\ files_downloaded'[r] = 0 /\ files_to_download'[r] = Cardinality(Q)
      /\ awaited'[r] = Q /\ mixed' = Mixed(m)
  BY <1>1, <1>2, <1>3 DEF HandleSync, Target, TypeOK, info
<1>8. \/ UpToDate(m) /\ Q = {}
      \/ /\ ~ UpToDate(m) /\ to_server' = Append(to_server, [rsrc |-> r, files |-> Q])
         /\ downloading_resources' = downloading_resources
  BY <1>2, <1>3 DEF HandleSync, UpToDate
<1> HIDE DEF Q
<1>9. r \notin Restarted =>
        /\ \A i \in DOMAIN to_client : AnnouncedAt(i, r) => i = 1
        /\ \A i \in DOMAIN resources_to_sync : resources_to_sync[i] # r
        /\ r \notin resources /\ status[r] = "Running"
  BY <1>1 DEF Sound, OnceOK
<1>10. r \notin Edited => Q = {f \in FilesOf[r] : disk[r][f] # 2}
  BY <1>6 DEF Sound, TimesOK
<1>11. \A f \in Files : /\ disk[r][f] \in Nat /\ info[f] \in Nat /\ time[r][f] \in Nat
                        /\ info[f] <= time[r][f]
  <2>1. disk[r] \in [Files -> Nat] /\ time[r] \in [Files -> Nat]
    BY <1>1 DEF TypeOK, Times
  <2>2. QED
    BY <1>4, <1>5, <2>1 DEF NoFile
<1>12. \A i \in DOMAIN to_client' :
        /\ i \in Nat /\ i + 1 \in DOMAIN to_client /\ to_client'[i] = to_client[i + 1]
        /\ AnnouncedAt(i, r)' <=> AnnouncedAt(i + 1, r)
        /\ FileAt(i, r)' <=> FileAt(i + 1, r)
        /\ \A f : Sent(r, f, i)' <=> Sent(r, f, i + 1)
  BY <1>1, <1>2, MessagesShift
<1>13. \A j \in DOMAIN to_client : j # 1 =>
        \E i \in DOMAIN to_client' :
          /\ j = i + 1 /\ to_client'[i] = to_client[j]
          /\ FileAt(i, r)' <=> FileAt(j, r)
          /\ ListedAt(i, r)' <=> ListedAt(j, r)
  BY <1>1, MessagesShift
<1>14. \A i \in DOMAIN to_client' : 1 < i + 1
  BY <1>1 DEF Shorter
<1>15. TimesOK(r)'
  <2>1. TimesOK(r)
    BY DEF Sound
  <2>2. ASSUME NEW f \in Files
        PROVE  /\ 2 <= time'[r][f] /\ (r \notin Edited => time'[r][f] = 2)
               /\ announced'[r][f] <= time'[r][f]
               /\ f \notin awaited'[r] => disk'[r][f] \in announced'[r][f] .. time'[r][f]
    <3>1. 2 <= time'[r][f] /\ (r \notin Edited => time'[r][f] = 2)
      BY <1>1, <2>1 DEF TimesOK
    <3>2. announced'[r][f] = info[f] /\ time'[r][f] = time[r][f]
      BY <1>1, <1>7
    <3>3. f \notin awaited'[r] => disk'[r][f] = info[f]
      BY <1>6, <1>7
    <3>4. QED
      BY <1>11, <3>1, <3>2, <3>3
  <2>3. ASSUME NEW i \in DOMAIN to_client', AnnouncedAt(i, r)', NEW f \in Files
        PROVE  IF f \in FilesOf[r] THEN to_client'[i].info[f] \in 2 .. time[r][f]
                                   ELSE to_client'[i].info[f] = NoFile
    BY <1>12, <2>1, <2>3 DEF TimesOK
  <2>4. ASSUME NEW i \in DOMAIN to_client', FileAt(i, r)'
        PROVE  /\ to_client'[i].lwt \in
                    announced'[r][to_client'[i].file] .. time[r][to_client'[i].file]
               /\ 2 <= to_client'[i].lwt
    <3>1. i + 1 \in DOMAIN to_client /\ FileAt(i + 1, r) /\ to_client'[i] = to_client[i + 1]
      BY <1>12, <2>4
    <3>2. to_client[i + 1] \in Message
      <4>1. to_client \in Seq(Message)
        BY DEF TypeOK
      <4>2. QED
        BY <3>1, <4>1
    <3>3. to_client[i + 1].file \in Files /\ to_client[i + 1].lwt \in Nat
      BY <3>1, <3>2, MessageFields DEF FileAt
    <3>4. /\ to_client[i + 1].lwt \in
               announced[r][to_client[i + 1].file] .. time[r][to_client[i + 1].file]
          /\ 2 <= to_client[i + 1].lwt
      BY <2>1, <3>1 DEF TimesOK
    <3>5. info[to_client[i + 1].file] <= to_client[i + 1].lwt
      BY <1>1, <1>5, <1>14, <2>4, <3>1 DEF Sound, OrderOK
    <3>6. to_client[i + 1].lwt \in info[to_client[i + 1].file] .. time[r][to_client[i + 1].file]
      BY <1>11, <3>3, <3>4, <3>5
    <3>7. QED
      BY <1>7, <3>1, <3>4, <3>6
  <2>5. QED
    BY <1>1, <2>2, <2>3, <2>4 DEF TimesOK
<1>16. OrderOK(r)' /\ BatchOK(r)'
  BY <1>1, OrderShift DEF Sound
<1>17. OnceOK(r)'
  <2>1. \A i \in DOMAIN to_client' : r \notin Restarted => ~ AnnouncedAt(i, r)'
    BY <1>9, <1>12, <1>14
  <2>2. QED
    BY <1>1, <1>9, <2>1 DEF OnceOK
<1>18. FreshOK(r)'
  BY <1>7 DEF FreshOK
\* If there is something to download, r was listed.
<1>19. Q # {} => r \in downloading_resources'
  <2>1. \A j \in DOMAIN to_client : ~ (j < 1)
    BY <1>1 DEF Shorter
  <2>2. r \in downloading_resources \/ Fits(1, r)
    BY <1>1, <2>1 DEF Sound, ListedOK
  <2>3. Fits(1, r) => Q = {}
    BY <1>5, <1>6 DEF Fits
  <2>4. QED
    BY <1>8, <2>2, <2>3
<1>20. ListedOK(r)'
  <2>1. SUFFICES ASSUME NEW i \in DOMAIN to_client', AnnouncedAt(i, r)'
                 PROVE  \/ r \in downloading_resources'
                        \/ \E j \in DOMAIN to_client' : j < i /\ ListedAt(j, r)'
                        \/ \A f \in Files : to_client'[i].info[f] \in {NoFile, disk'[r][f]}
    BY DEF ListedOK, Fits
  <2>2. /\ i \in Nat /\ i + 1 \in DOMAIN to_client /\ AnnouncedAt(i + 1, r) /\ 1 < i + 1
        /\ to_client'[i] = to_client[i + 1]
    BY <1>12, <1>14, <2>1
  <2>3. ListedBetween(1, i + 1, r) \/ to_client[1].info = to_client[i + 1].info
    BY <1>1, <2>2 DEF Sound, BatchOK
  <2>4. CASE ListedBetween(1, i + 1, r)
    <3>1. PICK k \in DOMAIN to_client : 1 < k /\ k < i + 1 /\ ListedAt(k, r)
      BY <2>4 DEF ListedBetween
    <3>2. PICK j \in DOMAIN to_client' : k = j + 1 /\ ListedAt(j, r)'
      BY <1>13, <3>1
    <3>3. j < i
      BY <1>12, <2>2, <3>1, <3>2
    <3>4. QED
      BY <3>2, <3>3
  <2>5. CASE to_client[i + 1].info = info /\ Q = {}
    BY <1>6, <1>7, <2>2, <2>5
  <2>6. QED
    BY <1>5, <1>19, <2>3, <2>4, <2>5
<1>21. ExactOK(r)'
  <2>1. SUFFICES ASSUME r \notin Edited PROVE Q = {f \in FilesOf[r] : disk'[r][f] # 2}
    BY <1>7 DEF ExactOK
  <2>2. \A f \in FilesOf[r] : disk'[r][f] = disk[r][f]
    <3>1. \A f \in FilesOf[r] : f \in Files /\ info[f] # 0
      BY <1>4, <1>11, FilesFinite
    <3>2. QED
      BY <1>6, <1>7, <3>1
  <2>3. QED
    BY <1>10, <2>1, <2>2
\* Nothing is coming, or what is asked for is awaited, or r gets into mixed.
<1>22. \/ /\ mixed' = mixed \ {r}
          /\ \A i \in DOMAIN to_client : ~ FileAt(i, r)
          /\ \A i \in DOMAIN to_server : AskedAt(i, r) => to_server[i].files = {}
       \/ /\ mixed' = mixed /\ Q = awaited[r] /\ r \in resources
       \/ /\ mixed' = mixed \union {r} /\ Q # awaited[r] /\ r \in resources
  <2>1. CASE FilesComing(r) = {} /\ FilesAsked(r) = {}
    <3>1. mixed' = mixed \ {r}
      BY <1>2, <1>7, <2>1 DEF Mixed
    <3>2. \A i \in DOMAIN to_client : ~ FileAt(i, r)
      BY <2>1 DEF FilesComing, FileAt
    <3>3. ASSUME NEW i \in DOMAIN to_server, AskedAt(i, r), to_server[i].files # {} PROVE FALSE
      <4>1. to_server \in Seq(Request)
        BY DEF TypeOK
      <4>2. to_server[i].files \in SUBSET Files
        <5>1. to_server[i] \in Request
          BY <3>3, <4>1
        <5>2. QED
          BY <5>1 DEF Request
      <4>3. PICK f \in Files : f \in to_server[i].files
        BY <3>3, <4>2
      <4>4. <<i, f>> \in FilesAsked(r)
        BY <3>3, <4>3 DEF FilesAsked, AskedAt
      <4>5. QED
        BY <2>1, <4>4
    <3>4. QED
      BY <3>1, <3>2, <3>3
  <2>2. CASE ~ (FilesComing(r) = {} /\ FilesAsked(r) = {})
    <3>1. r \in resources
      BY <2>2 DEF Sound, FreshOK, FilesComing, FilesAsked, FileAt, AskedAt
    <3>2. IF Q = awaited[r] THEN mixed' = mixed ELSE mixed' = mixed \union {r}
      BY <1>2, <1>7, <2>2 DEF Mixed, Q
    <3>3. QED
      BY <3>1, <3>2
  <2>3. QED
    BY <2>1, <2>2
<1>23. MixedOK(r)'
  <2>1. SUFFICES ASSUME r \in mixed', r \notin mixed PROVE r \in Restarted /\ r \in Edited
    BY DEF Sound, MixedOK
  <2>2. Q # awaited[r] /\ r \in resources
    BY <1>22, <2>1
  <2>3. r \in Restarted
    BY <1>9, <2>2
  <2>4. r \in Edited
    BY <1>10, <2>2 DEF Sound, ExactOK
  <2>5. QED
    BY <2>3, <2>4
<1>24. MissingOK(r)'
  <2>1. SUFFICES ASSUME r \notin mixed', Q # {} PROVE SentOK(r)' \/ AskedOK(r)'
    <3>1. Cardinality(Q) \in Nat
      BY <1>6, FilesFinite
    <3>2. Cardinality(Q) + 0 = Cardinality(Q)
      BY <3>1
    <3>3. QED
      BY <1>7, <1>19, <2>1, <3>2 DEF MissingOK
  <2> DEFINE q == [rsrc |-> r, files |-> Q]
  <2>2. /\ to_server \in Seq(Request) /\ q.rsrc = r /\ q.files = Q
        /\ to_server' = Append(to_server, q)
    BY <1>8, <2>1 DEF TypeOK
  <2>3. PICK L \in Nat :
          /\ DOMAIN to_server = 1 .. L /\ DOMAIN to_server' = 1 .. L + 1
          /\ \A i \in 1 .. L : to_server'[i] = to_server[i]
          /\ to_server'[L + 1] = q
    <3>1. /\ Len(to_server) \in Nat /\ DOMAIN to_server = 1 .. Len(to_server)
          /\ DOMAIN to_server' = 1 .. Len(to_server) + 1
          /\ \A i \in 1 .. Len(to_server) : to_server'[i] = to_server[i]
          /\ to_server'[Len(to_server) + 1] = q
      BY <2>2
    <3>2. QED
      BY <3>1
  <2> HIDE DEF q
  <2>4. \A i \in 1 .. L : i \in DOMAIN to_server' /\ (AskedAt(i, r)' <=> AskedAt(i, r))
    BY <2>3 DEF AskedAt
  <2>5. CASE /\ \A i \in DOMAIN to_client : ~ FileAt(i, r)
             /\ \A i \in DOMAIN to_server : AskedAt(i, r) => to_server[i].files = {}
    <3>1. \A i \in DOMAIN to_client' : ~ FileAt(i, r)'
      BY <1>12, <2>5
    <3>2. /\ L + 1 \in DOMAIN to_server' /\ AskedAt(L + 1, r)'
          /\ to_server'[L + 1].files = Q
      BY <2>2, <2>3 DEF AskedAt
    <3>3. \A j \in DOMAIN to_server' : j < L + 1 => j \in 1 .. L
      BY <2>3
    <3>4. \A j \in DOMAIN to_server' : j < L + 1 /\ AskedAt(j, r)' => to_server'[j].files = {}
      BY <2>3, <2>4, <2>5, <3>3
    <3>5. FirstAsked(r, awaited[r])'
      BY <1>7, <3>2, <3>4 DEF FirstAsked
    <3>6. QED
      BY <3>1, <3>5 DEF AskedOK
  <2>6. CASE mixed' = mixed /\ Q = awaited[r] /\ r \in resources
    <3>1. (SentOK(r) \/ AskedOK(r)) /\ (Exists(r)' <=> Exists(r))
      BY <1>1, <2>1, <2>6 DEF Sound, MissingOK, Exists
    <3>2. CASE SentOK(r)
      <4>1. ASSUME NEW f \in Q
            PROVE  \E i \in DOMAIN to_client' : FileAt(i, r)' /\ to_client'[i].file = f
        <5>1. PICK j \in DOMAIN to_client : FileAt(j, r) /\ to_client[j].file = f
          BY <2>6, <3>2, <4>1 DEF SentOK
        <5>2. QED
          BY <1>2, <1>13, <5>1
      <4>2. ASSUME NEW i \in DOMAIN to_client', FileAt(i, r)'
            PROVE  \/ to_client'[i].file \in Q /\ ~ Sent(r, to_client[i].file, i)'
                   \/ \A f \in Q : Sent(r, f, i)'
        BY <1>12, <2>6, <3>2, <4>2 DEF SentOK
      <4>3. SentOK(r)'
        BY <1>7, <4>1, <4>2 DEF SentOK
      <4>4. QED
        BY <4>3
    <3>3. CASE AskedOK(r)
      <4>1. \A i \in DOMAIN to_client' : ~ FileAt(i, r)'
        BY <1>12, <3>3 DEF AskedOK
      <4>2. ASSUME Exists(r)
            PROVE  FirstAsked(r, awaited[r])'
        <5>1. PICK i \in 1 .. L :
                /\ AskedAt(i, r) /\ to_server[i].files = Q
                /\ \A j \in 1 .. L : j < i /\ AskedAt(j, r) => to_server[j].files = {}
          BY <2>3, <2>6, <3>3, <4>2 DEF AskedOK, FirstAsked
        <5>2. \A j \in DOMAIN to_server' : j < i => j \in 1 .. L
          BY <2>3
        <5>3. /\ i \in DOMAIN to_server' /\ AskedAt(i, r)' /\ to_server'[i].files = Q
              /\ \A j \in DOMAIN to_server' : j < i /\ AskedAt(j, r)' => to_server'[j].files = {}
          BY <2>3, <2>4, <5>1, <5>2
        <5>4. QED
          BY <1>7, <5>3 DEF FirstAsked
      <4>3. AskedOK(r)'
        BY <3>1, <4>1, <4>2 DEF AskedOK
      <4>4. QED
        BY <4>3
    <3>4. QED
      BY <3>1, <3>2, <3>3
  <2>7. QED
    BY <1>22, <2>1, <2>5, <2>6
<1>25. RunningOK(r)'
  <2>1. SUFFICES ASSUME r \in running', Q # {} PROVE FALSE
    BY <1>7 DEF RunningOK
  <2>2. r \in downloading_resources' /\ ~ UpToDate(m)
    BY <1>8, <1>19, <2>1
  <2>3. r \notin running'
    BY <1>2, <1>3, <2>2 DEF HandleSync, EndDownload, StartIf, AllUpToDate
  <2>4. QED
    BY <2>1, <2>3
<1>26. QED
  BY <1>15, <1>16, <1>17, <1>18, <1>20, <1>21, <1>23, <1>24, <1>25 DEF Sound

\* A file of r.
LEMMA FileHandledKeeps ==
    ASSUME TypeOK, TypeOK', HandleMessage, NEW r \in Resources, Sound(r), FileAt(1, r)
    PROVE  Sound(r)'
<1> DEFINE m == to_client[1]
           g == m.file
<1>1. /\ 1 \in DOMAIN to_client /\ m \in Message
      /\ HandleList(m) \/ HandleSync(m) \/ HandleFile(m)
      /\ Shorter(to_client, to_client')
      /\ UNCHANGED <<status, time, resources_to_sync>>
      /\ r \in Resources
  BY HeadHandled DEF serverVars
<1>2. /\ m.type = "File" /\ m.rsrc = r /\ g \in Files /\ m.lwt \in Nat
      /\ ~ AnnouncedAt(1, r) /\ ~ ListedAt(1, r)
      /\ to_client[1].file = g
  BY <1>1, MessageFields DEF AnnouncedAt, FileAt, ListedAt
<1>3. HandleFile(m)
  BY <1>1, <1>2 DEF HandleList, HandleSync
<1>4. r \in resources
  BY <1>1 DEF Sound, FreshOK
<1>5. m.lwt \in announced[r][g] .. time[r][g] /\ 2 <= m.lwt
  BY <1>1 DEF Sound, TimesOK
<1> HIDE DEF m, g
<1>6. /\ resources' = resources /\ announced' = announced /\ to_server' = to_server
      /\ files_downloaded'[r] = files_downloaded[r] + 1
      /\ files_to_download'[r] = files_to_download[r]
  BY <1>1, <1>2, <1>3, <1>4 DEF HandleFile, TypeOK, g
<1>7. \A f \in Files : /\ disk'[r][f] = IF f = g THEN m.lwt ELSE disk[r][f]
                       /\ disk[r][f] \in Nat /\ announced[r][f] \in Nat /\ time[r][f] \in Nat
  BY <1>1, <1>2, <1>3 DEF HandleFile, TypeOK, Times, g
<1>8. awaited'[r] = awaited[r] \ {g} /\ mixed' = mixed
  BY <1>1, <1>2, <1>3 DEF HandleFile, TypeOK, g
<1>9. r \notin mixed /\ awaited[r] # {} =>
        /\ g \in awaited[r]
        /\ \A i \in DOMAIN to_client : FileAt(i, r) => to_client[i].file # g \/ i = 1 \/ Sent(r, g, i)
        /\ r \in downloading_resources /\ SentOK(r)
        /\ Cardinality(awaited[r]) + files_downloaded[r] = files_to_download[r]
  <2>1. SUFFICES ASSUME r \notin mixed, awaited[r] # {}
                 PROVE  /\ g \in awaited[r]
                        /\ \A i \in DOMAIN to_client : FileAt(i, r) =>
                             to_client[i].file # g \/ i = 1 \/ Sent(r, g, i)
                        /\ r \in downloading_resources /\ SentOK(r)
                        /\ Cardinality(awaited[r]) + files_downloaded[r] = files_to_download[r]
    OBVIOUS
  <2>2. /\ r \in downloading_resources /\ (SentOK(r) \/ AskedOK(r))
        /\ Cardinality(awaited[r]) + files_downloaded[r] = files_to_download[r]
    BY <1>4, <2>1 DEF Sound, MissingOK
  <2>3. SentOK(r)
    BY <1>1, <2>2 DEF AskedOK
  <2>4. \A i \in DOMAIN to_client : ~ (i < 1) /\ (i # 1 => 1 < i)
    BY <1>1 DEF Shorter
  <2>5. \A f : ~ Sent(r, f, 1)
    BY <2>4 DEF Sent
  <2>6. g \in awaited[r]
    BY <1>1, <1>2, <2>1, <2>3, <2>5 DEF SentOK
  <2>7. \A i \in DOMAIN to_client : i = 1 \/ Sent(r, g, i)
    BY <1>1, <1>2, <2>4 DEF Sent
  <2>8. QED
    BY <2>2, <2>3, <2>6, <2>7
\* The counters meet when nothing is missing.
<1>10. r \notin mixed =>
         /\ files_downloaded[r] + 1 = files_to_download[r] => awaited'[r] = {}
         /\ awaited'[r] # {} =>
              /\ awaited[r] # {} /\ r \in downloading_resources'
              /\ Cardinality(awaited'[r]) + files_downloaded'[r] = files_to_download'[r]
  <2>0. SUFFICES ASSUME r \notin mixed
                 PROVE  /\ files_downloaded[r] + 1 = files_to_download[r] => awaited'[r] = {}
                        /\ awaited'[r] # {} =>
                             /\ awaited[r] # {} /\ r \in downloading_resources'
                             /\ Cardinality(awaited'[r]) + files_downloaded'[r] =
                                  files_to_download'[r]
    OBVIOUS
  <2>1. CASE awaited[r] = {}
    BY <1>8, <2>1
  <2>2. CASE awaited[r] # {}
    <3>1. IsFiniteSet(awaited[r]) /\ Cardinality(awaited[r]) \in Nat
      <4>1. awaited[r] \in SUBSET Files
        BY DEF TypeOK
      <4>2. QED
        BY <4>1, FilesFinite
    <3>2. /\ IsFiniteSet(awaited'[r]) /\ Cardinality(awaited'[r]) \in Nat
          /\ Cardinality(awaited'[r]) = Cardinality(awaited[r]) - 1
      <4>1. /\ IsFiniteSet(awaited[r] \ {g})
            /\ Cardinality(awaited[r] \ {g}) = Cardinality(awaited[r]) - 1
        BY <1>9, <2>0, <2>2, <3>1, FS_RemoveElement
      <4>2. Cardinality(awaited[r] \ {g}) \in Nat
        BY <4>1, FS_CardinalityType
      <4>3. QED
        BY <1>8, <4>1, <4>2
    <3>3. files_downloaded[r] \in Nat /\ files_to_download[r] \in Nat
      BY <1>1 DEF TypeOK
    <3>4. Cardinality(awaited[r]) + files_downloaded[r] = files_to_download[r]
      BY <1>9, <2>0, <2>2
    <3>5. files_downloaded[r] + 1 = files_to_download[r] => awaited'[r] = {}
      <4>1. files_downloaded[r] + 1 = files_to_download[r] => Cardinality(awaited'[r]) = 0
        BY <3>1, <3>2, <3>3, <3>4
      <4>2. Cardinality(awaited'[r]) = 0 => awaited'[r] = {}
        BY <3>2, FS_EmptySet
      <4>3. QED
        BY <4>1, <4>2
    <3>6. Cardinality(awaited'[r]) + files_downloaded'[r] = files_to_download'[r]
      BY <1>6, <3>1, <3>2, <3>3, <3>4
    <3>7. files_downloaded[r] + 1 # files_to_download[r] => r \in downloading_resources'
      BY <1>2, <1>3, <1>9, <2>0, <2>2 DEF HandleFile
    <3>8. QED
      BY <2>2, <3>5, <3>6, <3>7
  <2>3. QED
    BY <2>1, <2>2
<1>11. \A i \in DOMAIN to_client' :
        /\ i \in Nat /\ i + 1 \in DOMAIN to_client /\ to_client'[i] = to_client[i + 1]
        /\ AnnouncedAt(i, r)' <=> AnnouncedAt(i + 1, r)
        /\ FileAt(i, r)' <=> FileAt(i + 1, r)
        /\ \A f : f # g => (Sent(r, f, i)' <=> Sent(r, f, i + 1))
  BY <1>1, <1>2, MessagesShift
<1>12. \A j \in DOMAIN to_client : j # 1 =>
        \E i \in DOMAIN to_client' :
          /\ j = i + 1 /\ to_client'[i] = to_client[j]
          /\ FileAt(i, r)' <=> FileAt(j, r)
          /\ ListedAt(i, r)' <=> ListedAt(j, r)
  BY <1>1, MessagesShift
<1>13. TimesOK(r)'
  <2>1. TimesOK(r)
    BY DEF Sound
  <2>2. ASSUME NEW f \in Files, f \notin awaited'[r]
        PROVE  disk'[r][f] \in announced[r][f] .. time[r][f]
    BY <1>4, <1>5, <1>7, <1>8, <2>1, <2>2 DEF TimesOK
  <2>3. ASSUME NEW i \in DOMAIN to_client', AnnouncedAt(i, r)', NEW f \in Files
        PROVE  IF f \in FilesOf[r] THEN to_client'[i].info[f] \in 2 .. time[r][f]
                                   ELSE to_client'[i].info[f] = NoFile
    BY <1>11, <2>1, <2>3 DEF TimesOK
  <2>4. ASSUME NEW i \in DOMAIN to_client', FileAt(i, r)'
        PROVE  /\ to_client'[i].lwt \in
                    announced[r][to_client'[i].file] .. time[r][to_client'[i].file]
               /\ 2 <= to_client'[i].lwt
    BY <1>11, <2>1, <2>4 DEF TimesOK
  <2>5. QED
    BY <1>1, <1>4, <1>6, <2>1, <2>2, <2>3, <2>4 DEF TimesOK
<1>14. OnceOK(r)'
  <2>1. SUFFICES ASSUME r \notin Restarted
                 PROVE  /\ \A i, j \in DOMAIN to_client' :
                             AnnouncedAt(i, r)' /\ AnnouncedAt(j, r)' => i = j
                        /\ (\A i \in DOMAIN to_client : ~ AnnouncedAt(i, r)) =>
                             \A i \in DOMAIN to_client' : ~ AnnouncedAt(i, r)'
    BY <1>1, <1>6 DEF OnceOK, Sound
  <2>2. \A i, j \in DOMAIN to_client : AnnouncedAt(i, r) /\ AnnouncedAt(j, r) => i = j
    BY <2>1 DEF Sound, OnceOK
  <2>3. \A i, j \in Nat : i + 1 = j + 1 => i = j
    OBVIOUS
  <2>4. QED
    BY <1>11, <2>2, <2>3
<1>15. FreshOK(r)'
  BY <1>4, <1>6 DEF FreshOK
<1>16. ListedOK(r)'
  <2>1. SUFFICES ASSUME NEW i \in DOMAIN to_client', AnnouncedAt(i, r)'
                 PROVE  \E j \in DOMAIN to_client' : j < i /\ ListedAt(j, r)'
    BY DEF ListedOK
  <2>2. i \in Nat /\ i + 1 \in DOMAIN to_client /\ AnnouncedAt(i + 1, r) /\ 1 < i + 1
    BY <1>1, <1>11, <2>1 DEF Shorter
  <2>3. ListedBetween(1, i + 1, r)
    BY <1>1, <2>2 DEF Sound, BatchOK
  <2>4. PICK k \in DOMAIN to_client : 1 < k /\ k < i + 1 /\ ListedAt(k, r)
    BY <2>3 DEF ListedBetween
  <2>5. PICK j \in DOMAIN to_client' : k = j + 1 /\ ListedAt(j, r)'
    BY <1>12, <2>4
  <2>6. j < i
    BY <1>11, <2>2, <2>4, <2>5
  <2>7. QED
    BY <2>5, <2>6
<1>17. MissingOK(r)'
  <2>1. SUFFICES ASSUME r \notin mixed, awaited'[r] # {} PROVE SentOK(r)'
    BY <1>8, <1>10 DEF MissingOK
  <2>2. SentOK(r)
    BY <1>9, <1>10, <2>1
  <2>3. ASSUME NEW f \in awaited[r] \ {g}
        PROVE  \E i \in DOMAIN to_client' : FileAt(i, r)' /\ to_client'[i].file = f
    <3>1. PICK j \in DOMAIN to_client : FileAt(j, r) /\ to_client[j].file = f
      BY <2>2 DEF SentOK
    <3>2. j # 1
      BY <1>2, <2>3, <3>1
    <3>3. QED
      BY <1>12, <3>1, <3>2
  <2>4. ASSUME NEW i \in DOMAIN to_client', FileAt(i, r)'
        PROVE  \/ to_client'[i].file \in awaited[r] \ {g} /\ ~ Sent(r, to_client[i].file, i)'
               \/ \A f \in awaited[r] \ {g} : Sent(r, f, i)'
    <3>1. /\ i \in Nat /\ i + 1 \in DOMAIN to_client /\ to_client'[i] = to_client[i + 1]
          /\ FileAt(i + 1, r)
      BY <1>11, <2>4
    <3>2. CASE \A f \in awaited[r] : Sent(r, f, i + 1)
      BY <1>11, <3>2
    <3>3. CASE to_client[i + 1].file \in awaited[r] /\ ~ Sent(r, to_client[i + 1].file, i + 1)
      <4>1. i + 1 # 1
        BY <1>1, <2>4, <3>1 DEF Shorter
      <4>2. to_client[i + 1].file # g
        BY <1>9, <1>10, <2>1, <3>1, <3>3, <4>1
      <4>3. QED
        BY <1>11, <3>1, <3>3, <4>2
    <3>4. QED
      BY <2>2, <3>1, <3>2, <3>3 DEF SentOK
  <2>5. QED
    BY <1>8, <2>3, <2>4 DEF SentOK
<1>18. RunningOK(r)'
  <2>1. SUFFICES ASSUME r \in running', r \notin mixed, awaited'[r] # {} PROVE FALSE
    BY <1>8 DEF RunningOK
  <2>2. r \in downloading_resources' /\ files_downloaded[r] + 1 # files_to_download[r]
    BY <1>10, <2>1
  <2>3. r \in running
    BY <1>2, <1>3, <2>1, <2>2 DEF HandleFile, EndDownload, StartIf, NothingLeft
  <2>4. awaited[r] = {}
    BY <2>1, <2>3 DEF Sound, RunningOK
  <2>5. QED
    BY <1>10, <2>1, <2>4
<1>19. OrderOK(r)' /\ BatchOK(r)'
  BY <1>1, OrderShift DEF Sound
<1>20. ExactOK(r)' /\ MixedOK(r)'
  <2>1. ASSUME r \notin Edited
        PROVE  awaited[r] \ {g} = {f \in FilesOf[r] : disk'[r][f] # 2}
    <3>1. awaited[r] = {f \in FilesOf[r] : disk[r][f] # 2}
      BY <1>4, <2>1 DEF Sound, ExactOK
    <3>2. time[r][g] = 2
      BY <1>2, <2>1 DEF Sound, TimesOK
    <3>3. m.lwt = 2
      BY <1>2, <1>5, <1>7, <3>2
    <3>4. \A f \in FilesOf[r] : f \in Files
      BY FilesFinite
    <3>5. QED
      BY <1>7, <3>1, <3>3, <3>4
  <2>2. QED
    BY <1>4, <1>6, <1>8, <2>1 DEF Sound, ExactOK, MixedOK
<1>21. QED
  BY <1>13, <1>14, <1>15, <1>16, <1>17, <1>18, <1>19, <1>20 DEF Sound

LEMMA DownloadSoundInit ==
    ASSUME Init
    PROVE  \A r \in Resources : Sound(r)
<1>1. SUFFICES ASSUME NEW r \in Resources PROVE Sound(r)
  OBVIOUS
<1>2. /\ to_client = <<>> /\ to_server = <<>> /\ resources = {} /\ running = {}
      /\ r \in Resources
  BY DEF Init
<1>3. DOMAIN to_client = {} /\ DOMAIN to_server = {}
  BY <1>2
<1>4. TimesOK(r)
  <2>1. \A f \in Files : time[r][f] = 2 /\ announced[r][f] = NoFile
    BY <1>2 DEF Init, NoTimes
  <2>2. QED
    BY <1>2, <1>3, <2>1 DEF TimesOK, NoFile
<1>5. OnceOK(r)
  <2> DEFINE S == {x \in Resources : status[x] = "Running"}
             n == Cardinality(S)
  <2>1. /\ resources_to_sync \in [1 .. n -> S]
        /\ \A i, j \in 1 .. n : i # j => resources_to_sync[i] # resources_to_sync[j]
    BY DEF Init, SetToSeqs
  <2> HIDE DEF n
  <2>2. DOMAIN resources_to_sync = 1 .. n
    BY <2>1
  <2>3. \A i \in 1 .. n : status[resources_to_sync[i]] = "Running"
    BY <2>1
  <2>4. \A i, j \in DOMAIN resources_to_sync :
          resources_to_sync[i] = r /\ resources_to_sync[j] = r => i = j
    BY <2>1, <2>2
  <2>5. status[r] # "Running" => \A i \in DOMAIN resources_to_sync : resources_to_sync[i] # r
    BY <2>2, <2>3
  <2>6. QED
    BY <1>2, <1>3, <2>4, <2>5 DEF OnceOK
<1>6. /\ OrderOK(r) /\ BatchOK(r) /\ FreshOK(r) /\ ListedOK(r) /\ ExactOK(r)
      /\ MissingOK(r) /\ RunningOK(r)
  BY <1>2, <1>3 DEF OrderOK, BatchOK, FreshOK, ListedOK, ExactOK, MissingOK, RunningOK
<1>7. MixedOK(r)
  BY DEF Init, MixedOK
<1>8. QED
  BY <1>4, <1>5, <1>6, <1>7 DEF Sound

LEMMA DownloadStep == DownloadInv /\ [Next]_vars => DownloadInv'
<1> SUFFICES ASSUME DownloadInv, [Next]_vars PROVE DownloadInv'
  OBVIOUS
<1>1. TypeOK /\ \A r \in Resources : Sound(r)
  BY DEF DownloadInv
<1>2. TypeOK'
  BY <1>1, DownloadTypeStep
<1>3. SUFFICES ASSUME NEW r \in Resources PROVE Sound(r)'
  BY <1>2 DEF DownloadInv
<1>4. Sound(r)
  BY <1>1
<1>5. ASSUME NEW x \in Resources, StartResource(x) PROVE Sound(r)'
  BY <1>1, <1>2, <1>4, <1>5, StartKeeps
<1>6. ASSUME NEW x \in Resources, StopResource(x) \/ RefreshAway(x) PROVE Sound(r)'
  BY <1>1, <1>2, <1>4, <1>6, StopRefreshKeeps
<1>7. ASSUME NEW x \in Resources, NEW g \in Files, EditFile(x, g) PROVE Sound(r)'
  BY <1>1, <1>2, <1>4, <1>7, EditKeeps
<1>8. CASE SyncPendingResources
  BY <1>1, <1>2, <1>4, <1>8, SyncKeeps
<1>9. CASE Answer
  BY <1>1, <1>2, <1>4, <1>9, AnswerKeeps
<1>10. CASE HandleMessage
  <2>1. CASE AnnouncedAt(1, r)
    BY <1>1, <1>2, <1>4, <1>10, <2>1, SyncHandledKeeps
  <2>2. CASE FileAt(1, r)
    BY <1>1, <1>2, <1>4, <1>10, <2>2, FileHandledKeeps
  <2>3. QED
    BY <1>1, <1>2, <1>4, <1>10, <2>1, <2>2, OtherHandledKeeps
<1>11. CASE HandleStop
  BY <1>1, <1>2, <1>4, <1>11, StopHandledKeeps
<1>12. CASE UNCHANGED vars
  <2>1. UNCHANGED <<status, time, resources_to_sync, to_client, to_server, resources, running,
                    disk, announced, awaited, mixed, files_to_download, files_downloaded,
                    downloading_resources>>
    BY <1>12 DEF vars, serverVars, clientVars
  <2>2. OnceOK(r)' /\ (Exists(r)' => Exists(r))
    BY <1>4, <2>1 DEF Sound, OnceOK, AnnouncedAt, Exists
  <2>3. \A f \in Files : time'[r][f] >= time[r][f]
    BY <1>1, <2>1 DEF TypeOK, Times
  <2>4. QED
    BY <1>1, <1>2, <1>4, <2>1, <2>2, <2>3, QuietKeeps
<1>13. QED
  BY <1>5, <1>6, <1>7, <1>8, <1>9, <1>10, <1>11, <1>12 DEF Next

\* Whatever the client kept and however its packets mix, every counter and list
\* of the download has its type, and it runs and keeps up to date only resources
\* it has.
THEOREM DownloadTypeCorrect == Spec => []TypeOK
<1>1. QED
  BY DownloadTypeInit, DownloadTypeStep, PTL DEF Spec

\* What the client awaits of a resource is under way or asked for, and its counters
\* count exactly that, unless files of two requests of the resource mix; and that
\* happens only to a resource that is both stopped and edited.  Whatever the client
\* kept of earlier sessions, the rest is as announced or newer.
THEOREM DownloadInvariant == Spec => []DownloadInv
<1>1. Init => DownloadInv
  BY DownloadTypeInit, DownloadSoundInit DEF DownloadInv
<1>2. QED
  BY <1>1, DownloadStep, PTL DEF Spec

\* "start the script right away once we downloaded all its files": what runs on
\* the client has every file as announced or newer, but for a resource announced
\* again with other files to ask for while files of an earlier request were still
\* coming.  Only resources that somebody both stops and edits get there.
THEOREM StartsComplete == Spec => []StartedComplete
<1>1. DownloadInv => StartedComplete
  <2>1. ASSUME DownloadInv, NEW r \in running, r \notin mixed, NEW f \in Files
        PROVE  disk[r][f] \in announced[r][f] .. time[r][f]
    <3>1. r \in Resources /\ r \in resources
      BY <2>1 DEF DownloadInv, TypeOK
    <3>2. awaited[r] = {}
      BY <2>1, <3>1 DEF DownloadInv, Sound, RunningOK
    <3>3. QED
      BY <2>1, <3>1, <3>2 DEF DownloadInv, Sound, TimesOK
  <2>2. ASSUME DownloadInv PROVE mixed \subseteq Restarted \intersect Edited
    BY <2>2 DEF DownloadInv, TypeOK, Sound, MixedOK
  <2>3. QED
    BY <2>1, <2>2 DEF StartedComplete
<1>2. QED
  BY <1>1, DownloadInvariant, PTL

-----------------------------------------------------------------------------
(* Counting what is under way                                              *)

\* The places of a queue where a packet of K is, and the files that the requests
\* in a queue name for r.
At(s, K) == {i \in DOMAIN s : s[i] \in K}
AskedIn(s, r) ==
    {a \in (DOMAIN s) \X Files : s[a[1]].rsrc = r /\ a[2] \in s[a[1]].files}

LEMMA OneToOne ==
    ASSUME NEW S, NEW T, IsFiniteSet(S), NEW g \in [S -> T],
           \A x, y \in S : g[x] = g[y] => x = y,
           \A y \in T : \E x \in S : g[x] = y
    PROVE  IsFiniteSet(T) /\ Cardinality(T) = Cardinality(S)
<1>1. g \in Bijection(S, T)
  BY DEF Bijection, Injection, Surjection, IsInjective
<1>2. QED
  BY <1>1, FS_Bijection DEF ExistsBijection

\* A finite set in two parts.
LEMMA TwoParts ==
    ASSUME NEW S, NEW U, NEW V, IsFiniteSet(S), S = U \union V, U \intersect V = {}
    PROVE  /\ IsFiniteSet(U) /\ IsFiniteSet(V)
           /\ Cardinality(U) \in Nat /\ Cardinality(V) \in Nat
           /\ Cardinality(S) = Cardinality(U) + Cardinality(V)
<1>1. U \in SUBSET S /\ V \in SUBSET S
  OBVIOUS
<1>2. IsFiniteSet(U) /\ IsFiniteSet(V)
  BY <1>1, FS_Subset
<1>3. Cardinality(U \union V) = Cardinality(U) + Cardinality(V) - Cardinality(U \intersect V)
  BY <1>2, FS_Union
<1>4. Cardinality(U \intersect V) = 0
  BY FS_EmptySet
<1>5. Cardinality(U) \in Nat /\ Cardinality(V) \in Nat
  BY <1>2, FS_CardinalityType
<1>6. QED
  BY <1>2, <1>3, <1>4, <1>5

LEMMA AtLonger ==
    ASSUME NEW s, NEW n \in Nat, NEW b, NEW t, Longer(s, n, b, t), NEW K
    PROVE  LET new == {k \in 1 .. n : b[k] \in K} IN
           /\ Cardinality(At(s, K)) \in Nat /\ Cardinality(new) \in Nat
           /\ Cardinality(At(t, K)) = Cardinality(At(s, K)) + Cardinality(new)
<1> DEFINE new == {k \in 1 .. n : b[k] \in K}
<1>1. PICK L \in Nat :
        /\ DOMAIN s = 1 .. L
        /\ DOMAIN t = 1 .. L + n
        /\ \A i \in 1 .. L : t[i] = s[i]
        /\ \A k \in 1 .. n : t[L + k] = b[k]
  BY DEF Longer
<1> DEFINE V == {i \in At(t, K) : i > L}
           g == [k \in new |-> L + k]
<1>2. IsFiniteSet(At(t, K)) /\ IsFiniteSet(new)
  <2>1. IsFiniteSet(1 .. L + n) /\ IsFiniteSet(1 .. n)
    BY FS_Interval
  <2>2. At(t, K) \in SUBSET (1 .. L + n) /\ new \in SUBSET (1 .. n)
    BY <1>1 DEF At
  <2>3. QED
    BY <2>1, <2>2, FS_Subset
<1>3. At(t, K) = At(s, K) \union V /\ At(s, K) \intersect V = {}
  BY <1>1 DEF At
<1>4. g \in [new -> V] /\ \A j, k \in new : g[j] = g[k] => j = k
  BY <1>1 DEF At
<1>5. ASSUME NEW i \in V PROVE \E k \in new : g[k] = i
  <2>1. i - L \in 1 .. n /\ L + (i - L) = i /\ t[i] \in K
    BY <1>1 DEF At
  <2>2. i - L \in new
    BY <1>1, <2>1
  <2>3. QED
    BY <2>1, <2>2
<1>6. Cardinality(V) = Cardinality(new) /\ Cardinality(new) \in Nat
  <2> HIDE DEF V, new, g
  <2>1. Cardinality(V) = Cardinality(new)
    BY <1>2, <1>4, <1>5, OneToOne
  <2>2. QED
    BY <1>2, <2>1, FS_CardinalityType
<1>7. /\ Cardinality(At(s, K)) \in Nat
      /\ Cardinality(At(t, K)) = Cardinality(At(s, K)) + Cardinality(V)
  <2> HIDE DEF V
  <2>1. QED
    BY <1>2, <1>3, TwoParts
<1>8. QED
  BY <1>6, <1>7

LEMMA AtShorter ==
    ASSUME NEW s, NEW t, Shorter(s, t), NEW K
    PROVE  /\ Cardinality(At(s, K)) \in Nat /\ Cardinality(At(t, K)) \in Nat
           /\ Cardinality(At(s, K)) =
                Cardinality(At(t, K)) + IF s[1] \in K THEN 1 ELSE 0
<1>1. PICK L \in Nat :
        /\ DOMAIN s = 1 .. L + 1 /\ DOMAIN t = 1 .. L
        /\ \A i \in 1 .. L : t[i] = s[i + 1]
  BY DEF Shorter
<1> DEFINE U == {i \in At(s, K) : i = 1}
           V == {i \in At(s, K) : i > 1}
           g == [i \in At(t, K) |-> i + 1]
<1>2. IsFiniteSet(At(s, K)) /\ IsFiniteSet(At(t, K))
  <2>1. IsFiniteSet(1 .. L + 1) /\ IsFiniteSet(1 .. L)
    BY FS_Interval
  <2>2. At(s, K) \in SUBSET (1 .. L + 1) /\ At(t, K) \in SUBSET (1 .. L)
    BY <1>1 DEF At
  <2>3. QED
    BY <2>1, <2>2, FS_Subset
<1>3. At(s, K) = U \union V /\ U \intersect V = {}
  BY <1>1 DEF At
<1>4. g \in [At(t, K) -> V] /\ \A i, j \in At(t, K) : g[i] = g[j] => i = j
  BY <1>1 DEF At
<1>5. ASSUME NEW i \in V PROVE \E j \in At(t, K) : g[j] = i
  <2>1. i - 1 \in 1 .. L /\ (i - 1) + 1 = i /\ s[i] \in K
    BY <1>1 DEF At
  <2>2. i - 1 \in At(t, K)
    BY <1>1, <2>1 DEF At
  <2>3. QED
    BY <2>1, <2>2
<1>6. Cardinality(V) = Cardinality(At(t, K)) /\ Cardinality(At(t, K)) \in Nat
  <2> HIDE DEF V, g
  <2>1. Cardinality(V) = Cardinality(At(t, K))
    BY <1>2, <1>4, <1>5, OneToOne
  <2>2. QED
    BY <1>2, <2>1, FS_CardinalityType
<1>7. U = IF s[1] \in K THEN {1} ELSE {}
  BY <1>1 DEF At
<1>8. Cardinality(U) = IF s[1] \in K THEN 1 ELSE 0
  <2> HIDE DEF U
  <2>1. QED
    BY <1>7, FS_Singleton, FS_EmptySet
<1>9. Cardinality(At(s, K)) = Cardinality(U) + Cardinality(V)
  <2> HIDE DEF U, V
  <2>1. QED
    BY <1>2, <1>3, TwoParts
<1>10. QED
  BY <1>6, <1>8, <1>9

LEMMA AskedShorter ==
    ASSUME NEW s \in Seq(Request), NEW t \in Seq(Request), Shorter(s, t), NEW r
    PROVE  /\ Cardinality(AskedIn(s, r)) \in Nat /\ Cardinality(AskedIn(t, r)) \in Nat
           /\ Cardinality(AskedIn(s, r)) =
                Cardinality(AskedIn(t, r))
                  + IF s[1].rsrc = r THEN Cardinality(s[1].files) ELSE 0
<1>1. PICK L \in Nat :
        /\ DOMAIN s = 1 .. L + 1 /\ DOMAIN t = 1 .. L
        /\ \A i \in 1 .. L : t[i] = s[i + 1]
  BY DEF Shorter
<1> DEFINE A == AskedIn(s, r)
           B == AskedIn(t, r)
           U == {a \in A : a[1] = 1}
           V == {a \in A : a[1] > 1}
           g == [a \in B |-> <<a[1] + 1, a[2]>>]
           h == [f \in s[1].files |-> <<1, f>>]
<1>2. IsFiniteSet(A) /\ IsFiniteSet(B)
  <2>1. IsFiniteSet(1 .. L + 1) /\ IsFiniteSet(1 .. L) /\ IsFiniteSet(Files)
    BY FS_Interval, DownloadAssumption DEF DownloadAssumption
  <2>2. IsFiniteSet((1 .. L + 1) \X Files) /\ IsFiniteSet((1 .. L) \X Files)
    BY <2>1, FS_Product
  <2>3. A \in SUBSET ((1 .. L + 1) \X Files) /\ B \in SUBSET ((1 .. L) \X Files)
    BY <1>1 DEF AskedIn
  <2>4. QED
    BY <2>2, <2>3, FS_Subset
<1>3. \A a \in A : a[1] \in 1 .. L + 1 /\ a = <<a[1], a[2]>>
  BY <1>1 DEF AskedIn
<1>4. A = U \union V /\ U \intersect V = {}
  BY <1>3
<1>5. \A a \in B : a[1] \in 1 .. L /\ a[2] \in Files /\ a = <<a[1], a[2]>>
  BY <1>1 DEF AskedIn
<1>6. ASSUME NEW a \in B PROVE g[a] \in V
  <2> DEFINE c == <<a[1] + 1, a[2]>>
  <2>1. a[1] \in 1 .. L /\ a[2] \in Files /\ t[a[1]].rsrc = r /\ a[2] \in t[a[1]].files
    BY <1>5 DEF AskedIn
  <2>2. a[1] + 1 \in 1 .. L + 1 /\ a[1] + 1 > 1 /\ s[a[1] + 1] = t[a[1]]
    BY <1>1, <2>1
  <2>3. c[1] = a[1] + 1 /\ c[2] = a[2]
    OBVIOUS
  <2>4. c \in A
    BY <1>1, <2>1, <2>2 DEF AskedIn
  <2>5. c \in V
    BY <2>2, <2>3, <2>4
  <2>6. QED
    BY <2>5
<1>7. \A a, c \in B : g[a] = g[c] => a = c
  BY <1>5
<1>8. ASSUME NEW a \in V PROVE \E c \in B : g[c] = a
  <2>1. /\ a[1] \in 2 .. L + 1 /\ a[2] \in Files /\ a = <<a[1], a[2]>>
        /\ s[a[1]].rsrc = r /\ a[2] \in s[a[1]].files
    BY <1>1 DEF AskedIn
  <2> DEFINE c == <<a[1] - 1, a[2]>>
  <2>2. a[1] - 1 \in 1 .. L /\ (a[1] - 1) + 1 = a[1] /\ t[a[1] - 1] = s[a[1]]
    BY <1>1, <2>1
  <2>3. c \in B
    BY <1>1, <2>1, <2>2 DEF AskedIn
  <2>4. g[c] = a
    BY <2>1, <2>2, <2>3
  <2>5. QED
    BY <2>3, <2>4
<1>9. Cardinality(V) = Cardinality(B) /\ Cardinality(B) \in Nat
  <2>1. g \in [B -> V]
    BY <1>6
  <2> HIDE DEF B, V, g
  <2>2. Cardinality(V) = Cardinality(B)
    BY <1>2, <1>7, <1>8, <2>1, OneToOne
  <2>3. QED
    BY <1>2, <2>2, FS_CardinalityType
<1>10. Cardinality(U) = IF s[1].rsrc = r THEN Cardinality(s[1].files) ELSE 0
  <2>1. s[1].files \in SUBSET Files
    <3>1. 1 \in 1 .. L + 1
      BY <1>1
    <3>2. s[1] \in Request
      BY <1>1, <3>1
    <3>3. QED
      BY <3>2 DEF Request
  <2>2. CASE s[1].rsrc = r
    <3>1. IsFiniteSet(s[1].files)
      BY <2>1, FS_Subset, DownloadAssumption DEF DownloadAssumption
    <3>2. h \in [s[1].files -> U] /\ \A x, y \in s[1].files : h[x] = h[y] => x = y
      BY <1>1, <2>1, <2>2 DEF AskedIn
    <3>3. ASSUME NEW a \in U PROVE \E f \in s[1].files : h[f] = a
      <4>1. a[2] \in s[1].files /\ a = <<1, a[2]>>
        BY <1>3 DEF AskedIn
      <4>2. QED
        BY <4>1
    <3> DEFINE F == s[1].files
    <3> HIDE DEF U, h
    <3>4. Cardinality(U) = Cardinality(F)
      <4>1. IsFiniteSet(F) /\ h \in [F -> U] /\ \A x, y \in F : h[x] = h[y] => x = y
        BY <3>1, <3>2
      <4>2. \A a \in U : \E f \in F : h[f] = a
        BY <3>3
      <4> HIDE DEF F
      <4>3. QED
        BY <4>1, <4>2, OneToOne
    <3>5. QED
      BY <2>2, <3>4
  <2>3. CASE s[1].rsrc # r
    <3>1. U = {}
      BY <2>3 DEF AskedIn
    <3>2. QED
      BY <2>3, <3>1, FS_EmptySet
  <2>4. QED
    BY <2>2, <2>3
<1>11. Cardinality(U) \in Nat /\ Cardinality(A) = Cardinality(U) + Cardinality(V)
  <2> HIDE DEF A, U, V
  <2>1. QED
    BY <1>2, <1>4, TwoParts
<1>12. Cardinality(A) \in Nat
  BY <1>2, FS_CardinalityType
<1>13. QED
  <2> HIDE DEF U, V
  <2>1. QED
    BY <1>9, <1>10, <1>11, <1>12

LEMMA AskedLonger ==
    ASSUME NEW s \in Seq(Request), NEW q \in Request, NEW t \in Seq(Request),
           Longer(s, 1, <<q>>, t), NEW r
    PROVE  /\ Cardinality(AskedIn(s, r)) \in Nat /\ Cardinality(AskedIn(t, r)) \in Nat
           /\ Cardinality(AskedIn(t, r)) =
                Cardinality(AskedIn(s, r))
                  + IF q.rsrc = r THEN Cardinality(q.files) ELSE 0
<1>1. PICK L \in Nat :
        /\ DOMAIN s = 1 .. L
        /\ DOMAIN t = 1 .. L + 1
        /\ \A i \in 1 .. L : t[i] = s[i]
        /\ t[L + 1] = q
  <2>1. 1 \in 1 .. 1 /\ <<q>>[1] = q
    OBVIOUS
  <2>2. QED
    BY <2>1 DEF Longer
<1> DEFINE A == AskedIn(s, r)
           B == AskedIn(t, r)
           N == {a \in B : a[1] = L + 1}
           h == [f \in q.files |-> <<L + 1, f>>]
<1>2. IsFiniteSet(B)
  <2>1. IsFiniteSet(1 .. L + 1) /\ IsFiniteSet(Files)
    BY FS_Interval, DownloadAssumption DEF DownloadAssumption
  <2>2. IsFiniteSet((1 .. L + 1) \X Files)
    BY <2>1, FS_Product
  <2>3. B \in SUBSET ((1 .. L + 1) \X Files)
    BY <1>1 DEF AskedIn
  <2>4. QED
    BY <2>2, <2>3, FS_Subset
<1>3. \A a \in B : a[1] \in 1 .. L + 1 /\ a[2] \in Files /\ a = <<a[1], a[2]>>
  BY <1>1 DEF AskedIn
<1>4. B = A \union N
  <2>1. \A a \in A : a \in B
    BY <1>1 DEF AskedIn
  <2>2. ASSUME NEW a \in B, a \notin N PROVE a \in A
    <3>1. a[1] \in 1 .. L
      BY <1>3, <2>2
    <3>2. QED
      BY <1>1, <1>3, <3>1 DEF AskedIn
  <2>3. QED
    BY <2>1, <2>2
<1>5. A \intersect N = {}
  <2>1. \A a \in A : a[1] \in 1 .. L
    BY <1>1 DEF AskedIn
  <2>2. QED
    BY <2>1
<1>6. Cardinality(N) = IF q.rsrc = r THEN Cardinality(q.files) ELSE 0
  <2>1. q.files \in SUBSET Files
    BY DEF Request
  <2>2. CASE q.rsrc = r
    <3>1. IsFiniteSet(q.files)
      BY <2>1, FS_Subset, DownloadAssumption DEF DownloadAssumption
    <3>2. h \in [q.files -> N] /\ \A x, y \in q.files : h[x] = h[y] => x = y
      BY <1>1, <2>1, <2>2 DEF AskedIn
    <3>3. ASSUME NEW a \in N PROVE \E f \in q.files : h[f] = a
      <4>1. a[2] \in q.files /\ a = <<L + 1, a[2]>>
        BY <1>1, <1>3 DEF AskedIn
      <4>2. QED
        BY <4>1
    <3> DEFINE F == q.files
    <3> HIDE DEF N, h
    <3>4. Cardinality(N) = Cardinality(F)
      <4>1. IsFiniteSet(F) /\ h \in [F -> N] /\ \A x, y \in F : h[x] = h[y] => x = y
        BY <3>1, <3>2
      <4>2. \A a \in N : \E f \in F : h[f] = a
        BY <3>3
      <4> HIDE DEF F
      <4>3. QED
        BY <4>1, <4>2, OneToOne
    <3>5. QED
      BY <2>2, <3>4
  <2>3. CASE q.rsrc # r
    <3>1. N = {}
      BY <1>1, <2>3 DEF AskedIn
    <3>2. QED
      BY <2>3, <3>1, FS_EmptySet
  <2>4. QED
    BY <2>2, <2>3
<1>7. /\ Cardinality(A) \in Nat /\ Cardinality(N) \in Nat
      /\ Cardinality(B) = Cardinality(A) + Cardinality(N)
  <2> HIDE DEF A, B, N
  <2>1. A \in SUBSET B /\ N \in SUBSET B
    BY <1>4
  <2>2. IsFiniteSet(A) /\ IsFiniteSet(N)
    BY <1>2, <2>1, FS_Subset
  <2>3. Cardinality(A \union N) = Cardinality(A) + Cardinality(N) - Cardinality(A \intersect N)
    BY <2>2, FS_Union
  <2>4. Cardinality(A \intersect N) = 0
    BY <1>5, FS_EmptySet
  <2>5. Cardinality(A) \in Nat /\ Cardinality(N) \in Nat
    BY <2>2, FS_CardinalityType
  <2>6. QED
    BY <1>4, <2>3, <2>4, <2>5
<1>8. QED
  BY <1>6, <1>7

-----------------------------------------------------------------------------
(* The counters and what is under way                                      *)

FilePackets(r) == {m \in Message : m.type = "File" /\ m.rsrc = r}

Enough(r) == files_to_download[r] <= files_downloaded[r] + Coming(r)

\* Not only of resources the client knows: the others have a target of 0.
AnswersInv == TypeOK /\ \A r \in Resources : Exists(r) => Enough(r)

LEMMA QueueCounts ==
    ASSUME NEW c \in Seq(Message), NEW s \in Seq(Request), NEW r
    PROVE  /\ {i \in DOMAIN c : c[i].type = "File" /\ c[i].rsrc = r} = At(c, FilePackets(r))
           /\ Cardinality(At(c, FilePackets(r))) \in Nat
           /\ Cardinality(AskedIn(s, r)) \in Nat
<1>1. {i \in DOMAIN c : c[i].type = "File" /\ c[i].rsrc = r} = At(c, FilePackets(r))
  BY DEF At, FilePackets
<1>2. /\ DOMAIN c = 1 .. Len(c) /\ Len(c) \in Nat
      /\ DOMAIN s = 1 .. Len(s) /\ Len(s) \in Nat
  OBVIOUS
<1>3. IsFiniteSet(DOMAIN c) /\ IsFiniteSet(DOMAIN s) /\ IsFiniteSet(Files)
  BY <1>2, FS_Interval, DownloadAssumption DEF DownloadAssumption
<1>4. IsFiniteSet((DOMAIN s) \X Files)
  BY <1>3, FS_Product
<1>5. /\ At(c, FilePackets(r)) \in SUBSET (DOMAIN c)
      /\ AskedIn(s, r) \in SUBSET ((DOMAIN s) \X Files)
  BY DEF At, AskedIn
<1>6. IsFiniteSet(At(c, FilePackets(r))) /\ IsFiniteSet(AskedIn(s, r))
  BY <1>3, <1>4, <1>5, FS_Subset
<1>7. QED
  BY <1>1, <1>6, FS_CardinalityType

\* Before and after a step.
LEMMA ComingCounts ==
    ASSUME TypeOK, TypeOK', NEW r \in Resources
    PROVE  LET K == FilePackets(r) IN
           /\ Coming(r) = Cardinality(At(to_client, K)) + Cardinality(AskedIn(to_server, r))
           /\ Coming(r)' =
                Cardinality(At(to_client', K)) + Cardinality(AskedIn(to_server', r))
           /\ Cardinality(At(to_client, K)) \in Nat
           /\ Cardinality(AskedIn(to_server, r)) \in Nat
           /\ Cardinality(At(to_client', K)) \in Nat
           /\ Cardinality(AskedIn(to_server', r)) \in Nat
           /\ files_to_download[r] \in Nat /\ files_downloaded[r] \in Nat
           /\ files_to_download'[r] \in Nat /\ files_downloaded'[r] \in Nat
<1>1. /\ to_client \in Seq(Message) /\ to_server \in Seq(Request)
      /\ to_client' \in Seq(Message) /\ to_server' \in Seq(Request)
      /\ files_to_download[r] \in Nat /\ files_downloaded[r] \in Nat
      /\ files_to_download'[r] \in Nat /\ files_downloaded'[r] \in Nat
  BY DEF TypeOK, Message, Request, Times
<1>2. /\ FilesComing(r) = At(to_client, FilePackets(r))
      /\ FilesComing(r)' = At(to_client', FilePackets(r))
  BY <1>1, QueueCounts DEF FilesComing
<1>3. /\ FilesAsked(r) = AskedIn(to_server, r)
      /\ FilesAsked(r)' = AskedIn(to_server', r)
  BY DEF FilesAsked, AskedIn
<1>4. /\ Coming(r) = Cardinality(FilesComing(r)) + Cardinality(FilesAsked(r))
      /\ Coming(r)' = Cardinality(FilesComing(r)') + Cardinality(FilesAsked(r)')
  BY DEF Coming
<1>5. /\ Cardinality(At(to_client, FilePackets(r))) \in Nat
      /\ Cardinality(At(to_client', FilePackets(r))) \in Nat
      /\ Cardinality(AskedIn(to_server, r)) \in Nat
      /\ Cardinality(AskedIn(to_server', r)) \in Nat
  BY <1>1, QueueCounts
<1>6. QED
  BY <1>1, <1>2, <1>3, <1>4, <1>5

LEMMA QuietAnswers ==
    ASSUME AnswersInv, TypeOK',
           UNCHANGED <<to_client, to_server, files_to_download, files_downloaded>>,
           \A r \in Resources : Exists(r)' => Exists(r)
    PROVE  AnswersInv'
<1>1. ASSUME NEW r \in Resources, Exists(r)' PROVE Enough(r)'
  <2>1. Exists(r)
    BY <1>1
  <2>2. Enough(r)
    BY <2>1 DEF AnswersInv
  <2>3. QED
    BY <2>2 DEF Enough, Coming, FilesComing, FilesAsked
<1>2. QED
  BY <1>1 DEF AnswersInv

LEMMA SyncAnswers ==
    ASSUME AnswersInv, TypeOK', SyncPendingResources PROVE AnswersInv'
<1>1. TypeOK
  BY DEF AnswersInv
<1> DEFINE q == resources_to_sync
           P == {i \in DOMAIN q : Exists(q[i])}
           s == Append(to_client, List(q))
           n == Cardinality(P)
<1>2. PICK at \in InOrder(P) :
        LET b == [k \in 1 .. n |-> Sync(q[at[k]])] IN
        /\ n \in Nat /\ Longer(to_client, 1, <<List(q)>>, s)
        /\ Longer(s, n, b, to_client')
  BY <1>1, SyncSends
<1> DEFINE b == [k \in 1 .. n |-> Sync(q[at[k]])]
<1>3. ASSUME NEW r \in Resources, Exists(r)' PROVE Enough(r)'
  <2> DEFINE K == FilePackets(r)
             new == {k \in 1 .. 1 : <<List(q)>>[k] \in K}
             more == {k \in 1 .. n : b[k] \in K}
  <2>1. /\ n \in Nat /\ Longer(to_client, 1, <<List(q)>>, s)
        /\ Longer(s, n, b, to_client')
    BY <1>2
  <2>2. /\ Cardinality(At(to_client, K)) \in Nat /\ Cardinality(At(s, K)) \in Nat
        /\ Cardinality(At(s, K)) >= Cardinality(At(to_client, K))
    <3> HIDE DEF K, s, b, n
    <3>1. /\ Cardinality(At(to_client, K)) \in Nat /\ Cardinality(new) \in Nat
          /\ Cardinality(At(s, K)) = Cardinality(At(to_client, K)) + Cardinality(new)
      BY <2>1, AtLonger
    <3> HIDE DEF new
    <3>2. QED
      BY <3>1
  <2>3. Cardinality(At(to_client', K)) >= Cardinality(At(s, K))
    <3> HIDE DEF K, s, b, n
    <3>1. /\ Cardinality(more) \in Nat
          /\ Cardinality(At(to_client', K)) = Cardinality(At(s, K)) + Cardinality(more)
      BY <2>1, AtLonger
    <3> HIDE DEF more
    <3>2. QED
      BY <2>2, <3>1
  <2>4. /\ Exists(r) /\ Enough(r) /\ to_server' = to_server
        /\ files_to_download' = files_to_download /\ files_downloaded' = files_downloaded
    BY <1>3 DEF AnswersInv, SyncPendingResources, clientVars, Exists
  <2>5. /\ Coming(r) = Cardinality(At(to_client, K)) + Cardinality(AskedIn(to_server, r))
        /\ Coming(r)' = Cardinality(At(to_client', K)) + Cardinality(AskedIn(to_server', r))
        /\ Cardinality(AskedIn(to_server, r)) \in Nat
        /\ Cardinality(At(to_client', K)) \in Nat
        /\ files_to_download[r] \in Nat /\ files_downloaded[r] \in Nat
    BY <1>1, ComingCounts
  <2> HIDE DEF K, s
  <2>6. QED
    BY <2>2, <2>3, <2>4, <2>5 DEF Enough
<1>4. QED
  BY <1>3 DEF AnswersInv

LEMMA AnswerAnswers ==
    ASSUME AnswersInv, TypeOK', Answer PROVE AnswersInv'
<1>1. TypeOK
  BY DEF AnswersInv
<1> DEFINE h == to_server[1]
           n == Cardinality(h.files)
<1>2. /\ h \in Request /\ to_server' \in Seq(Request) /\ Shorter(to_server, to_server')
      /\ \/ ~ Exists(h.rsrc) /\ to_client' = to_client
         \/ \E order \in SetToSeqs(h.files) :
              LET b == [k \in 1 .. n |-> File(h.rsrc, order[k])]
              IN  /\ Exists(h.rsrc) /\ n \in Nat /\ order \in [1 .. n -> h.files]
                  /\ Longer(to_client, n, b, to_client')
  BY <1>1, AnswerSends
<1>3. ASSUME NEW r \in Resources, Exists(r)' PROVE Enough(r)'
  <2> DEFINE K == FilePackets(r)
             taken == IF h.rsrc = r THEN n ELSE 0
  <2>1. to_server \in Seq(Request)
    BY <1>1 DEF TypeOK
  <2>2. Cardinality(AskedIn(to_server, r)) = Cardinality(AskedIn(to_server', r)) + taken
    BY <1>2, <2>1, AskedShorter
  <2>3. /\ Exists(r) /\ Enough(r)
        /\ files_to_download' = files_to_download /\ files_downloaded' = files_downloaded
    BY <1>3 DEF AnswersInv, Answer, clientVars, serverVars, Exists
  <2>4. /\ Coming(r) = Cardinality(At(to_client, K)) + Cardinality(AskedIn(to_server, r))
        /\ Coming(r)' = Cardinality(At(to_client', K)) + Cardinality(AskedIn(to_server', r))
        /\ Cardinality(At(to_client, K)) \in Nat /\ Cardinality(AskedIn(to_server, r)) \in Nat
        /\ Cardinality(At(to_client', K)) \in Nat /\ Cardinality(AskedIn(to_server', r)) \in Nat
        /\ files_to_download[r] \in Nat /\ files_downloaded[r] \in Nat
    BY <1>1, ComingCounts
  <2>5. Cardinality(At(to_client', K)) >= Cardinality(At(to_client, K)) + taken
    <3>1. CASE ~ Exists(h.rsrc) /\ to_client' = to_client
      <4>1. taken = 0
        BY <2>3, <3>1
      <4> HIDE DEF K, taken
      <4>2. QED
        BY <2>4, <3>1, <4>1
    <3>2. ASSUME NEW order \in SetToSeqs(h.files), n \in Nat, order \in [1 .. n -> h.files],
                 Longer(to_client, n, [k \in 1 .. n |-> File(h.rsrc, order[k])], to_client')
          PROVE  Cardinality(At(to_client', K)) >= Cardinality(At(to_client, K)) + taken
      <4> DEFINE b == [k \in 1 .. n |-> File(h.rsrc, order[k])]
                 new == {k \in 1 .. n : b[k] \in K}
      <4>1. /\ Cardinality(new) \in Nat
            /\ Cardinality(At(to_client', K)) = Cardinality(At(to_client, K)) + Cardinality(new)
        <5>1. n \in Nat /\ Longer(to_client, n, b, to_client')
          BY <3>2
        <5> HIDE DEF n, b, K
        <5>2. QED
          BY <5>1, AtLonger
      <4>2. Cardinality(new) >= taken
        <5>1. CASE h.rsrc = r
          <6>1. \A k \in 1 .. n : b[k] \in K
            <7>1. h.files \in SUBSET Files /\ h.rsrc \in Resources
              BY <1>2 DEF Request
            <7>2. \A f \in Files : File(h.rsrc, f) \in K
              BY <1>1, <5>1, <7>1 DEF File, FilePackets, Message, TypeOK, Times
            <7>3. \A k \in 1 .. n : order[k] \in Files
              BY <3>2, <7>1
            <7> HIDE DEF h, n, K
            <7>4. QED
              BY <7>2, <7>3
          <6>2. new = 1 .. n
            BY <6>1
          <6>3. Cardinality(1 .. n) = n
            <7> HIDE DEF n
            <7>1. QED
              BY <3>2, FS_Interval
          <6>4. taken = n
            BY <5>1
          <6> HIDE DEF n, new, taken
          <6>5. QED
            BY <3>2, <6>2, <6>3, <6>4
        <5>2. CASE h.rsrc # r
          <6>1. taken = 0
            BY <5>2
          <6> HIDE DEF taken, new
          <6>2. QED
            BY <4>1, <6>1
        <5>3. QED
          BY <5>1, <5>2
      <4>3. taken \in Nat
        BY <3>2
      <4> HIDE DEF new, K, taken
      <4>4. QED
        BY <2>4, <4>1, <4>2, <4>3
    <3>3. QED
      BY <1>2, <3>1, <3>2
  <2>6. taken \in Nat
    <3>1. h.files \in SUBSET Files
      BY <1>2 DEF Request
    <3>2. n \in Nat
      BY <3>1, FilesFinite
    <3> HIDE DEF n
    <3>3. QED
      BY <3>2
  <2> HIDE DEF K, taken, h
  <2>7. QED
    BY <2>2, <2>3, <2>4, <2>5, <2>6 DEF Enough
<1>4. QED
  BY <1>3 DEF AnswersInv

LEMMA MessageAnswers ==
    ASSUME AnswersInv, TypeOK', HandleMessage PROVE AnswersInv'
<1>1. TypeOK
  BY DEF AnswersInv
<1> DEFINE m == to_client[1]
<1>2. /\ m \in Message
      /\ HandleList(m) \/ HandleSync(m) \/ HandleFile(m)
      /\ Shorter(to_client, to_client') /\ UNCHANGED <<serverVars, stops>>
  BY <1>1, HeadHandled
<1>3. ASSUME NEW r \in Resources, Exists(r)' PROVE Enough(r)'
  <2> DEFINE K == FilePackets(r)
             taken == IF m \in K THEN 1 ELSE 0
  <2>1. Cardinality(At(to_client, K)) = Cardinality(At(to_client', K)) + taken
    BY <1>2, AtShorter
  <2>2. Exists(r) /\ Enough(r)
    BY <1>2, <1>3 DEF AnswersInv, serverVars, Exists
  <2>3. /\ Coming(r) = Cardinality(At(to_client, K)) + Cardinality(AskedIn(to_server, r))
        /\ Coming(r)' = Cardinality(At(to_client', K)) + Cardinality(AskedIn(to_server', r))
        /\ Cardinality(At(to_client, K)) \in Nat /\ Cardinality(AskedIn(to_server, r)) \in Nat
        /\ Cardinality(At(to_client', K)) \in Nat /\ Cardinality(AskedIn(to_server', r)) \in Nat
        /\ files_to_download[r] \in Nat /\ files_downloaded[r] \in Nat
        /\ files_to_download'[r] \in Nat /\ files_downloaded'[r] \in Nat
    BY <1>1, ComingCounts
  <2>4. CASE HandleList(m)
    <3>1. taken = 0
      BY <2>4 DEF HandleList, FilePackets
    <3>2. UNCHANGED <<to_server, files_to_download, files_downloaded>>
      BY <2>4 DEF HandleList
    <3> HIDE DEF K, taken
    <3>3. QED
      BY <2>1, <2>2, <2>3, <3>1, <3>2 DEF Enough
  <2>5. CASE HandleSync(m)
    <3>1. taken = 0 /\ m.type = "Sync" /\ m.rsrc \in Resources
      BY <1>2, <2>5, MessageFields DEF HandleSync, FilePackets
    <3> DEFINE q == [rsrc |-> m.rsrc, files |-> FilesToRequest(m)]
               asked == IF m.rsrc = r THEN Target(m) ELSE 0
    <3>2. q \in Request /\ Target(m) \in Nat
      BY <1>1, <1>2, <3>1, RequestFiles
    <3>3. \/ UpToDate(m) /\ to_server' = to_server
          \/ to_server' = Append(to_server, q)
      BY <2>5 DEF HandleSync
    <3>4. Cardinality(AskedIn(to_server', r)) = Cardinality(AskedIn(to_server, r)) + asked
      <4>1. CASE UpToDate(m) /\ to_server' = to_server
        <5>1. Target(m) = 0
          BY <4>1, FS_EmptySet DEF UpToDate, Target
        <5>2. asked = 0
          BY <5>1
        <5> HIDE DEF asked
        <5>3. QED
          BY <2>3, <4>1, <5>2
      <4>2. CASE to_server' = Append(to_server, q)
        <5>1. to_server \in Seq(Request)
          BY <1>1 DEF TypeOK
        <5>2. to_server' \in Seq(Request) /\ Longer(to_server, 1, <<q>>, to_server')
          <6> HIDE DEF q
          <6>1. QED
            BY <3>2, <4>2, <5>1, AppendLonger
        <5>3. Cardinality(AskedIn(to_server', r)) =
                Cardinality(AskedIn(to_server, r))
                  + IF q.rsrc = r THEN Cardinality(q.files) ELSE 0
          <6> HIDE DEF q
          <6>1. QED
            BY <3>2, <5>1, <5>2, AskedLonger
        <5>4. q.rsrc = m.rsrc /\ Cardinality(q.files) = Target(m)
          BY DEF Target
        <5> HIDE DEF q
        <5>5. QED
          BY <5>3, <5>4
      <4>3. QED
        BY <3>3, <4>1, <4>2
    <3>5. CASE m.rsrc = r
      <4>1. files_downloaded'[r] = 0 /\ files_to_download'[r] = Target(m)
        BY <1>1, <2>5, <3>5 DEF HandleSync, TypeOK
      <4>2. asked = Target(m)
        BY <3>5
      <4> HIDE DEF K, taken, asked
      <4>3. QED
        BY <2>3, <3>2, <3>4, <4>1, <4>2 DEF Enough
    <3>6. CASE m.rsrc # r
      <4>1. /\ files_downloaded'[r] = files_downloaded[r]
            /\ files_to_download'[r] = files_to_download[r]
        BY <1>1, <2>5, <3>6 DEF HandleSync, TypeOK
      <4>2. asked = 0
        BY <3>6
      <4> HIDE DEF K, taken, asked
      <4>3. QED
        BY <2>1, <2>2, <2>3, <3>1, <3>4, <4>1, <4>2 DEF Enough
    <3>7. QED
      BY <3>5, <3>6
  <2>6. CASE HandleFile(m)
    <3>1. UNCHANGED <<to_server, files_to_download>>
      BY <2>6 DEF HandleFile
    <3>2. m.type = "File" /\ m.rsrc \in Resources
      BY <1>2, <2>6, MessageFields DEF HandleFile
    <3>3. files_downloaded'[r] = files_downloaded[r] + taken
      <4>1. CASE m.rsrc = r
        <5>1. taken = 1
          BY <1>2, <3>2, <4>1 DEF FilePackets
        <5>2. files_downloaded'[r] = files_downloaded[r] + 1
          BY <1>1, <2>6, <4>1 DEF HandleFile, TypeOK
        <5> HIDE DEF taken
        <5>3. QED
          BY <5>1, <5>2
      <4>2. CASE m.rsrc # r
        <5>1. taken = 0
          BY <4>2 DEF FilePackets
        <5>2. files_downloaded'[r] = files_downloaded[r]
          BY <1>1, <2>6, <4>2 DEF HandleFile, TypeOK
        <5> HIDE DEF taken
        <5>3. QED
          BY <2>3, <5>1, <5>2
      <4>3. QED
        BY <4>1, <4>2
    <3>4. taken \in Nat
      OBVIOUS
    <3> HIDE DEF K, taken
    <3>5. QED
      BY <2>1, <2>2, <2>3, <3>1, <3>3, <3>4 DEF Enough
  <2>7. QED
    BY <1>2, <2>4, <2>5, <2>6
<1>4. QED
  BY <1>3 DEF AnswersInv

LEMMA AnswersInit == Init => AnswersInv
<1> SUFFICES ASSUME Init PROVE AnswersInv
  OBVIOUS
<1>1. TypeOK
  BY DownloadTypeInit
<1>2. ASSUME NEW r \in Resources PROVE Enough(r)
  <2>1. FilesComing(r) = {} /\ FilesAsked(r) = {}
    BY DEF Init, FilesComing, FilesAsked
  <2>2. Coming(r) = 0
    BY <2>1, FS_EmptySet DEF Coming
  <2>3. files_to_download[r] = 0 /\ files_downloaded[r] = 0
    BY DEF Init
  <2>4. QED
    BY <2>2, <2>3 DEF Enough
<1>3. QED
  BY <1>1, <1>2 DEF AnswersInv

LEMMA AnswersStep == AnswersInv /\ [Next]_vars => AnswersInv'
<1> SUFFICES ASSUME AnswersInv, [Next]_vars PROVE AnswersInv'
  OBVIOUS
<1>1. TypeOK /\ TypeOK'
  BY DownloadTypeStep DEF AnswersInv
<1>2. ASSUME NEW r \in Resources, StartResource(r) \/ StopResource(r) \/ RefreshAway(r)
      PROVE  AnswersInv'
  <2>1. UNCHANGED <<to_client, to_server, files_to_download, files_downloaded>>
    BY <1>2 DEF StartResource, StopResource, RefreshAway, clientVars
  <2>2. \A x \in Resources : Exists(x)' => Exists(x)
    BY <1>1, <1>2 DEF StartResource, StopResource, RefreshAway, Exists, TypeOK
  <2>3. QED
    BY <1>1, <2>1, <2>2, QuietAnswers
<1>3. ASSUME NEW r \in Resources, NEW f \in Files, EditFile(r, f) PROVE AnswersInv'
  BY <1>1, <1>3, QuietAnswers DEF EditFile, clientVars, Exists
<1>4. CASE HandleStop
  BY <1>1, <1>4, QuietAnswers DEF HandleStop, serverVars, Exists
<1>5. CASE UNCHANGED vars
  BY <1>1, <1>5, QuietAnswers DEF vars, serverVars, clientVars, Exists
<1>6. QED
  BY <1>1, <1>2, <1>3, <1>4, <1>5, SyncAnswers, AnswerAnswers, MessageAnswers DEF Next

\* The files under way or asked for are always enough for the counters of a
\* resource the server still has to meet, whatever was announced again, stopped,
\* edited or kept from an earlier visit in between: no hypothesis is needed.
THEOREM AnswersAlwaysSuffice == Spec => []AnswersSuffice
<1>1. TypeOK /\ AnswersInv => AnswersSuffice
  BY DEF AnswersInv, AnswersSuffice, Enough, TypeOK
<1>2. AnswersInv => TypeOK
  BY DEF AnswersInv
<1>3. QED
  BY <1>1, <1>2, AnswersInit, AnswersStep, PTL DEF Spec

=============================================================================
