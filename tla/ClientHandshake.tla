--------------------------- MODULE ClientHandshake ---------------------------
(***************************************************************************)
(* How a client gets from connect() to its StartupSync: Net::init on the   *)
(* main thread waits twice on one CancellableSleep, for the password ack   *)
(* and for the default server files, which the TCP reader thread reports.  *)
(* Both ends of the connection close it after 20 seconds without a packet  *)
(* (SO_RCVTIMEO), and the client pings only once it ticks.                 *)
(***************************************************************************)
EXTENDS Naturals, Sequences

VARIABLES
    right,      \* the server has no password, or the one the client sent
    stage,      \* main thread: the part of Net::init it is in
    sleeper,    \* main thread: where it is in tcp->wait_for
    canceled,   \* CancellableSleep::canceled
    acked,      \* tcp_ctx.password_ack
    valid,      \* tcp_ctx.password_valid
    files,      \* tcp_ctx.default_server_files_received
    reader,     \* TCP reader thread: where it is in client_interface::update
    open,       \* is_connected() of the client's socket
    server,     \* where the connection's thread on the server is
    up, down,   \* packets under way to the server, to the client
    causes      \* history: what went wrong outside this protocol

mainVars == <<stage, sleeper>>
flags    == <<acked, valid, files>>
netVars  == <<up, down>>
handshakeVars == <<right, mainVars, canceled, flags, reader, open, server,
                   netVars, causes>>

HandshakeTypeOK ==
    /\ right \in BOOLEAN
    /\ stage \in {"Password", "Files", "Enet", "Ticking", "Ready", "Failed"}
    /\ sleeper \in {"Enter", "Asleep", "Check"}
    /\ canceled \in BOOLEAN
    /\ acked \in BOOLEAN /\ valid \in BOOLEAN /\ files \in BOOLEAN
    /\ reader \in {"Reading", "Cancelling", "Closing", "Ended"}
    /\ open \in BOOLEAN
    /\ server \in {"Reading", "SendFiles", "Closed"}
    /\ up \in Seq({"Password", "StartupSync"})
    /\ down \in Seq({"Accepted", "Refused", "Files"}) /\ Len(down) =< 2
    /\ causes \subseteq {"Refused", "Broken", "Silent", "RanOut"}

\* connect() has started the reader thread, and the password is on its way.
HandshakeInit ==
    /\ right \in BOOLEAN
    /\ stage = "Password" /\ sleeper = "Enter"
    /\ canceled = FALSE
    /\ acked = FALSE /\ valid = FALSE /\ files = FALSE
    /\ reader = "Reading" /\ open = TRUE
    /\ server = "Reading"
    /\ up = <<"Password">> /\ down = <<>>
    /\ causes = {}

-----------------------------------------------------------------------------
(* The main thread: CancellableSleep::sleep and the check on its result    *)

Waiting == stage \in {"Password", "Files"}

\* A sleep that begins by forgetting an earlier cancel.
ForgetfulEnter ==
    /\ Waiting /\ sleeper = "Enter"
    /\ sleeper' = "Asleep"
    /\ canceled' = FALSE
    /\ UNCHANGED <<right, stage, flags, reader, open, server, netVars, causes>>

\* The predicate is looked at before waiting, with the mutex held: a cancel that
\* came earlier is not lost.
EnterSleep ==
    /\ Waiting /\ sleeper = "Enter"
    /\ sleeper' = IF canceled THEN "Check" ELSE "Asleep"
    /\ canceled' = FALSE
    /\ UNCHANGED <<right, stage, flags, reader, open, server, netVars, causes>>

KeepCanceled ==
    /\ Waiting /\ sleeper = "Asleep" /\ canceled
    /\ sleeper' = "Check"
    /\ UNCHANGED <<right, stage, canceled, flags, reader, open, server,
                   netVars, causes>>

Wake ==
    /\ Waiting /\ sleeper = "Asleep" /\ canceled
    /\ sleeper' = "Check"
    /\ canceled' = FALSE
    /\ UNCHANGED <<right, stage, flags, reader, open, server, netVars, causes>>

\* The 32 or 1024 seconds are over.
RunOut ==
    /\ Waiting /\ sleeper = "Asleep" /\ ~canceled
    /\ sleeper' = "Check"
    /\ causes' = causes \union {"RanOut"}
    /\ UNCHANGED <<right, stage, canceled, flags, reader, open, server,
                   netVars>>

Arrived == IF stage = "Password" THEN acked /\ valid ELSE files

\* check(tcp->wait_for(...)): the process ends if what it waited for is missing.
CheckWait ==
    /\ Waiting /\ sleeper = "Check"
    /\ sleeper' = "Enter"
    /\ stage' = IF ~Arrived THEN "Failed"
                ELSE IF stage = "Password" THEN "Files" ELSE "Enet"
    /\ UNCHANGED <<right, canceled, flags, reader, open, server, netVars,
                   causes>>

\* The server's enet host answers; nobody looks at the TCP connection meanwhile,
\* and the loop of Net::init ends on no other event.
EnetConnect ==
    /\ stage = "Enet"
    /\ stage' = "Ticking"
    /\ UNCHANGED <<right, sleeper, canceled, flags, reader, open, server,
                   netVars, causes>>

\* tick() checks that the TCP connection is there.
TickLost ==
    /\ stage = "Ticking" /\ ~open
    /\ stage' = "Failed"
    /\ UNCHANGED <<right, sleeper, canceled, flags, reader, open, server,
                   netVars, causes>>

\* The server's answer to Init makes the client initialized: StartupSync.
Initialized ==
    /\ stage = "Ticking"
    /\ stage' = "Ready"
    /\ up' = IF open /\ server # "Closed" THEN Append(up, "StartupSync") ELSE up
    /\ UNCHANGED <<right, sleeper, canceled, flags, reader, open, server, down,
                   causes>>

MainStep == EnterSleep \/ Wake \/ CheckWait \/ TickLost

-----------------------------------------------------------------------------
(* The reader thread: client_interface::update and Net::on_tcp_message     *)

\* The handler stores the flags, and cancels the sleep in a step of its own.
ReadPacket ==
    /\ reader = "Reading" /\ open /\ down # <<>>
    /\ acked' = (acked \/ Head(down) # "Files")
    /\ valid' = (valid \/ Head(down) = "Accepted")
    /\ files' = (files \/ Head(down) = "Files")
    /\ down' = Tail(down)
    /\ reader' = "Cancelling"
    /\ UNCHANGED <<right, mainVars, canceled, open, server, up, causes>>

CancelSleep ==
    /\ reader = "Cancelling"
    /\ canceled' = TRUE
    /\ reader' = "Reading"
    /\ UNCHANGED <<right, mainVars, flags, open, server, netVars, causes>>

\* The server closed or the connection broke: the read fails, the loop ends.
ReadFails ==
    /\ reader = "Reading" /\ down = <<>>
    /\ server = "Closed"
    /\ open' = FALSE
    /\ reader' = "Closing"
    /\ UNCHANGED <<right, mainVars, canceled, flags, server, netVars, causes>>

EndsQuietly ==
    /\ reader = "Closing"
    /\ reader' = "Ended"
    /\ UNCHANGED <<right, mainVars, canceled, flags, open, server, netVars,
                   causes>>

\* "if there was a waiting operation running then cancel it"
EndRead ==
    /\ reader = "Closing"
    /\ canceled' = TRUE
    /\ reader' = "Ended"
    /\ UNCHANGED <<right, mainVars, flags, open, server, netVars, causes>>

ReaderStep == ReadPacket \/ CancelSleep \/ ReadFails \/ EndRead

-----------------------------------------------------------------------------
(* The connection's thread on the server, and the network                  *)

Taken == up' = Tail(up)

\* Net::on_client_tcp_message: the ack, and the default files after it.
HandlePassword ==
    /\ server = "Reading" /\ up # <<>> /\ Head(up) = "Password"
    /\ Taken
    /\ \/ /\ right
          /\ down' = Append(down, "Accepted")
          /\ server' = "SendFiles"
          /\ UNCHANGED causes
       \/ /\ ~right
          /\ down' = Append(down, "Refused")
          /\ causes' = causes \union {"Refused"}
          /\ UNCHANGED server
    /\ UNCHANGED <<right, mainVars, canceled, flags, reader, open>>

SyncDefaultFiles ==
    /\ server = "SendFiles"
    /\ down' = Append(down, "Files")
    /\ server' = "Reading"
    /\ UNCHANGED <<right, mainVars, canceled, flags, reader, open, up, causes>>

HandleStartupSync ==
    /\ server = "Reading" /\ up # <<>> /\ Head(up) = "StartupSync"
    /\ Taken
    /\ UNCHANGED <<right, mainVars, canceled, flags, reader, open, server,
                   down, causes>>

\* 20 seconds without a packet from a client that does not tick yet.
ServerHearsNothing ==
    /\ server = "Reading" /\ up = <<>> /\ stage \notin {"Ticking", "Ready"}
    /\ server' = "Closed"
    /\ causes' = causes \union {"Silent"}
    /\ UNCHANGED <<right, mainVars, canceled, flags, reader, open, netVars>>

\* 20 seconds without a packet from the server, which only answers.
ClientHearsNothing ==
    /\ reader = "Reading" /\ open /\ down = <<>>
    /\ stage \notin {"Ticking", "Ready"}
    /\ open' = FALSE
    /\ reader' = "Closing"
    /\ causes' = causes \union {"Silent"}
    /\ UNCHANGED <<right, mainVars, canceled, flags, server, netVars>>

\* The connection breaks, with what is under way, or the server ends.
Break ==
    /\ server # "Closed"
    /\ server' = "Closed"
    /\ up' = <<>>
    /\ \E n \in 0..Len(down) : down' = SubSeq(down, 1, n)
    /\ causes' = causes \union {"Broken"}
    /\ UNCHANGED <<right, mainVars, canceled, flags, reader, open>>

ServerStep == HandlePassword \/ SyncDefaultFiles \/ HandleStartupSync

HandshakeNext ==
    \/ MainStep \/ RunOut \/ EnetConnect \/ Initialized
    \/ ReaderStep
    \/ ServerStep
    \/ ServerHearsNothing \/ ClientHearsNothing \/ Break

HandshakeSpec == HandshakeInit /\ [][HandshakeNext]_handshakeVars

\* The three threads run.  The timeouts, of the waits and of the silence, may run
\* out; nothing below relies on it.
FairSpec ==
    /\ HandshakeSpec
    /\ WF_handshakeVars(MainStep)
    /\ WF_handshakeVars(ReaderStep)
    /\ WF_handshakeVars(ServerStep)

-----------------------------------------------------------------------------
(* What holds                                                              *)

\* The client ends in one of its checks only if the server refused the password,
\* the connection broke or went silent, or a wait ran into its timeout: a wait is
\* never cut short by a cancel that was meant for another.
EndsForCause == stage = "Failed" => causes # {}

\* The wait for the password ack ends without its timeout, whatever the order in
\* which the threads get to it: by the answer or by the end of the connection.
AckWaitEnds == stage = "Password" ~> stage # "Password"
=============================================================================
