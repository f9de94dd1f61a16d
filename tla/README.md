# JC1:MP: a TLA+ model of the server and of the client's network side

Just Cause 1 Multiplayer runs as a *server* (`src/server`), a *client* injected into the
game (`src/client`), a *master server* (`src/masterserver`) and a *launcher*. Server and
client share the object model, the packet handlers and the resource system
(`src/shared`, `src/scripting`, compiled twice with `JC_SERVER` or `JC_CLIENT`). This
directory holds TLA+ modules translated from that code, the TLC configurations that check
them, and proofs checked by TLAPS.

## 1. The system and its parts

| Component | State | Operations | Talks to |
|---|---|---|---|
| NID pool, `NetObject` (`shared_mp/objs/net_object.*`) | `free_nids`, `used_nids`; per object NID, sync type, hp, owner record | take and return a NID, set owner and sync type, set hp | librg wrapper, lists |
| Object lists (`shared_mp/object_lists.*`) | NID to object map, set of player clients, a recursive mutex | add, remove, look up, spawn, destroy | everything |
| librg wrapper (`rg/rg`) | per tracked NID: owner, chunk | track, untrack, set owner, visibility update | lists, player clients |
| Server net loop (`server/code/mp/net.cpp`) | enet host, timers | enet events, owner refresh (100 ms), visibility (250 ms), sweep of dead objects (10 s), resource sync | all of the above |
| Player clients (`shared_mp/player_client`) | peer, joined, tcp link, resources to sync | create and destroy with the player, join, send | lists, resource system, users |
| Players and vehicles (`objs/player.cpp`, `objs/vehicle_net.cpp`) | `Player::vehicle`, `vehicle_seat`; `VehicleNetObject::players` | sit down, get up, die | lists |
| Packet handlers (`shared_mp/net_handlers`) | none of their own | one function per packet id | lists, players, player clients |
| TCP layer (`tcp*`) | sockets, connection ids, one reading thread per connection | accept, receive, send, wait | `Net`, master server |
| Client network (`client/code/mp/net.cpp`) | connection stage flags, download queue | connect, password, default files, resource download | TCP, resource system |
| Resource system (`scripting/`) | resources, events, commands, timers, created objects | start, stop, refresh, trigger and cancel events | lists, `Net`, Lua |
| Users database (`server/code/mp/users_db.cpp`) | JSON document, logged-in users, a file | register, login, logout, save | player clients |
| Master server (`masterserver/`) | clients, servers | add, remove, update, answer | TCP |
| Launcher, loader, game hooks, tools | desktop and game process | | not modelled |

Packets are handled one at a time on the server's main thread inside `Net::tick`; TCP
messages are handled on one thread per connection, which share the object lists and the
resource system with the main thread through two recursive mutexes.

### What makes each part correct

* NID pool, object lists, librg wrapper: an object exists in all of them or in none, and no
  two objects share a NID.
* Net loop and player clients: a listed player has one connected peer and at most one live
  TCP connection, and each refers to the other; what runs on the server is queued for or
  announced to every associated player.
* Players and vehicles: a seat map names players who sit there; a player's pointer names a
  vehicle that exists; a locked vehicle is streamed by its driver.
* Packet handlers: whatever a client names, and whenever its packet arrives, the server
  keeps these facts and keeps running.
* TCP layer: a connection has one id, and is freed when nothing points to it any more.
* Client network: a wait ends when its answer or the end of the connection arrives; a
  download ends, with all its files in place; the game loads after it.
* Resource system: an event learns whether its own handlers cancelled it; the tables of
  handlers, commands, timers and objects name only running resources.
* Users database: a user is logged in once, nobody inherits a login, and what a restart finds
  once stays.
* Master server: its lists name only servers that exist, and in the end those that are
  connected.
* Clients' copies: a client that has read its packets lists whom it sees and nobody who left.

### What is hard about it

* Objects refer to each other by raw pointer (`Player::vehicle`,
  `VehicleNetObject::players`, `ENetPeer::data`, resources' created objects) and to the
  outside by NIDs that are reused at once. Pointers outlive objects, NIDs outlive objects.
* Existence of an object is recorded in four places (pool, lists, librg, heap) that
  constructors, destructors and list operations change in different orders.
* Clients act on what they last heard: a packet names a vehicle that is gone, or that
  meanwhile has another driver.
* Peers time out late, and players reconnect early.
* Main thread and TCP threads take two locks in both orders.
* Script handlers and timer callbacks run inside the loops that iterate the tables they may
  change.
* NIDs are reused between two world writes, and Create and DestroyObject travel on channels
  that overtake each other.
* Two waits of the client share one cancellable sleep.

`PROJECT.json` lists each hazard at its line, with the properties that cover it.

## 2. Modules

### ServerWorld

The server's object world. State and code correspond as follows.

| Variable | Code |
|---|---|
| `free_nids`, `used_nids` | the two sets in `net_object.cpp` |
| `kind`, `nid`, `sync_type` | what lives in a heap block, `NetObject::nid`, `NetObject::sync_type` |
| `net_objects`, `player_clients` | the maps of `ObjectLists` (the sets next to them hold the same members) |
| `owner` | librg's owner record per tracked NID |
| `joined`, `dead` | `PlayerClient::joined`, hp <= 0 |
| `players`, `vehicle`, `vehicle_seat` | the seat map of a vehicle; the vehicle and seat a player remembers |
| `peer`, `up`, `addr`, `data` | `PlayerClient::peer`; per `ENetPeer` whether it is connected, its address, its data pointer |
| `known` | which NIDs a player's client has been told are vehicles: what its packets may name |
| `fault` | why the process ended: a failed `check()` or a use of freed memory |

An object *is* its heap block. A pointer to a block stays what it is when the block is
freed, and finds another object when the block is reused: that is how the model shows
dangling pointers. A `PlayerClient` and its `Player` are created and freed together and
share one block.

Actions: `Connect`, `Reconnect` (a second connection from the address of a listed player),
`Disconnect` (also by timeout), `ReceiveStale` (a packet on a peer whose client is gone),
`Join`, `SpawnObject`, `NidsExhausted`, `DestroyObject` (scripts), `DestroyByPacket`
(administrators), `DestroyDead` (the sweep), `SyncHealth`, `RefreshOwners`, `SetVehicle`
and `StateSync`. A handler runs to completion on the main thread, so each is one step.

Abstractions: positions are arbitrary, so `RefreshOwners` may choose any joined player or
none for each object; hp is alive or dead; of a packet's fields only the named object and
the seat are kept; packets to clients are left out (they are Replication's), what remains of
them is `known`, which only grows: a client may name a vehicle it knew once. Access control
of `DestroyByPacket` is left out: the sender may be an administrator. librg is external: an
owner record is assumed to survive the departure of the owner, as nothing in `rg.cpp`
clears it.

### ServerThreads

The server's threads: main thread, one thread per TCP connection, and the update thread that
reaps closed connections. They share the player list and the resources under two recursive
mutexes. A step is what a thread does between two lock operations.

| Variable | Code |
|---|---|
| `object`, `resource` | owners of `ObjectLists::mtx` and `ResourceSystem::mtx` |
| `at`, `todo`, `arg` | where the main thread is in `Net::tick`, the players left in `for_each_player_client`, the player or resource at hand |
| `listed`, `nid`, `ip` | `player_clients_set`, and per `PlayerClient` its NID and host |
| `tcp`, `queue` | `PlayerClient::tcp`, `PlayerClient::resources_to_sync` |
| `status` | `Resource::status`, or "Absent" when the map has no such resource |
| `thread`, `userdata` | where the thread of a connection is; `client_interface::userdata` |
| `asks`, `offers` | what the client may still send: the NID of a StartupSync, requests for announced files |
| `announced`, `synced` | history: what was sent to a player since its StartupSync was handled |
| `fault` | the failed `check()` of a StartupSync |

The main thread alternates between `SyncBegin` ... `SyncEnd` (`sync_pending_resources` of
every player, under the object lock, with the resource lock inside) and packets (`Connect`,
`Disconnect`, `StartBegin`/`StartSync`, `StopBegin`/`StopEnd`, `Refresh`). `Refresh` drops a
stopped resource whose folder is gone; if the first such folder belongs to a running one,
`destroy_scripts` fails its check (`RefreshRunning`, fault `RunningFreed`). A connection is
accepted, handles `StartupSync` and `QueueRunning` (object lock, then resource lock) and
requests for files (resource lock only), and closes; the update thread reports and reaps it.

Abstractions: `PlayerClient::tcp_mtx` is left out, as it is only taken with the object lock
held. A queue is a set: order and repetition matter in ResourceDownload, not here. A restart
is a stop followed by a start. Scripts that run inside start and stop are left out.
`Connect` follows a finished TCP handshake on a connection from the same host.

### EventDispatch and CancellableEvents

`trigger_event` and `cancel_event`. `id` and `cancellable` are `curr_event`,
`cancelled_events` is the stack. `frames` holds what the C++ call stack holds, the
`trigger_event` calls that run, and as history whether a handler of each called `cancelEvent`
(`asked`) before an event nested in it ended (`interrupted`). Which handlers exist is left out:
between the trigger and the end of an event any nested events and any number of cancellations may
happen.

The code pushes the id at every `cancelEvent` and pops one at the end of the event. So an event
that is cancelled twice, by two handlers or by one, leaves its id on the stack, and a later event
may find it there and be told that it was cancelled. `Surplus` counts these leftovers.
CancellableEvents is what the code promises all the same: a stack of open events, each with a flag
of its own, the verdict of the last that ended, and the number of leftovers (`owed`), without which
no verdict is wrong. A cancellation that comes after a nested event has ended is lost in either
module, as `resource_system.h:69` clears the flag.

### ResourceDownload

One client and the server's side of its resource downloads.

| Variable | Code |
|---|---|
| `status`, `time` | `Resource::status`; last write times of the client and shared files on the server |
| `resources_to_sync` | the queue of the player, here with order and repetitions |
| `to_client`, `to_server`, `stops` | the two directions of TCP, and ResourceAction packets on enet, each first in, first out |
| `resources`, `running`, `up_to_date` | the client's map of resources, their status, `Resource::up_to_date` |
| `files_to_download`, `files_downloaded` | the two counters of a client `Resource` |
| `downloading_resources` | `tcp_ctx.rsrc.downloading_resources`: the code only appends, erases all equal names and asks for emptiness, so a set is exact |
| `startup_all_resources_synced` | the flag that lets the game load |
| `disk` | write times in the client's resource folders, 0 for no file |
| `announced` | history: the last announcement of a resource the client handled |
| `awaited` | history: what the client asked for then and has not got since |
| `mixed` | history: the resources whose counters count files of two different requests |

Server steps: `StartResource`, `StopResource`, `RefreshAway`, `EditFile` (somebody edits a
file), `SyncPendingResources`, `Answer`. Client steps: `HandleMessage` (one disjunct per
message) and `HandleStop`. Each handler holds the resource lock of its process and is one
step. An empty folder makes a complete sync, whose request stands for all files of the
resource; otherwise the request names the files whose write time differs (also those that are newer
on the client) and the new ones, and files the server does not list are removed. The order in which a request is answered is arbitrary. A resource
keeps its list of files, and folders that come back after `RefreshAway` are left out.

The two counters do not know which request a file answers. If a resource is stopped, edited and
started again while files of the first announcement are on their way, these complete the count of
the second one, and the resource starts without the edited file (hazard at
`client/net.cpp:612`). The model does this; `mixed` records when it may happen: at an announcement
that asks for other files than those awaited while files are coming or asked for. It ends with an
announcement that finds nothing under way.

### Replication

How the server's objects reach the clients, and what each client makes of the packets.

| Variable | Code |
|---|---|
| `alive`, `nid`, `joined` | the listed objects, their NIDs, `PlayerClient::joined`; `nid` keeps the NID of an object that is gone |
| `snapshot` | librg's record of what an observer saw at its last world write |
| `chan`, `world` | per client, what is under way on the enet channels PlayerClient and World |
| `replica`, `player_clients` | the client's object lists |
| `spawned`, `announced` | the client's objects that are in the game; players whose `ON_PLAYER_JOIN` it ran |
| `in_game`, `failed` | `g_game_status->is_in_game()`; a failed `check()` of a client |

Server: `Connect`, `SendInit`, `Join`, `Disconnect`, `Spawn`, `DestroyObject` and
`TimedUpdate`. `Spawn` and `DestroyObject` end with `WorldUpdate`, as the code calls
`WorldRg::update` in them; the timer writes every 250 ms. Client: `EnterGame` and one `Recv...`
action per kind of packet. The two channels of a client are separate queues, each in order.

Abstractions: what an observer sees is an arbitrary set of tracked NIDs other than its own
(positions decide). The Create and Hide packets of one write are one message. Contents of
objects are left out. Each player connects once and each object is spawned once; NIDs are what
is reused. A client sends Join when it enters the game, once. librg is external: it compares
NIDs with the last write, so an entity that was replaced under its NID since then gets an update
and no Create.

Three things the model reaches and the properties except. A `DestroyObject` that reaches a
client before it is in the game is dropped, and the object stays there as a ghost; a
`DestroyObject` that arrives when its NID has become a player's fails the check "Cannot destroy a
Player" on the client; and an object whose NID another entity had before may be taken for that
one. Also, a player whom a client already sees when he joins never fires `ON_PLAYER_JOIN` there:
`announced` only grows by joins that come first.

### ClientHandshake

`Net::init` of a client, between `connect()` and its StartupSync. `stage` is the part of
`Net::init` the main thread is in, `sleeper` where it is in `tcp->wait_for`; `canceled` is
`CancellableSleep::canceled`; `acked`, `valid` and `files` are the flags of `tcp_ctx`; `reader`
is where the reader thread is in `client_interface::update`; `server` is the connection's thread
on the server; `up` and `down` are what is under way. `causes` is history: what went wrong
outside the protocol.

Actions: the two waits (`EnterSleep`, `Wake`, `RunOut`, `CheckWait`), the rest of `Net::init`
(`EnetConnect`, `Initialized`, `TickLost`), the reader (`ReadPacket`, `CancelSleep`, `ReadFails`,
`EndRead`), the server (`HandlePassword`, `SyncDefaultFiles`, `HandleStartupSync`) and the
network (`Break`, and 20 seconds of silence on either side, as SO_RCVTIMEO is set and the client
pings only once it ticks). A cancel is a step apart from the flag it announces.

The wait for the default files has no liveness property, because it has none: the ack and the
files may arrive before the first sleep starts, their two cancels coalesce, the first wait takes
the one that is left, and if the connection ends then, nobody cancels the second sleep any more
until its 1024 seconds are over.

### UsersDB

Accounts, sessions and the file. `db` is the document in memory, `stored` the accounts that a
load finds, `rewound` whether the stream still stands at the start of the file; `client`,
`pc_users` and `logged_users` are the addresses of PlayerClients and the two tables of sessions.

Actions: `Connect`, `Disconnect`, `Register`, `Login`, `Logout`, `Shutdown`, `Crash`,
`CrashInSave`, `LoginBroken` and `Start`. `save()` neither rewinds nor truncates: the first write
of a run lands at the start of the file, every later one behind it, where no load looks. So of
the accounts registered in one run only the first survives it: the model reaches this, and
`StoredAccountsStay` is about what does survive. A crash during the first write may cut the
document after any account; what was parsed before the cut stays, and an account that was cut
itself (`Broken`) ends the server when somebody logs in as it. Passwords are compared as the
code does, hashes and access lists are data.

### MasterServer

Game servers, their connections and the list of servers. `accepting`, `reaping` and `walk` are
the places of the accept thread, the update thread and the publisher; `reader`, `base` and
`info` are, per connection, its reader thread, its `Server` and what that was told; `servers`
and `clients` are the two locked lists; `published` is servers.json. On the game server's side
`ms_conn` is its connection, `info_sent` the Info packets under way.

Actions are the steps of each thread between two lock operations, `StartHost`, `StopHost`,
`Reconnect`, `SendInfo` and `Break`. `remove_server` deletes the `Server` (`DeleteServer`) before
it takes it off the list (`EraseServer`), and a walk may read it in between: `Junk`. A server is
published before it has told anything (`Blank`), and twice after it reconnected and before its
old connection is reaped. The launcher's requests read immutable files and are left out.

### ResourceSystem

What running resources leave in the server, and the main thread that walks those tables.
`handlers` is the events and commands tables, `vm` the scripts with a Lua state, `create_ctx` the
objects a resource remembers, `creator` who made the object a block holds, `status` is
`Resource::status`. `stack` is the call stack, one frame per walk of `trigger_event` or
`Resource::start`, with the scripts it still has to call.

Actions: `StartResource`, `StartScript`, `Started`, `StopResource`, `Stopped`, `Dispatch`,
`CallHandler`, `PassOver`, `Dispatched`, `Return`; what a script may call (`AddEvent`,
`RemoveEvent`, `TriggerEvent`, `CreateObject`, `DestroyObject`), and `DestroyByPlayer`. Events are
abstracted to onResourceStop and any other; cancelling is EventDispatch's subject, timers
ScriptTimers'.

The handlers of an event are a hash table of vectors, one vector per resource, and `trigger_event`
walks both with a range-for. `AddEvent` may

* add to a vector that is there: it lies before or behind the place of the walk, which meets the
  handler or not;
* make a new entry, which may rehash the table (`Rehashed`). The standard invalidates the walk's
  iterator then. Rehashing frees no entry, so what a build does is to go on in the new order:
  the walk finishes the vector it stands in, and of the others it meets any, also those it has
  visited. How full the table is, is left out: every new entry may rehash it.
* change the very vector in which a walk stands, as `RemoveEvent` may: the handlers change and the
  walk holds an iterator into a vector that moved, shrank or is gone. That is the fault `Iterator`
  (`EditUnderWalk`), after which the model takes no step. `CallsLive` says nothing about the walks
  of such a state.

### ScriptTimers

`timer_list` and `timer_keys` are `ResourceSystem::timers`, `timer` a timer's two counts,
`pending` its `pending_kill`, `pass` where `ResourceSystem::update` stands, `held` the pointers in
the variables of scripts. Actions: `SetTimer`, `KillTimer`, `ResetTimer` from events and callbacks;
`Update`, `NextResource`, `Fire`, `AfterCallback`, `Waits`, `Sweep`, `Updated` of a pass;
`StartResource`, `StopResource`. Time is left out: at each visit an interval may be over or not.

`setTimer` in a callback inserts into the set and the map that `update` walks. If neither table has
to grow, the walk meets the new entry or not (`MayMeet`). If one outgrows the size it had room for
(`list_room`, `keys_room`: the largest it ever had), it may be rehashed (`MayMeetAnew`). The
standard invalidates the iterator then; as nothing is freed, the walk is taken to go on at any of
the entries that are there, and so it may meet again what it has visited, the timer whose callback
runs included, and miss others. `pass.rehashed` counts this per visit.

A killed timer may fire once more, in the pass that is under way, and again when a rehash brings it
up again before the sweep (`late` counts this). A timer
set for 0 times is freed at its first visit, before it fires, unless its interval is over by then,
when it goes on for ever. A pointer to a freed timer that a script uses is the fault `FreedTimer`.

### VehicleHandover

ServerWorld, whole, together with what its clients believe they stream. `packets` are a client's
Ownerships packets under way, `copy` its objects (address per NID, players left out), `owned` is
`net_object_globals::owned_entities`. A client is named by the peer it talks through; with its
connection goes its process (`ClientsLeave`).

Actions: every action of ServerWorld; `RefreshNetObjectSync`, which extends `RefreshOwners` by the
packet to each joined player, sent before the owners change and also to a player that owns nothing;
`MakeCopy` and `FreeCopy`, by which a client's copies come and go among the NIDs it has heard of as
vehicles (when exactly is Replication's subject); `Ownerships`. A freed copy leaves its pointer in
`owned`, so the next object at that address counts as owned until a packet says otherwise; a
stale packet may name NIDs that are gone or belong to other objects by now, and two
clients may stream one object between two packets.

The property is that this heals: once owners and copies stay as they are, a joined client streams
its copies of what it owns and nothing else. The lock of a vehicle whose driver disconnected stays,
and the record names his NID: whoever gets that NID next is told to stream it.

### Proof modules

`ServerWorldProofs` (ServerWorld and VehicleHandover), `ServerThreadsProofs`,
`ScriptingProofs` (EventDispatch and ScriptTimers), `ClientConnectionProofs` (ClientHandshake and
ResourceDownload), `UsersDBProofs`, `MasterServerProofs`, `ResourceSystemProofs` and
`ReplicationProofs`, see section 4. Two components that share a proof module have names of their
own for what both define (`DispatchInit`, `HandshakeSpec`).

## 3. Runs

| Run | Question | Result |
|---|---|---|
| `world` | Do pool, lists, librg records, seats and peers agree in every state, and do locked vehicles change streamer only through their drivers? | holds |
| `world_live` | Are owner records that name departed players repaired again and again, and does each client stream in the end what it owns and nothing else? | holds |
| `threads` | Do the links between players and connections stay alive, does every running resource stay queued or announced, and is it announced in the end, whatever the threads do? | holds, the last but for the cycle of the next run |
| `threads_cycle` | `resource_system.h:105` calls the iteration of resources thread-safe. | refuted: main thread and StartupSync each hold the lock the other needs |
| `events` | Do id counter and stack give every event its own verdict, however often it is cancelled? | holds but while an event cancelled twice has left its id on the stack |
| `download` | Are started resources complete, do the counters meet, does startup end, does the client follow the server? | holds; completeness but for files of two requests that mix (`mixed`), the end of startup but for a resource with nothing to send (`Unanswered`) |
| `replication` | Does a client that has read its packets list whom it sees and nobody who left, and is it never told about itself? | holds, but for NIDs that were an object's before |
| `handshake` | Does a client end only for a cause, and does its wait for the password end without the timeout? | holds |
| `users` | Do the tables of sessions agree, is a login never inherited, does a stored account stay? | holds |
| `masterserver` | Does no list outlive a server, is every connected server listed in the end, and every one that is gone not? | holds, but for the step between delete and erase |
| `resources` | Do walks call only registered handlers of live scripts, and does a stopped resource leave nothing? | holds, rehashed maps included, until a handler changes the vector that is walked |
| `timers` | Does a pass of timers survive its callbacks, rehashes included, and does a killed timer stop? | holds unless a script uses a pointer to a freed timer; a killed timer fires once more per rehash of its set during the visit |

What the models reach without a run of their own, in the words of the code:

* `vehicle_net.cpp:117` says the destructor resets all players inside. Take the seat of a player,
  destroy the vehicle, let the first player leave: he follows a dangling pointer (fault
  `StaleVehicle` of ServerWorld).
* `net_object.h:249` asserts the type of a named object. With NID reuse, a packet names another
  type (`InvalidCast`), and an administrator's destroy packet a player (`DestroyPlayer`).
* After an early reconnect the old peer speaks or times out (`StaleClient`, `net.cpp:262`).
* A StartupSync is handled after its player left, or after the NID went to a player from another
  host (`InvalidNid`, `WrongIp` of ServerThreads).
* `net.cpp:464` makes TCP unavailable for the player of a reaped connection: if the player's
  memory holds the next player by then, he loses his connection (`Report`).
* `resource_system.h:58` keeps the running event cancellable, and a nested event clears the flag:
  a cancellation after it is lost (EventDispatch).
* `resource_system.cpp:206` pushes an id for each cancellation: after two of one event a later
  event is told that it was cancelled (`verdict.surplus > 0` in EventDispatch).
* `resource_system.h:66` walks a vector that the handler it calls may change (fault `Iterator` of
  ResourceSystem).
* `client/net.cpp:612` counts files of an earlier request: a restarted and edited resource starts
  without a file (`mixed` in ResourceDownload).
* `client/net.cpp:245` loads the game once everything is downloaded. A resource without client
  files is announced and never answered, and blocks a new client (ResourceDownload, in an
  instance with such a resource).

Bounds.

* `world`: 3 blocks, 3 NIDs, 2 peers, 2 addresses and the seats {driver, passenger}, all but the
  seats symmetric. Two players and one vehicle, or two vehicles and one player, can exist at
  once, and blocks, NIDs and peers are all reused: seat theft, displaced players, early
  reconnects and NID reuse need no more. `world_live` is VehicleHandover with 3 blocks, 2 NIDs,
  one peer, 2 blocks of client memory and 2 packets under way, without symmetry. What a client
  settles on depends only on the records that name its NID, so one client at a time is enough,
  against reconnects, reused NIDs and stale packets.
* `threads`: 2 blocks, 2 NIDs, 2 connections from one host and one resource that is started,
  stopped and refreshed, enough for two StartupSyncs against one start and for a block, a NID or
  a connection to be reused. Without symmetry, as liveness is checked in the same run.
  `threads_cycle` is the same instance with symmetry.
* `events`: 4 nested events (the innermost, one that is interrupted, two below them), ids up to 6, as
  the counter leaks, and 5 ids on the stack, more than events nest, so that leftovers of two
  cancellations meet the cancellations of running events. Cancellations are not counted.
* `download`: a resource of two files and one of one; the first is stopped and restarted once during
  the downloads, edited and may be deleted, the second is edited. Cached files are missing, or newer
  than the server's and equal to what an edit makes of them; older ones are those that an edit
  outdates.
* `replication`: 3 players, one object and 2 NIDs, so that each NID passes from player to player
  and between player and object, and a third client comes after somebody left; the timer stops
  writing while 2 messages are under way to a client (broadcasts do not stop).
* `handshake`: one client; nothing is bounded, the conversation is finite. Clients do not meet
  in it, as each has its connection and its thread.
* `users`: 2 addresses, so that one is reused while the other is logged in; 3 peers, 3 names (one
  stored, one lost, one cut short), 2 passwords.
* `masterserver`: one game server with 2 connections: the old one is reaped while the new one is
  accepted. Servers meet only in the lists and locks; the safety properties were also checked
  with 2 servers (1.7 million states).
* `resources`: 3 resources of one script each, interchangeable, so that a walk stands in one entry
  of the table when another is added and a third has been visited or not;
  one object block, which is reused; 2 calls per invocation, so that a script can undo or repeat
  what it did; one nested event, which walks the same table as the one below it. Resources with
  several scripts, whose handlers share a vector, are covered by the proof.
* `timers`: 2 resources and 2 timers for at most 2 times, so that a callback changes a timer
  before and behind it, in its own list and in the other, and both tables outgrow their room.

`CHECK_DEADLOCK FALSE` in the runs of ServerWorld, VehicleHandover, ServerThreads, ResourceSystem and
ScriptTimers, where a fault or a cycle of locks is final; in ResourceDownload, where all
resources may be synced and nothing is left to do; in ClientHandshake, which ends; and in
Replication, where each player and object comes once.

Fairness. `world_live`: weak fairness of `RefreshNetObjectSync`, as `Net::tick` is called for
ever and the refresh acts whenever its 100 ms timer is ready, and of each client's `Ownerships`, as
a client reads its packets in every tick. `threads`: weak fairness of
the main loop's own steps, of each connection's handlers and of the update thread; each is a
loop that only blocks on a mutex. Weak fairness is enough because a thread waiting for a lock
sees it free for ever once the others are done with their finitely many messages. No packet,
connection, request or administrator is assumed to come. `download`: weak fairness of the
server's tick and connection thread and of the client's two threads, whose handlers are always
enabled while their queue holds something. `handshake`: weak fairness of the client's main
thread (without its timeouts), of its reader and of the server's thread of the connection; that a
timeout runs out is not assumed. `masterserver`: weak fairness of every thread of the
master server and of the game server's two timers; strong fairness of the three steps that wait
for a list's lock, as the threads that hold them sleep a second between two walks. `timers`: weak
fairness of the pass and of its beginning, which `Net::tick` calls for ever; that a callback
returns is assumed.

## 4. Proofs

`ServerWorldProofs` proves, for every value of the constants under
`ServerWorldAssumption` (the null value is no member of the other sets, the driver seat is a
seat, clients spawn only object types), that `TypeOK`, `NidCoherence`, `SeatMapSound` and
`PlayersReachable` always hold, and that every step satisfies `UnlockStep` and
`StreamerStep` (theorems `TypeCorrect`, `NidsCoherent`, `SeatMapsSound`,
`PlayersAreReachable`, `DriversUnlock`, `LockedStreamersAreDrivers`).

The inductive invariant is the conjunction `WorldInv` of the four state invariants. None is
inductive alone: returning the NIDs of removed objects keeps its type only because
`NidCoherence` says that objects that exist have NIDs; `SeatMapSound` survives a
destruction only because `PlayersReachable` says that listed clients are players, and a
player's departure only because `SeatMapSound` itself says that he sits nowhere but in the
vehicle he remembers. The lemmas follow the operations: `ReleaseKeeps` and `CreateKeeps` for
pool, lists and records, `SeatsLeft` and the `...KeepsSeats` lemmas for seats, one lemma per
action on top, and `StepStreamers` for the two action properties.

For VehicleHandover it proves that `HandoverSpec => Spec` (`HandoverImplementsWorld`: a client's
steps are stutters of the server, so the theorems above hold with clients too), and on top of
it the invariant `ClientsInv` (`ClientsStaySound`): a client that left leaves no packets, copies or
streamed objects to the next one at its peer, has no copy of its own player and is never told to
stream it, and no two copies share a block. The two liveness properties of `world_live` rest on
`RefreshOwners`, and their safety half is proved: every refresh leaves only valid owners
(`RefreshRepairs`, for `DistanceOwnersRefreshed`), and while owners, players and copies stay as they
are, one refresh makes the last packet true, it stays true, and reading it makes the client
stream exactly what it owns (`SettledClients`, for `StreamsFollowOwners`). What TLC adds is that
the refresh and the reading come, which is fairness.

`ServerThreadsProofs` proves `TypeOK`, `TcpAlive` and `RunningAnnounced` under
`ThreadsAssumption` for any number of players, connections and resources (`ThreadsTypeCorrect`,
`ConnectionsAlive`, `NothingSlips`). The inductive invariant `ThreadsInv` adds what the locks
mean: who owns a mutex is where its control is (`LocksMatchControl`), the argument of the main
thread is what its place says (`ArgumentsMatchControl`), a connection asks once (`AsksOnce`),
a block that is free has no connection (`FreedForgotten`), and what is about to be cleared was sent
(`SentBeforeCleared`). `RunningAnnounced` is not inductive without the last one: between
sending and clearing, the queue may only hold what is announced already.

Of EventDispatch, `ScriptingProofs` proves `DispatchTypeOK`, `VerdictMatches` and
`StackOfRunningEvents` and that it implements CancellableEvents, at any depth and for any number of
cancellations (`EventTypeCorrect`, `VerdictsMatch`, `StacksSound`, `DispatcherImplementsEvents`). The
invariant `DispatchInv` (`DispatchInvariant`) says that ids grow with depth (`IdsIncrease`), when the
flag is set (`CancellableMeans`), that the counter is the innermost event's id right after a trigger
and as long as a cancelled event runs (`CounterIsInnermost`), because inside of a cancelled event the
stack is never empty and so the ids are consecutive (`IdsConsecutive`), and that the id of a
cancelled event stays on the stack under larger ones only (`CancellationsKept`). Leftovers are
counted, so the proof needs numbers: `SurplusFacts` maps each cancelled running event to its own place
on the stack, an injection, which is onto when nothing is left over.

`ClientConnectionProofs` proves `HandshakeTypeOK` and `EndsForCause` (`HandshakeTypeCorrect`,
`HandshakeEndsForCause`). As long as nothing went wrong outside, the conversation is at one of six
points (`Conversation`), and `CancelsFit` says of a cancel that is pending, or about to be given,
which wait it belongs to: without it a check could follow a cancel meant for the other wait.

Of ResourceDownload the same module proves `TypeOK` (`DownloadTypeCorrect`), `AnswersSuffice`
(`AnswersAlwaysSuffice`) and `StartedComplete` (`StartsComplete`) for any resources and files,
whatever the client kept and whoever restarts and edits what. The invariant `DownloadInv`
(`DownloadInvariant`) says of every resource what its
downloads depend on: write times only grow from the client to the packets to the server (`TimesOK`),
later files are no older than announced (`OrderOK`), no file is sent between a list and its
announcements (`BatchOK`), what nobody stops is announced once (`OnceOK`), nothing comes
of a resource the client does not know (`FreshOK`), an announcement follows the list that
names it (`ListedOK`), of what nobody edits the client awaits exactly what it lacks (`ExactOK`), only
what is both restarted and edited gets mixed (`MixedOK`), what is awaited is either all under way,
each file before any is repeated, or
just what the first request names, and the counters count exactly that (`MissingOK`); and what runs
awaits nothing (`RunningOK`), the last two unless it is mixed.
`StartedComplete` alone is not inductive: a resource starts when two counters meet, and only
`MissingOK` says what they count. `AnswersSuffice` has an invariant of its own, `AnswersInv`, which
speaks of the resources the client does not know yet as well; the lemmas `AtLonger`, `AtShorter`,
`AskedLonger` and `AskedShorter` say how what is counted in a queue changes with its ends.

`UsersDBProofs` proves `TypeOK`, `SessionsMatch`, `SessionIsOwn` and the action property
`StoredAccountsStay` (`UsersTypeCorrect`, `SessionsAgree`, `NoInheritedLogin`,
`StoredAccountsKept`) under `UsersAssumption`. The strengthening is `Covered`: while the server
runs, its accounts contain those of the file, so that a save that replaces them loses none.

`MasterServerProofs` proves `TypeOK`, `ListedServersExist` and `HandlerServerExists`
(`MasterTypeCorrect`, `ListedExist`, `HandlersSafe`) under `MasterAssumption`. The invariant gives
every connection one of eight stages of life (`Life`), each of which fixes the lists it is in, its
thread and its Server; a step moves one connection by one stage and leaves the others alone.

`ResourceSystemProofs` proves `TypeOK`, `CallsLive` and `StoppedLeavesNothing`
(`ResourcesTypeCorrect`, `CallsAlwaysLive`, `StoppedClean`), for any depth of nested events.
`StackOK` says of each frame what it may hold, `HandlersAlive` that a handler's script lives,
`Remembered` that a resource remembers the objects that are its own, and `Gone` that only
resources that run or start have scripts and objects. `CallsLive` is not inductive without
`StackOK`: a resource is stopped only by the outermost frame, which is then the only one, so no
frame above it is left with a script whose Lua state closes. A rehash does not disturb it, as the
walk goes on to what the table holds; `EditUnderWalk` does, and ends the model.

Of ScriptTimers, `ScriptingProofs` proves `TypeOK`, `TimersLive` and `KilledFiresOnce`
(`TimersTypeCorrect`, `TimersAlwaysLive`, `KilledOnce`), with every rehash a walk may meet.
`PassSound` says what a pass holds between its steps, and
`LateSound` that a timer that fired after it was killed is in the list that is visited and swept
before the walk goes on, and has fired at most as often as that list was rehashed if the walk may
meet it again, once more if it may not.

`ReplicationProofs` proves all five invariants of the run, for any number of players, objects and
NIDs: `TypeOK`, `OwnNidNeverNamed`, `DepartedUnlisted`, `SeenPlayersHeld` and `ObjectsMatchView`
(`ReplicationTypeCorrect`, `OwnNidSpared`, `DepartedForgotten`, `SeenPlayersReplicated`,
`ObjectsReplicated`). They speak of a client that has read its channel; the inductive invariant
`ReplicationInv` speaks of the channels while they are full: whoever lists, or is to be shown, a
player that left will read his departure later (`QuitComing`), a joined player that librg counts
as seen is held or will be shown (`SeenComing`), and no packet about an earlier owner of his NID
comes after that (`NoLaterOther`); and the last packet that mentions an object
agrees with the snapshot (`ObjectComing`). `Identified` says that no two entities that exist share
a NID.

The type invariants of EventDispatch, ClientHandshake, UsersDB, MasterServer and ScriptTimers are
proved and in no run. Every invariant of a passing run, every action property and the refinement of
CancellableEvents are stated by theorems. Only model-checked: the liveness properties (fairness and ENABLED are out of the
prover's reach; of two of them the safety half is proved, see above), and the refuted property.

## 5. What is not modelled, and the plan

| Order | Module | Models | State |
|---|---|---|---|
| 1 | `ServerWorld` | object world | done, proved |
| 2 | `ServerThreads` | main, connection and update threads on the object and resource locks | done, proved |
| 3 | `EventDispatch`, `CancellableEvents` | `trigger_event`, `cancel_event`, nested events | done, proved |
| 4 | `ResourceDownload` | queue, announcements, requests, counters and the end of startup | done, proved |
| 5 | `ClientHandshake` | password and default files on one `CancellableSleep` | done, proved |
| 6 | `Replication` | clients as replicas, two channels, broadcasts | done, proved |
| 7 | `UsersDB` | register, login, logout, save, crash and restart | done, proved |
| 8 | `MasterServer` | accept, information, reaping, the published list | done, proved |
| 9 | `ResourceSystem`, `ScriptTimers` | tables of handlers, objects and timers against start, stop and the walks over them | done, proved |
| 10 | `VehicleHandover` | `ServerWorld` seats with clients that stream by their last Ownerships packet | done, safety proved |
| 11 | `TcpServer` | connection ids, taken and returned on two threads without a lock | open; the ids are only logged |

An abstract specification that is still worth stating: a download as an atomic update of a resource that
`ResourceDownload` implements when nothing is edited.

Not modelled: the game hooks, patches and user interface of the client, which are most of the
repository's lines and act on another program's memory, whose state they do not hold; vendored
libraries and generated tables (imgui, model lists); launcher, loader and tools; parsing of
configuration and resource files; Lua bindings that read or set one value (those that change
what the server walks are in ResourceSystem and ScriptTimers); relays of player and vehicle
packets that keep nothing on the server. Nor is a connection that is reset
before its `tcp_server_client` asks for its address (`remote_endpoint()` throws).
