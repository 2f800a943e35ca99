# GuideStory: formal models and proofs

GuideStory is a C++20 online platformer: a game client, a map editor, an
account/chat server and a small AI service. This directory holds TLA+ models of
its parts, the TLC configurations that check them on small instances, and
proofs, checked by TLAPS, of what matters most for every value of the constants. Paths below are relative to the repository; `Server.cpp:284`
means `GuideStoryServer/src/Server.cpp`, line 284.

## 1. The system and its parts

| part | state | operations | talks to |
|---|---|---|---|
| Server: `Server.cpp`, `Session.*` | session list and its mutex; per session: socket, userId, nickname, authed, receive buffer | accept loop; one thread per connection; handlers of LoginReq, RegisterReq, ChatSend, Heartbeat; SendTo, BroadcastSystem, RouteChat | clients (sockets), accounts (calls), chat log (calls) |
| Chat log: `ChatLog.*` | queue, mutex and condition variable, stopping flag, writer thread, SQLite handle and statement, two counters | Start, Enqueue (any client thread), WriterLoop and WriteBatch (one thread), Stop (SIGINT thread, main) | server (calls), SQLite |
| Accounts: `Accounts.*` | SQLite handle, mutex, table `accounts` | Start, Stop, Create, Authenticate | server (calls), SQLite |
| Crypto: `Crypto.*` | none | SHA-256, HMAC, PBKDF2, constant-time compare | accounts |
| Wire format: `net/Framing.*`, `net/Protocol.h` | receive buffer of the caller | SendAll, BuildPacket, TryExtractPacket | server, NetClient |
| NetClient: `net/NetClient.*` | send queue, event queue, credentials, login copy, connection flag | RequestLogin, RequestRegister, SendChat, Logout, Poll on the game thread; Worker on its own thread: connect, automatic login, pump, reconnect | server (socket), screens (events) |
| Game: `GuideStoryGame/*` | current screen, form and waiting flags, chat overlay | per frame: poll events, update, switch screens | NetClient, world |
| AI shape generator client: `ai/RemoteShapeGenerator.*` | request slot, results, sequence numbers, running, stop and connected flags; the worker's socket | Start, Stop, Request, Poll, Worker (connect, send, time out, retry) | AI server (socket), shape tool |
| AI shape tool: `editor/AiShapeTool.*` | state, label, selection, preview | Update, Accept, SetLabel, Reset | generator, map |
| Shape to map: `ai/ShapeToMap.*` | none | ExtractFootholds, ApplyShape | map |
| Map editor: `editor/MapEditor.*`, `GuideStoryEditor/MapEditorScreen.*` | map, path, dirty baseline, next ids, selection | New, Open, Save, SaveAs, placing, erasing, portals, close prompt | world, dialogs, shape tool |
| World: `world/*` | tiles, footholds, portals, objects | load, save, foothold queries | editor, game |
| Platformer: `physics/*` | position, velocity, ground flag, drop timer | Update, SetPosition, ClampX | world |
| Key settings, chat overlay: `core/InputMap.*`, `core/KeySettingOverlay.*`, `core/ChatOverlay.*` | bindings; lines and input | bind, swap, save, load; submit | screens |
| UI, camera, rendering, `platform/*` | frame state | drawing, window, files, dialogs | everything |
| AI server and tools (Python) | none between requests | answer a shape request; build data sets | generator |
| SQLite (`ThirdParty/sqlite`) | vendored | transactions | accounts, chat log |

What is hard, and where:

- **Server.** Every connection has a thread. Identity fields are written without
  the list lock and read under it; the duplicate-login check and its effect are
  two critical sections; a socket is closed while others broadcast; all sends
  are made inside the list lock, which is not recursive and whose holder may
  block. It is correct if nobody sends to a closed socket, nobody speaks as an
  account the server did not grant, whispers reach only their addressee, the room
  never goes on believing in somebody who left, and handlers come back.
- **Chat log.** Producers, one consumer, a bounded queue, batches in transactions
  that fail in several ways, and a Stop that two threads may run at once while
  producers are still alive. It is correct if the writer never meets a closed
  database, no line is stored twice or out of its speaker's order, shutdown
  drains what was queued before it, no wake-up is lost, and the counters tell the
  truth.
- **NetClient and screens.** Late answers after a logout, credentials marked
  valid by an older answer, automatic login against the session of the dropped
  connection, lines dropped over a reconnection.
- **Generator and shape tool.** A result for an older request or label, an
  overwritten slot, an answer after the timeout, a connection the server closed
  while it was idle, a wake-up of Stop that is missed. It is correct if an answer
  is never taken for another request's, the last request is the one shown, none
  is lost or reported as failed without a failure, and the editor can be left.
- **Wire format.** A stream of bytes that splits and joins packets, sends that go
  out in parts from several threads, a length that one end refuses. It is correct
  if packets come out whole, once and in order.
- **Map editor.** Ids handed out by two modules and reused, an index that outlives
  deletions and files, what counts as saved, modes at three places. It is correct
  if the close prompt appears when something would be lost, no two portals have
  one id, and a click means one thing.
- **Key settings.** An action that is carried has no key for a while; swaps,
  cancelled moves, resets, failed writes. It is correct if a key has one action
  and the next game starts with what the player used.
- **Play.** Floors are lines and time comes in frames: landing, slopes, joints,
  borders. Portals into maps that do not load, a file that remembers the map. It
  is correct if nobody falls through a floor, generated ground can be walked to its
  end, and the game starts where the player was.

`PROJECT.json` lists every component with its status and each hazard at the line
where it bites, with the properties that cover it or the reason none does yet.

## 2. Plan

1. `ChatService`, `SessionServer` (the server): **done**, checked, proved,
   shown to implement the abstract service.
2. `AsyncLog`, `ChatLog` (the chat log): **done**, checked, proved, shown to
   implement the abstract log.
3. `PacketChannel`, `Wire` (framing, blocking sends, the rule of the list lock):
   **done**, checked, proved, shown to implement the abstract channel.
4. `GameClient` (NetClient, the screens, this client's server sessions): **done**,
   checked, proved. Left: an abstract client (logged in or not, and what the
   player asked for last) for it to implement.
5. `ShapeService`, `ShapeGenerator`, `ShapeTool` (worker, AI server, editor thread):
   **done**, checked, proved, shown to implement the abstract service.
6. `MapEditor` (ids, baseline, selection, modes, files, close prompt): **done**,
   checked, proved.
7. `KeySettings` (bindings, file, panel): **done**, checked, proved.
8. `ShapeToMap`, `Platformer`, `GameScreen` (foothold extraction, movement, the
   game screen that puts them together): **done**, checked, proved but for
   the runs of generated shapes.
9. Left: accounts (two unique columns, two processes, the order of checks).

Composition: `SessionServer` implements `ChatService`, `ChatLog` implements
`AsyncLog`, `Wire` implements `PacketChannel`, `ShapeTool` implements `ShapeService`
(each `INSTANCE ... WITH`).
`ShapeTool` extends `ShapeGenerator`; `GameScreen` extends `Platformer`, which
extends `ShapeToMap`. The `MC` modules define the instances the configurations
name; modules without one are checked directly. `*_proofs` hold the theorems.

## 3. The server: `ChatService`, `SessionServer`

**Correspondence.** `SessionServer` has one process per connection with a program
counter `pc[s]`. `listed` is `m_sessions`, `open` the live handles, `lock` and `todo`
the mutex and the rest of the loop of a `ForEach`, `waiting` the session whose
client the blocked `::send` of the lock's holder waits for; `authed` and `ident` are the fields of `ClientSession` (id and nickname name the same
account); `req` is the packet a handler works on. `acked`, `heard`, `roster` and
`logged` record what was handed to sockets and to the log: the properties are
about them.

| code | actions |
|---|---|
| `main` accept loop, `Add` | `Accept` |
| `ClientThread`: recv ends; after the loop; `Remove` | `Hangup`; `Exit`, then the broadcast; `Remove` |
| `HandlePacket` | `Receive`, `Dispatch`, `ChatRoute` |
| `HandleLoginReq` | `Receive` (lowering), broadcast from `"bye"`, `Authenticate`, `CheckOnline`, `Grant` or `Refuse`, `Identify`, `Enter`, broadcast from `"joined"`, `Tell` |
| `HandleRegisterReq` | `Create`, `Tell` |
| `HandleChatSend`, `RouteChat` | `Receive`, broadcast from `"route"`, `Tell` (whisper result), `Log` |
| `ForEach` of a broadcast | `BeginForEach`, one `Visit` per session, in any order; a `Visit` that sends may block with the lock held, until `Return` |
| `SendTo` | one step that needs the lock free (the callback touches one socket); or `Stall`, which takes the lock and blocks, and the same step later (`Sent`) |

The unlocked writes of `ident` and `authed` are steps of their own, so a
broadcast may read them between any two. They keep program order: this is what
the build (MSVC, x64) produces for a plain store after a string assignment.
Where the code leaves it open, the model does too: the order of the visits, which
sends block and for how long, the verdict of the database, the moment of a hang-up.
What a send hands over counts as handed over when `::send` is called, when the
receiver is chosen; that it arrives is the subject of `Wire` (section 9). One disjunct, `AllGone`, lets
the model stop when every connection it has was used and closed; deadlock is
checked in every run.

**Properties.** `NoSendAfterClose`, `IdentityAgrees`, `NoStalePresence`
(safety); `HandlersReturn`, `HeardIsLogged` (liveness); `ImplementsService`
(refinement); `OneSessionPerAccount` (what the comments promise, violated).
`IdentityAgrees` has one exception, on purpose: a malformed login on a session
that is logged in is refused while it still counts as logged in, until its
thread reaches the exit. `HandlersReturn` and `HeardIsLogged` have a premise,
`ReceiversRead`: no send stays blocked for ever. `NoStalePresence` is one-sided: that somebody present is
taken for absent can happen (hazard at `Server.cpp:267`).

`ChatService` is the server without threads: who is in the room, what each client
was told, what was said, who heard it. The mapping takes `who[s]` to the identity
of a session that is `authed`, and counts a line as spoken from the moment
`RouteChat` accepts it, so that `Visit` is `Hear` and `Log` is a stutter.

| run | instance | shows |
|---|---|---|
| `server` | 2 connections, 2 accounts, 2 packets each, one packet of each kind and all logins and whispers | safety, the inductive invariant, refinement, liveness |
| `server_twice` | 2 connections, 1 packet each | **violation**: two sessions of one account |

Two packets per connection are enough for what the code distinguishes: a login
and then a chat, a second login on the same socket, a chat of a session that was
lowered. Two connections make every pair of threads; an observer of two others
needs three, and there the theorems of section 10 speak. The run has a liveness
property and no symmetry.

**Fairness.** `FairSpec` has weak fairness of each thread's own steps: the
operating system runs every thread. Clients owe nothing: no packet, no hang-up.
Weak fairness covers the mutex because a connection has at most `MaxRequests`
packets, so contention ends; in the code a waiting thread relies on the fairness
of `std::mutex` in the same way. Nothing is assumed of a blocked send: a thread in
one (`Stuck`) owes no step, since `::send` has no timeout, and a client that stops
reading keeps the list lock, and with it every handler that needs it, for ever (debt
D-009, which the code accepts). The two liveness properties therefore speak of
behaviours in which every blocked send returns in the end; without this premise TLC
refutes both. An honest client may cause it too: the one worker of `NetClient` does
not read while its own send is blocked (`NetClient.cpp:322`). What the properties do
say of D-009 is that a blocked send does nothing worse than wait: once it returns, the
walk goes on, the lock is released, the line is logged. That the socket stays open
under it is part of `NoSendAfterClose`.

## 4. The chat log: `AsyncLog`, `ChatLog`

**Correspondence.** `queue`, `stopping`, `joinable`, `db`, `written`, `dropped`
are the globals of `ChatLog.cpp`; `cpc`, `spc`, `wpc` the places of the client
threads, of the two threads that may run `Stop`, and of the writer; `batch`,
`okCount` the locals of `WriterLoop` and `WriteBatch`. `inTxn`, `txn`, `rows` are
SQLite's: whether a transaction is open, its rows, the committed table. `owed`
records the lines queued before Stop set its flag, `lost` those an error cost.

| code | actions |
|---|---|
| `Start` | `Start` (may fail) |
| `Enqueue` | `Enqueue` (unlocked test of `gDb`), `Push` (under the lock), `Notify` (after it) |
| `WriterLoop` | `Take` (test, take, end or sleep), `SpuriousWake` |
| `WriteBatch` | `Begin`, `Insert`, `InsertFails`, `Commit`, `CommitFails` |
| `OnInterrupt`, the end of `main` | `Interrupt`, `LeaveLoop`, `Exit` |
| `Stop` | `TestJoinable`, `RaiseStopping`, `NotifyStop`, `Join`, `Close` |

Two threads inside `Stop` at once is undefined behaviour of `std::thread` and of
the SQLite handle; `Clash` is the outcome in which the process dies, the other
actions are those in which it goes on. An INSERT error either costs its row or
has made SQLite roll the transaction back (disk full, I/O error, out of memory):
both are modelled, with the autocommit that follows. These three library parts
(`notify_one`, `wait`, SQLite errors) are the external definitions of the map.
`Ended` lets the model stop when the process has; deadlock is checked.

**Properties.** `WriterHasDb`, `Accounting` (every line said is dropped, on its
way, stored or lost to an error, and in one place), `OrderKept`, `StopDrains`,
`WrittenIsStored` (safety); `QueuedIsWritten`, `StopReturns` (liveness);
`ImplementsLog` (refinement). That a line queued after Stop's flag may stay behind
(section 11) is why `StopDrains` speaks of the lines in `owed`.

| run | instance | shows |
|---|---|---|
| `log_safety` | 2 clients of 2 lines, queue of 2, batches of 2, 1 error | safety, the inductive invariant, refinement |
| `log_live` | 1 client of 3 lines | no lost wake-up; Stop returns |

The limits 10000 and 256 become 2: the queue fills, a batch holds two rows (so an
error can come after a row and before another), and lines stay behind for the
next batch. One error reaches each failure path; two would only combine them.

**Fairness.** Weak fairness of the writer, of a client thread inside `Enqueue`,
and of each thread inside `Stop`. Spurious wake-ups are possible and not fair, so
`QueuedIsWritten` does not rest on them; no signal and no line is owed.

## 5. The game client: `GameClient`

**Correspondence.** Two processes share `sendQueue`, `events`, the credentials and
two flags, as `NetClient` does; `gpc` is the place of the game thread in
`App::Frame`, `wpc` that of the worker. A step is one critical section. `outbox` is
the deque `pending`, `got` the event about to be pushed, `shown` is `m_nickname`
while `m_loggedIn`. Connections are numbered: `up[i]`, `down[i]` are the bytes on
their way, as packets; `cut[i]` says that the client's end will report the
connection gone; `who[i]` is the account of the server's session, which outlives
`cut[i]` until its thread notices (`Reap`). `asked` and `shownOn` record history for
the properties.

| code | actions |
|---|---|
| `App::Frame` | `Poll` until the queue is empty, then one of the updates below |
| `NetClient::Poll`, `OnNetEvent` of the screens | `Poll`, `OnNetEvent` |
| `LoginScreen::Update`, `Submit`, `SetMode` | `EnterMenu`, `Toggle`, `SubmitLogin`, `SubmitRegister` |
| `RequestLogin`, `RequestRegister`, `SendChat` | credentials in `SubmitLogin`, packet in `Enqueue` |
| `MainMenuScreen::Update`, `GameScreen::SubmitChat` | `StartGame`, `Logout`, `Quit`, `SubmitChat` |
| `NetClient::Logout` | `Logout` (credentials), `FinishLogout` (queue, copies, new screen) |
| `NetClient::Worker` | `Connect`, `ConnectFails`, `ClearQueue`, `Relogin`, `Announce`, `Pump`, `Send`, `GoRecv`, `RecvTimeout`, `Receive`, `PushEvent`, `RecvFails`, `Drop`, `Tell`, `End` |
| the network; `HandleLoginReq`, `ClientThread` | `Break`; `Serve`, `Reap` |

The server is the sequential core of section 3 (one handler per step), for this
client's own connections; other clients could only add refusals. `Submit` reads
the connection flag and stores the credentials in one step: between the two the
worker could only do what commutes with them, short of a frame that outlasts the
3-second pause before a reconnection. The model has no clock, so the pause and the
50 ms of `recv` are simply moments at which others may run.

**Properties.** `LoggedInIsCurrent`: a login the game believes in is that of the
connection the worker is on, or the event that takes it back is queued.
`LogoutStops`: after a logout nothing stored and nothing queued logs in, whatever
the worker did between the two mutexes. `WaitingFalls`, `WorkerEnds` (liveness).
`LoggedInIsAsked` (what a comment promises, violated).

| run | instance | shows |
|---|---|---|
| `client` | 1 account and a wrong one, 2 connections, 1 failed attempt, 2 requests | safety, the inductive invariant, liveness |
| `client_relapse` | 1 account, 2 connections, 1 request | **violation**: logged in after the logout |

Two connections are one reconnection, which is where every hazard is: the second
differs from a third in nothing the code looks at. Two requests are a login and
a chat line, or a login and a second login, of the right or of the wrong
credentials, that meets the first one's answer; the automatic login of a
reconnection is not counted as a request. Safety was checked with two accounts
and two requests as well (1.55 million states); with liveness that instance
takes too long for a run, and the theorems have no bound.

**Fairness.** Weak fairness of the game thread (it runs frames), of the worker,
and of the server's threads (`Serve`, `Reap`). The player's actions and `Break`
are not fair: an idle frame satisfies the game thread's fairness. The worker's
`connect` and `recv` have timeouts; its `::send` and `getaddrinfo` have none and are
taken to return, as the server is taken to read and answer. A server whose threads
all wait for a client that does not read (section 3) does neither, so `WaitingFalls`
and `WorkerEnds` hold of a server that serves.

## 6. The shape tool: `ShapeService`, `ShapeGenerator`, `ShapeTool`

**Correspondence.** `ShapeGenerator` holds the worker of `RemoteShapeGenerator`, what
it shares with the editor thread, its connection and the Python server;
`ShapeTool` adds the editor thread and the specification. `slot` is `m_job` while
`m_hasJob`, `taken` the local `job` while `m_inFlight`, `outcome` the local `result`,
`results` the deque. A request carries its seed, and seeds and sequence numbers
are drawn together, so one number stands for both: a grid remembers the request
it was made for, which no code does and the properties need. `conn` is the
worker's socket: none, up, or one the server has closed; `asks` and `acks` are the
frames on their way. `hurt` records that the server or the network failed since
the request was taken. `state`, `label`, `sel`, `preview` are the fields of
`AiShapeTool`, `map` what `Accept` leaves behind.

| code | actions |
|---|---|
| `Start`, `Request`, `Poll` | inside the frames that call them |
| `~RemoteShapeGenerator`, `Stop` | `LeaveScreen` (both flags), `StopNotify`, `Join` |
| `Worker`: start and end | `NetInitFails`, `Boot`, `WorkerEnds` |
| `wait_for` and the idle tick | `Check`, `FallAsleep`, `WaitTimeout`, `Tick` |
| `ensureConnected` and the retry | `Dial`, `Redial` |
| `attempt` | `Send`, `SendFails`, `ReadAnswer`, `ReadGarbage`, `ReplyTimeout`, `RecvFails`, `Cancelled` |
| the push of the result | `PushResult` |
| `Update`: results, then keys, then mouse | `Accept`, `Regenerate`, `OverUi`, `Hover`, `Press`, `Drag`, `Release` |
| `MapEditorScreen::Update` | `SetLabel`, `Escape`, `EnterMode`, `LeaveMode` |
| `ai_server.py` | `Reply`; `HandlerEnds` (idle timeout, exception), `ServerExits`, `ServerStarts` |

A frame is one step: what it does under the mutex is one `Request` or the loop of
`Poll`, and only the latter is repeated with nothing in between that matters. The
worker holds the mutex across a step in one place only, between the predicate of
`wait_for` and the sleep (`falling`): there frames wait, but `Stop` does not,
because it takes no mutex. A dead connection may or may not still deliver what
was sent on it, and a send on it may or may not be noticed.

**Properties.** `FailureHasCause` (safety); `ImplementsService` (refinement);
`RequestAnswered`, `StopReturns`, `Reconnects` (liveness). They speak of requests, not
of labels: a shape may be accepted under another label (section 11).
`FailureHasCause` is about lost connections; a refusal is the server's answer.
`RequestAnswered` excepts an editor without sockets, where the worker ends and
nothing answers.

`ShapeService` is the tool without a worker, a connection and a mutex: numbered
requests of which only the last counts, at most one answer to it, what is shown, what
was drawn. The mapping takes a request to be due while it is in the slot, or in the
worker's hands and still the last one; the answer that waits is what `Poll` would
return. The push of an old request's result, a retry, a frame that only draws and every
step of the server are stutters. `ResultIsAnswer`, `PreviewIsLatest` and
`WaitingIsServed` follow from the inductive invariant and are theorems.

| run | instance | shows |
|---|---|---|
| `shape_tool` | 2 labels, 1 region, 2 requests, 1 fault of the server | safety, the inductive invariant, refinement, liveness |

Two requests are one that replaces another in the slot, in the worker's hands or
in the results. One fault is a connection closed between any two steps, or a
server that goes and comes back; timeouts are not counted. With two faults, and
with three requests, the safety properties were checked as well; these instances
take longer and show nothing else. A region of a legal size and one of an illegal
size are what `ParseResponse` and the server tell apart.

**Fairness.** Weak fairness of the worker (the operating system runs it, and each
of its waits has a time limit: connect, `recv`, the reply, `wait_for`) and of `Stop`
once begun. The editor's frames follow each other whatever the user does; `Hover`
is the frame without input. It needs strong fairness because the worker takes the
mutex again in every idle round, which holds it up for an instant again and
again. The server owes nothing, not even a reply.

## 7. The map editor and the key settings: `MapEditor`, `KeySettings`

**Correspondence.** Both are one thread; a step is a frame with one input, and a
modal dialog with its answer is part of the frame. `MapEditor` has the fields of
the same names in `MapEditor.h` (`sel` is `m_selectedPortal` plus one, `clean` the
snapshot) and of `MapEditorScreen` (`ai`, `rect`, `preview`); `scene` is the screen
the shell shows. `disk` is what `Load` makes of each file. A map is its footholds
with ids, the ids of its portals, whether its background's name has a space, and
one bit `rest` for everything else: a change of anything is a change of the map.
In `KeySettings`, `bind` is `App::m_bindings`, which the panel edits in place, `base`
the panel's copy, `carried` and `from` the action on the mouse and where it came
from, `enabled` the Save and Revert buttons, `disk` what `Load` makes of the file.
`picked`, `behind`, `damaged`, `swapped` and `failed` record history.

| code | actions |
|---|---|
| `MapEditor::Update`, canvas | `Place`, `FirstPoint`, `CancelPoint`, `SecondPoint`, `EraseChain`, `PickPortal`, `AddPortal`, `DeletePortal`, `DragRect` |
| text entry | `AskSize`, `AskTarget`, `CommitText`, `CancelText` |
| AI mode | `AiFrame`, `AiAccept` (with `ApplyShape`), `AiRegenerate` |
| menus of `MapEditorScreen` | `ChooseMode`, `ChooseRect`, `ToggleAi`, `ChooseBackground` |
| files | `NewMap`, `SaveMap`, `SaveMapAs`, `OpenMap` |
| `EditorApp`, launcher, close prompt | `Launch`, `LeaveOther`, `StartNew`, `StartOpen`, `Leave` |
| `KeySettingOverlay::Update` | `SaveButton`, `RevertButton`, `ResetButton`, `CancelClick`, `UnbindClick`, `PlaceClick`, `PickFromKey`, `PickFromTray`, `Look` |
| `App::Frame` with the panel; a new process | `Open`, `AskClose`, `ConfirmSave`, `ConfirmRevert`; `Quit`, `Boot` |

A write may go well, fail to open, or be cut: what is left of the file is then
what `Load` makes of a text that ends early, and `Map::Save` may report either.

**Properties.** `CleanIsOnDisk` (a map that is not dirty is what its file says),
`SelectionTracks`, `IdsAreFresh`; `ActionsOnce`, `SettingsKept`. `IInv` of each adds
what the proofs need; in the editor that the modes agree.

| run | instance | shows |
|---|---|---|
| `editor` | 2 files, 5 points of which 1 is clicked, 2 edits or failed writes | safety and the inductive invariant |
| `keys` | 3 actions, 3 keys, 1 failed write | safety and the inductive invariant |

One of the files is shaped like those in `assets/maps`: its portal is not number
1. Two edits are a deletion and an addition, which is how an id comes back; two
files are a map saved under another name. Frames that change nothing are not
counted, nor are choices of modes. Three actions are a swap and a bystander; one
failed write leaves any cut of the file behind. Files, and keys but the default
one, are interchangeable (symmetry). There is no liveness here: everything waits
for the user.

## 8. Play: `ShapeToMap`, `Platformer`, `GameScreen`

**Correspondence.** `ShapeToMap` and `Platformer` are the algorithms as operators:
`ExtractFootholds` and `ApplyShape`, the queries of `FootholdMap`, and
`PlatformerController::Update` in its order (`Updated`). Positions are hundredths of
a pixel and times hundredths of a second, so that every number of the code is an
integer but for the division in `SurfaceY`, which rounds down. `GameScreen` is the
screen around them: `body` is `m_player`, `move` the direction held, `chat` whether the
chat line holds the keys, `last` and `disk` the remembered map in memory and in the
file, `broken` the map files that do not load.

| code | actions |
|---|---|
| `HostLoop::Run`, `GameScreen::Update` | `Tick`, `Hitch` (a frame cut off at 50 ms), `Turn`, `Jump` (with Down: drop), `Chat`, `UpKey` |
| constructor, `App::MakeScreen`, `App::Frame` | `Start`, `Quit` |
| `TryEnterPortal`, `SetLastMap` | inside `UpKey` and `Start` |
| the map files | `FileEvent` (external) |

**Properties.** `FloorHolds` (of a step): a frame that begins on or over a level floor
that reaches further than the frame can lead does not end below it, but in a drop of
one's own or by being placed there. `RunIsWalkable`: who walks on a generated run keeps the ground up
to the borders of its columns. `LastMapKept`: the file names the map one is in
unless its last write failed. `GroundKept` (what a comment promises, violated). `IInv`
adds what the proofs need (section 10).

| run | instance | shows |
|---|---|---|
| `play` | 2 maps of 160 px joined by portals, frames of 20 and 30 ms, hitches of 50 ms, 3 presses, hitches or failures | safety and the inductive invariant |
| `play_border` | 1 map whose foothold begins at the border, 1 press | **violation**: falls at the border |

The maps are five tiles wide, which at 260 px/s is about thirty frames from border
to border: a run at full speed, a slope, a level part, a cliff, a wall, a platform
right over a floor and portals in both directions (one to a missing partner) are
in them. Frames that only go on are not counted, so three presses are a start, a
jump and a turn at any of the places reached. The maps name the constants; the
physics has those of the code. `GameScreenAssumption` asks that the longest frame be
shorter than the drop timer, as 50 ms are than 180: a timer that ran out within the
frame that set it would make `FloorHolds` false, since the body has already been put
below the floor.

## 9. The wire: `PacketChannel`, `Wire`

**Correspondence.** One connection and the threads that send to it. `lock` is the
session list's mutex, `rest[t]` what `SendAll` still has to send, `net` the bytes on
their way, `recvBuf` the receiver's buffer, `inbox` the packets extracted, `lost` what a
`SendAll` that failed did not send (history). `Send` is
`ForEach` with `SendPacket2` (it takes the lock; a body that `BuildPacket` refuses is
not sent), `SendSome` one `::send` of the loop, `SendReturns` its end; `Recv`, `Extract`
and `Malformed` are the loop of `ClientThread` and of `NetClient`, `Break` the network;
what arrived before it may still be received and extracted, or not.
A byte is its packet and its place in it, so a packet that is put together from
two is seen (`Read`).

`ImplementsChannel`: with the packets in the order the lock was taken, the stream is
the abstract channel: whole packets, once, in order, and each of them as long as the
connection lasts; of those on their way when it ends, the first few. `ChannelKept` is its safety part, which is proved; `IInv` is the
invariant behind it.

| run | instance | shows |
|---|---|---|
| `wire` | 2 threads, 4 packets, a header of 2 bytes, bodies of 0, 2, 3 and 4, limits 3 (sender) and 2 (receiver), a window of 3 | refinement, with liveness; the inductive invariant |

The window is smaller than a packet, so every send blocks; one `recv` may hold the
end of a packet and the start of the next. A body of 4 is refused by the sender,
one of 3 only by the receiver, as when the limits of two channels are mixed up.
Deadlock is not checked: a broken connection ends the model.

**Fairness.** Weak fairness of a thread in `SendAll`, and of the receiver while the
connection lasts. The latter is not the server's to give: that packets arrive is
claimed only of a receiver that reads. What happens when it does not, a list lock
that stays taken (debt D-009), is in `SessionServer`.

## 10. What is proved

All theorems hold for every value of the constants under the assumptions named
in the modules (`ServerAssumption`, `LogAssumption`, `ClientAssumption`,
`GeneratorAssumption`, `KeyAssumption`, `EditorAssumption`, `WireAssumption`,
`GameScreenAssumption`, `ContentAssumption`): any number of connections, accounts,
clients, labels, regions, actions, keys, files and points, any limits, any number of
packets, lines, requests, edits and errors, any maps. TLC evaluates the assumptions on
every run. Those that are more than the type of a constant: the clients of the log are
finitely many (its lines are counted), and the longest frame is shorter than a drop.

- `SessionServer_proofs`: `Inductive` proves `[]IInv`. `IInv` adds to the two
  properties that are not inductive by themselves what each place of a handler
  knows (`PacketInv`, `LoginInv`), what the lock protects and who may hold it
  while a send is blocked (`LockInv`), that a
  listed socket is open and that a thread is listed as long as it lives
  (`ListInv`), and that a line not yet logged has not been heard except from the
  loop in progress (`HistoryInv`, needed for the refinement). `TypeCorrect`,
  `SocketSafety`, `IdentitySafety` and `PresenceSafety` follow. The delicate case is
  `PresenceSafety`: while a notice of departure is on its way (`LeaveDue`) the
  witness of the invariant is the session that leaves; each `Visit` discharges
  one observer, and a session that enters starts with nobody on its roster.
  `Implementation`, `Spec => ImplementsService`, has one lemma per action that shows
  the step or the stutter of the abstract service.
- `ChatLog_proofs`: `Inductive` (threads: the writer lives between Start and its
  end and nobody closes before it ended; batch: what the transaction holds at
  each place; said: no queued line is later than its client; owed), then
  `TypeCorrect`, `WriterSafety`, `DrainSafety`, `CountSafety`.
  `Implementation`, `Spec => ImplementsLog`, and `OrderSafety`: the pipeline of table,
  transaction, batch and queue is only ever appended to with later lines and cut, so
  order and uniqueness persist. `AccountingSafety`: the places a line can be in overlap
  nowhere because their lengths add up to the number of lines they hold together
  (`Separate`), which a step that moves lines from one to the next keeps.
- `Wire_proofs`: `Invariant`, then `Refinement`, `Spec => ChannelKept`. What the receiver
  holds, what is on its way and what the holder of the lock has still to send (after a
  failed send: what it did not send, `lost`), put one after the other, are whole packets (`Whole`: each byte is followed by the rest of its
  packet) in the order their sends began (`InTurn`). A thread that does not hold the
  lock has nothing left to send (`LockInv`): without the list lock this is what fails.
- `GameClient_proofs`: `Inductive`, then `TypeCorrect`, `BeliefSafety` and
  `LogoutSafety`. The belief is inductive only together with `AcksAreCurrent`, the
  same statement about every success still in the event queue: it belongs to the
  connection the worker is on, or a `Disconnected` is queued behind it. Pushing
  `Disconnected` (`EndPushed`) discharges all of them at once; polling moves every
  witness one place nearer. The logout rests on `ForgottenIsGone` (without a request
  since the logout there are no credentials, and none can be marked valid).
- `ShapeTool_proofs`: `Invariance`, then `TypeCorrect`, `Answers`, `LatestShown`,
  `NothingLost` and `CausesKnown`. `Answers` rests on `WireInv`: while a request is
  awaited there is at most one frame on the connection and it concerns that
  request, and at every other time there is none, because every way to give up a
  request closes the connection first (giving up because of Stop is the exception,
  and then no request follows). `CausesKnown` rests on the single retry: the second
  attempt runs on a connection made after the request was taken. `LatestShown` and
  `NothingLost` follow a request from the slot through the worker into the results
  (`JobInv`, `ResultInv`). `Implementation`, `Spec => ImplementsService`, needs that a
  request is in one place only and nowhere else once it is answered (`OnceInv`); a step
  is one of six kinds as far as requests are concerned (`WorkerKinds`, `ToolKinds`), and
  what `Update` makes of the answers is what a look at them may show (`CollectedSeen`).
- `KeySettings_proofs`: `Invariant`, then `OnceEach` and `Kept`. `ActionsOnce` alone
  is not inductive: reverting brings the baseline back and starting reads the file,
  so both must be one-to-one and, while the panel is open and no write failed, the
  baseline must be the file (`BaselineIsSaved`). `ButtonsHonest` is needed because
  the Save button is looked at only while nothing is carried: it shows that a
  disabled button hides no change. The lemmas about `Bind`, `Cancelled` and `CutFiles`
  are stated once.
- `MapEditor_proofs`: `Invariant`, then `FreshIds`, `Selection` and `CleanMeansSaved`.
  `CleanIsOnDisk` follows from `CleanIsSaved`, which speaks of the snapshot instead of
  the map and is what edits preserve. `IdsAreFresh` needs the same of every file that
  can be opened (`FilesSound`), `SelectionTracks` the modes (`ModesAgree`), and a screen
  starts with a closed editor (`AtRest`). That the largest id exists (`MaxOf`) is shown
  without induction: among the counterexamples take one of least cardinality; taking
  an element away leaves none.

- `GameScreen_proofs`: `Invariant`, then `LastMapSafety` and `FloorSafety`. A frame is
  taken apart into the stages of `PlatformerController::Update`, with a lemma for each:
  what the keys leave of the body (`LeftFacts`: only a drop moves it, and the drop's
  timer outlasts the frame), the way up to a wall (`MovedFacts`: no further than walking
  speed), the ground or the landing (`SettledFacts`: with a level floor crossed, what is
  landed on is not below it; with the floor under the feet, the nearest ground is not
  below it), the borders (`BoundedFacts`). They rest on what the queries of `FootholdMap`
  return (`LandingFacts`, `GroundFacts`, `BlockFacts`), and these on finite sets of
  numbers having a least one, shown as above. Inductive are that who stands has no
  speed downwards (`BodyInv`; a standing body with such a speed would sink before the
  ground is looked for) and that the map without a name is the default one, which no
  portal leaves (`MapInv`, for `LastMapKept`).

Only model-checked: the liveness properties (`HandlersReturn`, `HeardIsLogged`,
`QueuedIsWritten`, `StopReturns`, `WaitingFalls`, `WorkerEnds`, `RequestAnswered`,
`Reconnects`) and the liveness part of `ImplementsChannel`, since fairness and ENABLED
are out of the prover's reach; and `RunIsWalkable`, since what `ExtractFootholds` makes
of a shape is the result of folds over its columns, and induction over data is out of
reach too.

## 11. Where the code and its documentation disagree

1. **Two sessions of one account** (`Server.cpp:284`, run `server_twice`). The
   check and the marking are separate; simultaneous logins both succeed, against
   `Server.cpp:282-283`, `Session.h:52-53` and `GuideStoryServer/README.md:12`.
2. **Logged in after the logout** (`App.cpp:83`, run `client_relapse`). A login the
   worker has already taken from the queue is answered after the logout, and the
   answer is believed, against `App.cpp:81-82`. `LogoutStops` is what does hold.
3. **A border without ground** (`GameScreen.cpp:77`, run `play_border`). The ground is
   looked for where the frame moved to; the border puts the body back afterwards.
   Where a foothold begins at the border, as in `crystalgarden.gsmap` and in
   `BuildDefaultMap`, walking against the border ends in the air, against
   `PlatformerController.h:41-42`. `FloorHolds` (floors that go on beyond where a
   frame can lead) is what does hold.

Behaviours the models contain, found with TLC or by hand while modelling, that no
run of the present set states:

- **A line left behind by Stop** (`ChatLog.cpp:188`): an `Enqueue` that passed the test
  of `gDb` pushes its line after the writer's last look; it is neither written nor
  counted, against `ChatLog.h:20` and `:39`. `StopDrains` is what does hold.
- **An automatic login refused for good** (`NetClient.cpp:374`): it meets the session of
  the broken connection, is answered AlreadyOnline and not repeated, against
  `NetClient.cpp:235`.
- **A shape under another label** (`AiShapeTool.cpp:90`): while a heart is awaited, a
  drag that ends over a panel leaves the tool idle; a label picked then sends no
  request; the heart arrives and is accepted as the new label, against
  `AiShapeTool.cpp:89` and `:43`. That it answers the last request
  (`ImplementsService`) is what does hold.
- **A failed save on the way out** (`MapEditorScreen.cpp:548`): the prompt saves and
  goes on whatever `Save` came to, also if its dialog was cancelled, against "저장 후
  진행" there.
- **A map that was never written counts as saved** (`MapEditor.cpp:185`): this is why
  `CleanIsOnDisk` excepts files whose last write failed. The same exception covers a
  write that fails when the stream is closed, after `Map::Save` has looked
  (`Map.cpp:49-56`).
- **Counters that fall behind** (`MapEditor.cpp:368`): `ApplyShape` numbers past the
  editor's counter, and opening from the empty screen leaves three default footholds
  under a counter of 1 if no file is opened: two footholds of one id. `IdsAreFresh`
  excepts them (`behind`); nothing in the program looks a foothold up by id yet.
- **What a new map keeps** (`MapScaffold.cpp:5-21`): portals, objects, mobs,
  rectangles, background and concept of the old map stay, against `MapEditor.h:61`.
  `NewMap` and `Open` never ask about unsaved changes.
- **R and Enter in the AI mode** (`MapEditorScreen.cpp:357-358`): the editor behind the
  tool sees them too, so R also opens the size prompt and Enter may commit it,
  against the comment at 354-355.
- **Cut files** (`Map.cpp:147-247`, `InputMap.cpp:82-93`): a file that ends early is
  loaded without the rest, since END is not required; the comment at
  `InputMap.cpp:82` speaks of keeping the old bindings.

Seen by reading, without a run:

- `ChatLog.cpp:91`: rows inserted after SQLite has rolled back by itself are
  committed one by one and not counted when the COMMIT fails, against
  `ChatLog.h:55`. `WrittenIsStored` is what does hold.
- `NetClient.cpp:374`: toggling the form resets the waiting flag
  (`LoginScreen.cpp:42`), a second login is typed, and the answer to the first marks
  the second's credentials valid, against `NetClient.h:141`.
- `RemoteShapeGenerator.cpp:233`: the idle tick keeps a socket the server has closed,
  so `Ready()` stays true until a request fails, against `IShapeGenerator.h:24-27`.
- `NetClient.h:89-90` says that `Logout` cuts the connection; the code keeps it
  (`NetClient.cpp:211-212` says why), so the server's session stays logged in while
  the login screen is shown.
- `InputMap.cpp:90`: a file edited by hand may give one key to two actions; `App.cpp:69`
  ignores what `Save` returns. `\` typed into the chat line opens the key settings
  (`App.cpp:58`).
- `Map.cpp:58-118`: numbers are written with the precision of the stream, so large
  coordinates lose digits; a background name with a space is cut when it is read.
- `PlatformerController.cpp:55`: at the longest frame (50 ms) a body at full speed
  climbs 13 px on a 45 degree slope, more than the 8 px the ground is looked for in, and
  falls through it; this is why `RunIsWalkable` speaks of steps of at most that length.
  A body that falls while it moves uphill can pass a slope, and the drop timer of
  0.18 s lets a drop miss a floor less than about 32 px below.
- `PlayerState.h:43`: a write that failed is not repeated while the map stays the same,
  and a last map that is gone is replaced by the default map at every start.

## 12. Not modelled

- Crypto (fixed algorithms on bytes, decided by known answers), the JSON reader and
  the fixed strings of the protocol (pure conversions no property depends on).
- The platform layer, rendering, the camera, the palettes and their search boxes
  (input and output, no state beyond a frame).
- The Python data set tools (batch scripts), vendored SQLite (`sqlite3.c`,
  `sqlite3.h`: third-party code) beyond its transactions.
- Accounts beyond one step per call: two processes that register one name, where
  only the UNIQUE constraint decides.
- A SIGINT during start-up, a killed server and power failure; floating-point
  rounding of positions; two keys pressed in one frame, except where the code's
  order makes a difference (AI mode, Jump with Down).

`PROJECT.json` gives the status and the reason for each component.
