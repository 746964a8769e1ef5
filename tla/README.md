# Agent realms: a TLA+ development

This directory models the part of this Hyprland fork that upstream Hyprland
does not have: *agent realms*. A realm is a nested compositor, run in a process
group of its own and shown as one window on the host, in which an agent works
while a human may watch it, take its input over and give it back. The modules
are translated from `src/realm/` and `tools/` of the repository; the
milestone documents under `docs/` are used only where the README says that code
and document disagree. Beside the realms it models one older part of Hyprland, the
session lock with the watchdog process that restarts a crashed compositor.

## Inventory

| Part | Code | State | Operations |
|---|---|---|---|
| Realm manager | `src/realm/RealmManager.cpp`, `Realm.cpp` | the realms, one record each (state, input owner, observation, capabilities, exit code, compositor PID, runtime directory); one process entry per supervised realm (startup and termination deadlines, exit received, SIGKILL sent, applications not reaped) | create, start, open application, pause, pause all, resume, stop, kill, take over, release, allow and deny observation, grant and revoke a capability, destroy; the 50 ms poll; shutdown |
| Supervisor | `RealmManager.cpp:145-254` | the compositor's PID, the status pipe | wait for the compositor, report its exit, exit |
| Input controller (host) | `RealmInputController.cpp` | per realm a helper process and channel, ready flag, token buckets, sequence, pending inputs, one pending capture, sequences to be ignored; failures; helpers to be reaped | send input, capture; lifecycle, lease, permission and capability listeners; helper messages; timeouts; reaping |
| Agent controller helper | `tools/realm-agent-controller/` | input waiting for a frame callback, held keys and buttons, one capture | input, release all, capture, cancel, answers |
| Window manager | `RealmWindowManager.cpp` | realm to window and back, requested workspaces, decorations | window open, close, take over, release, place on a workspace, focus, requested close |
| Control server | `RealmControlServer.cpp` | clients with input and output buffers, what each waits for | accept, read, one request, answer, delayed results, disconnect, shutdown |
| Decoration, IPC, dispatchers | `RealmDecoration.cpp`, `RealmIPC.cpp`, `RealmDispatchers.cpp` | the pressed control | call one operation of the above |
| MCP server | `tools/realm-mcp-server/` | one tool with its step and deadline; one control connection with the call in hand | tools that make one call or several: launch (with its cleanup), finish, input, capture, pause, resume |
| Session lock | `src/managers/SessionLockManager.cpp`, `src/protocols/SessionLock.cpp`, `LockNotify.cpp` | which lock holds the session, who has been told, the timer, the surfaces shown | lock, unlock, destroy, unlock by force; frames, monitors, the five seconds |
| Session watchdog | `start/src/core/Instance.cpp`, `start/src/main.cpp` | what it has heard over a pipe: initialised, locked, exiting | read, wait for the compositor, start it again, quit |
| The rest of Hyprland | `src/*`, `hyprctl`, `hyprpm`, `start` | windows, layouts, outputs, clients, configuration | listed in `PROJECT.json`, not modelled |

How they interact: every part of the host runs on one event loop, so a handler
runs to its end before the next one starts. The manager calls its lifecycle,
owner, permission and capability listeners *inside* its handlers; the input
controller, the window manager and the IPC are such listeners. Processes of the realm (compositor, applications, supervisor, helper) run concurrently with the
host and are known to it through signals, a status pipe, a runtime directory
that is polled, and a message socket. The MCP server is a process of its own that
knows the host through the control socket. The watchdog is the parent of the host
compositor, whose session lock writes what happens to it into the watchdog's pipe.

What is hard: exits, readiness and deadlines that are pending in the same poll
pass; a group that ignores SIGTERM or is stopped when it receives one; a
supervisor that dies without reporting; starts that fail half-way; requests that
meet a realm which is still being cleaned up; a lease, a permission and a
capability that change independently and must end together; answers of the
helper that arrive after what they answer was cancelled or timed out; a control
client that reads too slowly for its results, or gives up on an answer and meets
it in its next call; a tool that fails half-way through the calls it makes;
lock clients that crash, replace each other and race a timer; a compositor that
crashes with its last messages still unread. `PROJECT.json` lists each of them at
its line.

## Modules

| Module | What it is |
|---|---|
| `Realm` | the record of a realm and the operations on it, as operators |
| `RealmManager` | the state machine of the manager, the supervisor and the processes of each realm; its properties and its inductive invariant |
| `RealmContract` | the abstract specification of one realm: phase, owner, permission, capability |
| `RealmLifecycle` | what the clients of the host can tell of a realm, and all that may become of it, as operators |
| `RealmManagerContract` | the refinement mappings from the manager to one contract and one lifecycle per realm |
| `RealmManagerProofs` | the theorems about `RealmManager` and their proofs |
| `MCRealmInputController`, `MCRealmControlServer` | constraint and symmetry for the runs |
| `RealmManagerStepProofs` | theorems about the steps of `RealmManager`: the two refinements, events, verdicts, signals, and that starts and stops end |
| `RealmAgentHelper` | the helper process, as operators on its record |
| `RealmInputController` | the host side of input and capture for one realm, composed with `RealmContract` and one helper record per process ID |
| `RealmInputControllerProofs` | its inductive invariant, theorems and proofs |
| `RealmInputSocketProofs` | theorems about what is in the helper's socket |
| `RealmWindows` | the window manager, the ANR data and the focus for one realm, composed with `RealmContract` and the windows of its compositor |
| `RealmWindowsProofs` | its inductive invariant, theorems and proofs |
| `RealmControlServer` | the connections of control clients: frames, limits, output, delayed results |
| `RealmControlServerProofs` | its inductive invariant, theorems and proofs |
| `RealmControlClient` | the client's end of a control connection: one call at a time, with deadlines, and the server as far as it shows there |
| `RealmMCPServer` | the tools over that client, and the realms of the host that others use too |
| `RealmMCPServerProofs` | the inductive invariants of both, theorems and proofs |
| `SessionLock` | the lock objects, their manager, the timer and the monitors |
| `SessionWatchdog` | the compositor as a process, composed with its session lock, and the watchdog that restarts it |
| `SessionWatchdogProofs` | the inductive invariant of both, theorems and proofs |

`RealmManager` is the detailed machine of all realms and is shown to implement
`RealmContract`; the other components see a realm through the contract only.
So what they promise rests on the contract, and the contract on the manager.
The control server is the exception: what it promises does not depend on what
the requests do, so it is a machine of its own with an input controller that
answers, or cancels, any accepted request at any time. The MCP server sees of the
host what is true for any client: a server that may close, and realms that
change as `RealmLifecycle` has it, which `RealmManager` is shown to keep to
(`KeepsLifecycle`). There a realm is an ID that is never reissued, here a name, so
that a name whose realm was destroyed is free again. The session lock touches no realm.

### RealmManager

`realm`, `process` and `group` map each realm ID to a record: what `CRealm`
stores, what `SRealmProcess` stores, and what the operating system knows (who
executes, which signals are in effect, whether the display is published, how far
the supervisor is). Each public method of `CRealmManager` is an action with the
same checks in the same order; a method that fails without an effect is not a
step. `StartRealm` has one disjunct per way a start can end: nothing prepared,
supervisor not launched, compositor not executed, launched. A launch that fails
may leave a *stray* compositor: when its supervisor dies between the fork and the
handshake (`RealmManager.cpp:183`, `279-280`), `launchRealmProcess` signals the
supervisor alone, as it does not know the compositor's process group, and the
compositor runs on, with no entry in `m_processes` and nobody to end it.
`StartUnlaunched` sets the field `stray`, `NewGroup` keeps it beside a later group
of the same realm, and `StrayExits` is the compositor's own end. The properties and
theorems are about the realm and its group in its presence; none promises anything
of the stray itself.

`DispatchPendingEvents` is one pass of the poll over *every* supervised realm:
reap applications, take a reported exit or an end of file, else look at
readiness and the startup deadline, then force a kill that is due, then erase
the entry when the group is empty and the supervisor can be waited for.
`Finding` names what a pass finds for one realm, `Noticed` the entry after it,
`DispatchedRealm`, `DispatchedProcess` and `DispatchedGroup` the outcome.

`shutdownAll` blocks the event loop in two waiting loops, so it is three steps
(`ShutdownBegin`, `ShutdownKill`, `ShutdownFinish`) between which only the
operating system, and the poll the loops run themselves, can act.

Abstractions. Realm IDs are drawn once from a finite set (`RealmIDs`, the code
counts up and never reissues one). A clock is a deadline that is `pending` until
the environment lets it pass. Exit codes are told apart as far as the code does
(unknown, 127 for a failed exec, reported). The readiness files are one flag.
Process IDs are not numbers and are never recycled; a realm process that leaves
its process group with `setsid` is not modelled. Listeners are the `announced`
field, the last event that was emitted.

### RealmInputController and RealmAgentHelper

The manager calls the controller's listeners inside its own handlers, so each
step of the realm (`BecomeReady`, `HandOver`, `Pause`, `End`, `Unobserve`,
`RevokeObserve`, `RevokeInput`, ...) is the contract's step and the listener's
reaction in one. `controller` is the realm's `SController`, `reaping` the map of
dropped helpers, `timer` the one maintenance timer that `scheduleMaintenance`
sets. `SendInput` and `RequestCapture` are the public requests, `Read` one
message (or the end of file) of the helper, `Maintain` one run of the timer,
`Destroy` the destructor. `helper` maps process IDs to records of
`RealmAgentHelper`: the socket both ways, the acknowledgements the helper waits
for, its one capture and whether a key is held. `Handled` is one turn of the
helper's loop, with the outcomes that the Wayland connection allows
(`Outcomes`: flushed, unflushed, refused).

Two variables are history and exist for the properties: `awaited`, the
requesters who have not been answered, and `lost`, that the last `RELEASE_ALL`
did not fit into the socket.

Abstractions. One key or button stands for all; `PRESS`, `LIFT` and `TYPE` stand
for the messages that leave it held, let it go, or neither. `pointer` stands for
the capability that input needs. A sequence number is the smallest to which
nothing refers any more: the wrap of the 32-bit counter and the eviction above
64 ignored captures are not modelled.
`NumbersLeft` bounds the requests so that a retry finds a number. The rate limits
are left out: a refused request changes nothing. The results the helper keeps
because its socket is full and those in the socket are one queue. When the
helper goes, any suffix of what it has not yet sent may be lost. Encoding,
decoding, pixels and `dispatchPendingEvents` (the tests' entry) are left out.

### RealmWindows

`host` is `realmToWindow` and `windowToRealm` in one; `blocked` is the rule flag
`INPUT_BLOCK_REALM_AGENT`; `anr` the suppression in the ANR data of the realm's
connection; `requested` is `requestedWorkspaces`. `focus` holds both
`m_focusWindow` and the window of the keyboard, because an exclusive layer
surface separates them and `CFocusState` then refuses to change either. `hidden` is
`m_cursorHiddenByPolicy`: `CursorSeen` is `updateHostCursorVisibility`, which every
step calls that moves the mouse (or pretends to) and that makes or ends the
association, and which a window that is moved away from under the cursor does not.
`OwnerChanges` and `LifecycleEvent` are the listeners, again inside the realm's
steps; `TakeOver`, `Release` and `RefusedRelease` are `takeoverRealm` and
`releaseRealm`, which need a host window; `Open`, `Close` and `Disconnect` run the
ANR manager's listener, then the window manager's, then what `Window.cpp` does to
the focus. The compositor can be gone while the host has not noticed (`gone`), or
run on when only its supervisor died (`orphaned`), and its connection hangs up
on its own: a new realm process can meet windows of the last one. A stray
compositor never gets a PID in a realm's record, so that its windows are not the realm's.

Abstractions. The windows that are not this realm's are the number 0.
Fullscreen, modal and no-focus rules and groups are left out, as are the ANR
timer and dialog and workspaces that cannot be created. Where the cursor is, is
left open: over the host window's content or not. What the compositor
sent before it was stopped may be handled while its realm is paused. A start that
fails changes nothing here.

### RealmControlServer

For each connection `input` and `partial` are its receive buffer, `output` and
`queued` are `SClient::output` and `queuedOutput`, `status` is
`closeAfterWrite` and its place in `clients`, and `watched` is what the event
loop watches it for. `pending` is `pendingInputs` and `pendingCaptures`; `owed`
is what the input controller has accepted. `Dispatch` begins `handleClientEvent`,
and `turn` says how far it is: each iteration of `processFrames` (`TooLarge`,
`Overloaded`, `Answer`, `AcceptRequest`, `Change`, `Overrun`, `FramesDone`), each
`recv` (`Receive`, `NothingMore`, `EndOfFile`) and each `send` (`Write`,
`Blocked`, `WriteFails`, `Flushed`) is a step of its own. `Change` is a request
that changes a realm: the input controller may call the result callbacks for
requests of any client inside it (`Cancel`), also for the client that asked,
which is how a connection can begin to close in the middle of its own request
(`AnswerChange`).

A handler meets its peer only in its system calls, so the peers act between
turns and while a turn reads or writes: what they do at another moment might as
well happen at the next call.

Abstractions. What a frame says is decided when it is looked at; frames that
wait are counted. Sizes are counted in units of which an error and the smallest
response and event take one. An event may be larger when the helper words its
error; one that a request causes (`Cancel`) is of a fixed short text and no longer
than the request's response, which succeeds and describes the realm. A peer that
closes and one that shuts down its side are one: both end in `recv` returning 0.
An error event and a failed write need a peer that has ended. The number of
`recv` and `send` calls per turn is not counted; any of them may be the last.
Every connection has a new ID and is used once. Rejecting a connection sends
an error and leaves no trace. `dispatchPendingEvents` (the tests' entry) is
covered by `Dispatch`.

### RealmControlClient and RealmMCPServer

`socket`, `sent`, `received` are the control connection, `pending` what the server
has accepted and not finished. `call` is the call in hand: `Begin` writes a
request, `ReadPacket` is one turn of the reads in `request`, `sendInput` and
`capture`, `TimeOut` their deadline of ten seconds, `HangUp` the end of file. A call
that gives up leaves the socket as it is, so the next call may read what was meant
for the last one. `tool` is the tool that runs and the step it is at; `Go` makes the
next call, `Report` returns. `Launch` follows `launchRealm` with its `fail`,
`Finishing` the loops of `finishRealm` and `cleanupRealm`, `Capture` those of
`captureRealm`, and `expired` is the deadline of the loop. The host answers
(`ServeLifecycle`, `ServeUse`, `Complete`), the human and other clients use the same
realms (`Elsewhere`), and processes become ready, exit and are noticed (`BecomeReady`,
`Happen`). What each of these makes of a realm is an operator of `RealmLifecycle`.

Three variables are history: `done`, the steps of this tool that the host has
carried out; `late`, that a call gave up on an answer that was still to come; and
`made` in a realm's record, that the launch in hand created it.

Abstractions. Packets and requests are read and written whole. Request and
capture IDs are never given twice, so a packet says instead whether it is for the
call in hand (`mine`); input is completed by its sequence number alone, so that
number is kept. Of the tools that only make one call, pause and resume stand for
the others. The JSON-RPC session, the bound mode, the validation of arguments,
PNG and coordinate spaces are left out.

### SessionLock and SessionWatchdog

`phase` and `told` are the `ext_session_lock_v1` objects and the events sent to
them; `session`, `answered`, `timer`, `shown` and `mapped` are `m_sessionLock` with its
`hasSentLocked`, `sendLockedTimer`, `lockedMonitors` and surfaces; `locked` and `notified`
are the flags of the two protocols. `RequestLock` is `onLock` with
`onNewSessionLock`, `Unlock` and `DestroyLock` the requests of a client (or its crash),
`ForceUnlock` the dispatcher's way out after a crash, `RenderLockscreen`
`onLockscreenRenderedOnMonitor`, `TimerFires` the five seconds. `pipe` is what the
compositor has written to the watchdog.

`SessionWatchdog` adds the compositor as a process (`Start`, `End`, `Die`), the thread that
waits for it (`Reap`) and the loop of `start-hyprland`: `Read`, `Restart`, `Stop`, and `Quit`
for its signal handler. `unheard` is history: a lock that was replaced without
being finished has unlocked the session, which neither the lock manager nor
the watchdog hears of.

Abstractions. Lock clients keep to the protocol, but may crash at any moment.
Where the keyboard focus goes and what is drawn for a missing lock client are
left out; so are safe mode, nixGL and the arguments handed through. Forks and
pipes succeed.

## Runs

| Run | Instance | Question |
|---|---|---|
| `manager_one` | one realm, one application, capabilities `observe` and `pointer` | Can any order of requests, crashes, failures and deadlines break ownership, permission, verdicts, events or signals, is every step one of the contract and of the lifecycle, and do starts, stops and cleanups finish? |

Realms share nothing but the phase of the shutdown, so one realm shows every
behaviour of a realm; that the steps which act on all realms at once (pause all,
poll, shutdown) lose none is left to the proofs, which are for any set of realms.
One application is enough to keep a group in existence after its compositor is
gone.

| Run | Instance | Question |
|---|---|---|
| `input_requests` | 3 numbers, `PRESS` and `LIFT`, both capabilities, flushed or refused | Is anything pending or held that lease, capability and phase no longer permit? Can a frame arrive that is neither awaited nor known to be ignored? Does the controller always know who waits for an answer? |
| `input_helpers` | 2 numbers, `TYPE`, both capabilities, every outcome, fair | Are helpers that crash, hang or start too slowly controlled or reaped while the realm restarts, and is everybody answered? |

A socket for two messages is full after two: longer ones only delay that. A
third number is there where a cancelled, a retried and a new request must be
told apart. One process ID is enough for one realm: it is free again only when
the last helper was reaped. `input_requests` has the constraint `ReleasesArrive`: where a
`RELEASE_ALL` has been lost `HeldUnderLease` promises nothing, the state is checked and not
continued (`input_takeover` continues it).

| Run | Instance | Question |
|---|---|---|
| `windows` | 2 windows, 2 workspaces | Do block, suppression, workspace and keyboard follow the realm in every order of lease, phase, windows, connection, layer surfaces, mouse and requests, and does the hidden cursor come back? |

A second window is what `associateWindow` refuses and what takes the place of
a closed one; a third would be refused like the second. A second workspace tells
a request from the workspace on which a window opens.

| Run | Instance | Question |
|---|---|---|
| `control` | 2 symmetric clients, 1 input, 1 capture, 1 request per turn, frames of 1 or 2 units, output of at most 3, 2 frames in a socket | Are queues counted and bounded, do results find who asked, does the loop watch for everything that is left to do, does a connection that closes do nothing else? |

An output limit of 3 is the smallest that is neither one frame nor a multiple
of frames, so that a response, an event and an error each fit in some states
and not in others. With two frames in the socket and one request per turn a
client can exceed what one turn takes. Two clients are enough for one to be
closed, removed or filled up inside the handler of the other. The run ends when
every connection has been used, so deadlock is not checked.

| Run | Instance | Question |
|---|---|---|
| `tools` | 1 realm name, 1 input number, 2 skipped packets, 2 packets and 1 request in the socket, fair | Is what a tool reports true however late answers come, does a failed launch, unless it has lost its host, stop what it created and nothing else, does every tool return? |
| `lock` | 2 locks, 2 monitors, 1 restart, fair | Does everyone who is told about the lock agree with it, is a crashed session locked again if and only if it was, is the client that holds it answered? |

A response and an event are the most that one call has under way, and the server
reads one request at a time, so a second place in a queue is only ever taken by
what an earlier call left behind. Skipping two packets is the least that
distinguishes skipping from giving up. Two locks are enough for one to be refused,
ignored or to take over; the second monitor is the one that lags behind; a second
restart begins as the first. The type invariants are true of every behaviour by
proof and are not checked again by the runs.

### Where code and documents disagree

Each of these runs checks one sentence of a document, and TLC finds a
behaviour of the code that breaks it.

| Run | The document | The code |
|---|---|---|
| `input_takeover` | milestone 7: a takeover's `RELEASE_ALL` prevents a key from remaining held | `releaseAll` does not notice that the socket is full, and drops the message |
| `input_starved` | milestone 8: captures have a bounded completion timeout | every accepted request sets the one maintenance timer anew; requests that come more often than every 50 ms postpone every timeout |
| `input_late_frame` | milestone 8: late descriptors of a cancelled capture are ignored | an error about it, while it is still in progress, removes it from the ignored ones; its frame then disconnects the helper |
| `windows_keyboard` | milestone 5: agent-owned windows accept no keyboard focus | the listener blocks a new window, and then `mapWindow` focuses it without asking |
| `tools_crossed` | computer use: success means that the compositor processed the action | the client compares the sequence and not the realm: a late event of one realm's input completes that of another |

Four more were noticed and have no run: the helper is forked into the host's
process group (`startController`), so pausing a realm does not stop it, though
milestone 7 says that it belongs to the realm's group; a second window of the
same compositor is refused by the listener before it is blocked, so it accepts
physical input while the agent owns the realm; `releaseRealm` needs a host
window, which may have closed under the lease; and a stray compositor (see
`RealmManager`) is not part of the realm's "one lifecycle unit" of milestone 7.

Deadlock checking is off: a host whose shutdown is done stops, and so does one
in which every realm is settled and nobody asks for anything.

### Fairness

`FairSpec` assumes weak fairness of the poll (its timer rearms itself while a
process is supervised, `RealmManager.cpp:498-511`), of the steps of
`shutdownAll` (one call), and for each realm of both its deadlines (clocks advance),
of the death of a compositor and of each application that was sent SIGKILL, and of
the supervisor's report and exit after its compositor is gone. No request is fair, a compositor need not become ready or
exit, and nobody has to obey SIGTERM: that stopping finishes nevertheless is
what `StopCompletes` and `CleanupCompletes` show.

`RealmInputController!FairSpec` assumes weak fairness of the event loop's
read, of a maintenance run that is due, of the timer, of the deadlines of startup and
capture, and for each input and each helper to be reaped of its own deadline.
Helper and compositor are not fair: they may hang for ever. Requests
are not fair either, but one that is accepted sets the timer anew, so weak
fairness of the timer promises nothing while they keep coming. That is why
`AnsweredWhenQuiet` and `ReapedWhenQuiet` assume that requests cease, and
`input_starved` shows what happens when they do not. `RealmWindows` has no
liveness property: nothing in it must eventually happen.

`RealmMCPServer!FairSpec` assumes weak fairness of the MCP server's own steps (it
is a sequential program) and of the deadline of its polling loops. Nothing of the
host is fair: it may never answer. `SessionWatchdog!Spec` assumes weak fairness of the
lock timer while the compositor is up, and nothing of the monitors, which may never
render.

Nor has `RealmControlServer`: a peer that never reads keeps its connection, which
no timeout ends. What the code does promise is stated as safety. `NoLostWakeup`
says that whatever is left to do is something the event loop watches for, and
`ClosingIsFinal` that `ToSend`, what a closing connection still has to send or
may still be handed, never grows; so the connection is gone as soon as its peer
has read that much.

## Proofs

`RealmManagerProofs` proves, for every set of realms, applications and
capabilities, that `Spec` implies `[]` of `TypeOK`, `OwnedIffRunning`,
`ObservationIsBacked`, `ActiveIsSupervised`, `PIDIsCurrent`, `GroupsAreSupervised`
and `RuntimeOutlivesProcess`; the run checks the second, the third and the sixth. The only assumption on
the constants is `CapabilitiesAssumption` (`observe` is a capability), and the
proofs do not need it.

None of these is inductive alone. `IInv` is: `Sound` relates the three records
of one realm, and `Quiet` says that no realm is live once the shutdown has
begun. Two conjuncts are there for the induction only. `failOnExit` belongs to a
realm that has failed already: without it a stopping realm could end `FAILED`
and its entry be erased while the realm is active. And `Quiet`: without it
`ShutdownFinish`, which drops every entry, could leave a running realm behind.
The proof first establishes what each operation does to the records of one
realm (`EndedRealm`, `ExitedRealm`, `DispatchedSound`, ...), then lifts it to
the tables (`OneRealm`, `Pointwise`), one lemma per action, and ends with
`Inductive` and one short theorem per invariant.

`RealmInputControllerProofs` proves `TypeOK`, `PendingIsPermitted`,
`AnswersAreOwed`, `ControlledOrFailed`, `HelpersAreKept` and `MaintenanceIsSet`
for any set of process IDs and numbers, any capacity of the socket, any inputs,
capabilities and outcomes (`InputAssumption`, `NumbersAssumption`). They support
each other: an input is cancelled by the listener of the lease only if the
realm has a controller, so `IInv` also has `NoneIsNone` (without a process ID the
controller record is empty: a listener that finds no controller has nothing to
cancel); and a helper is found by the listeners only if it is the controller's
or is to be reaped. One lemma per helper of the code (`Detach`,
`StopController`, `WithoutInputs`, ...) says what it keeps, one per action puts
them together.

Four more theorems are about what the controller does over several steps. `HelpersHaveOnePlace`
says that a process ID is unused, or its helper is the one the host talks to, or one
to be reaped, and never two of these; from it, `HelpersAreGivenTime`: the host kills a
helper that still executes only when its time to end has passed, or at its own end.
`CapturesAreAskedTwice` says when a capture gets another number, and
`AnswersHaveACause` lists why an input or a capture may end (the helper's answer, a
deadline, the realm, lease, permission or capability, the end of the controller):
no step drops a request in passing. `RealmKeepsContract` shows that the realm in this
module is no other than `RealmContract`'s, which is what lets it stand on
`ImplementsContract`.

`RealmWindowsProofs` proves every property of the run `windows`, for any set of
windows and workspaces (`WindowsAssumption`: 0 is neither). The strengthening
adds `SuppressedForHost` (ANR data is suppressed for a host window only, else a
destroyed realm could leave a suppression behind) and `KeyboardIsFocus` (the
keyboard is at the focused window or at none, and never at a realm window beside
an exclusive surface). The latter is what makes `KeyboardLeavesWithLease` true
although `CFocusState` refuses to change the focus under an exclusive surface.
`ListenersKeep` treats all steps whose only effect is the listeners', the other
steps have a lemma each, and `LeaseEnds` shows that a step that ends the lease is
one that blocks. Beyond the run, `DissociationIsComplete` says that a window that is
no longer the realm's keeps nothing of it, `KeyboardEntersOnRequest` and
`TakeoverGivesTheWindow` what it takes for the keyboard to get to a realm's window, and
`RealmKeepsContract` is the same as for the input controller.

`RealmControlServerProofs` proves every property of the run `control`, for any
connections, requests and limits (`ControlAssumption`: the output limit holds
one frame, as `start` checks, and 0 is no client). `QueueIsCounted` is stated with a
witness, the function that says where in the stream each frame ends, rather
than with a sum, so that appending a frame, taking one and shortening one are
elementary (`QueueStep`, `WriteStep`). `TurnOK` and `WaitsOK` say what holds at
each stage of a turn. Their one subtle case is a request that cancels others:
its client is open with the request in its buffer, or closing with a queue so
full that the response will not fit either. `ClosingIsFinal` rests on that, and on
an event taking the place of the request it answers (`EventForRequest`).

`RealmMCPServerProofs` proves `TypeOK`, `InStep`, `CleansUpItsOwn`, `SuccessIsReal` and
`LeavesRealmOnlyIfLost`, for any realm names and limits. `IInv` has three parts beside the
types. `InPlace` says what is under way for a call of a client that has never given
up: the request; then its response; then what it accepted, or the event of that. `InHand`
says that a success which the client can still see is one of the step that the
tool is at. It does not need the client to be in step, except for input, which is
where `tools_crossed` finds its counterexample. `StepByStep` says that a launch has
done the steps before its own. For `LeavesRealmOnlyIfLost` there are three more, of which
`Stops` carries the argument: from the request to stop on, the realm that a launch
created is not active, or its process is gone, unless someone else starts it. It holds
while the connection is open and no call has given up on an answer that still came, and
the property says so: after such a call the `realm.info` of `cleanupRealm`
(`MCPServer.cpp:632-635`) reads an earlier answer, and the realm keeps running.

`SessionWatchdogProofs` proves `TypeOK`, `LockedOnce`, `EveryoneAgrees`, `RestartsAsItWas` and
`OnlyCrashesRestart`, for any locks, monitors and number of restarts. `HolderInv` ties a
lock's events to the manager's flags; `StageInv` ties how far the compositor got to
what the watchdog was told *or will be told by what is still in the pipe*; and
`AgreeInv` extends `EveryoneAgrees` to a compositor that is dead and has not been
started again. `Says` after one more message (`SaysAppend`) is the lemma that all of
it rests on.

`RealmInputSocketProofs` proves `HeldUnderLease`, and `FramesAreExpected` under
`AllFlushed`: the helper's connection to the realm's compositor takes all that is
written to it, as in the run that checks it (`input_late_frame` shows the counterexample
where it does not). `SocketInv` follows a request through the socket: every number is at
one place at most (`Once`), and a capture under way is among those that the host awaits or
ignores. `Passes` says what a step may do to the channel of a helper, so that the
steps of the host, of the helper and of the operating system are each shown once to be of
that kind.

`RealmManagerStepProofs` proves what is about steps, again for any realms: the
refinement `ImplementsContract`, `EventsTellTheState`, `VerdictFollowsRequest` and
`TermBeforeKill`. `Changed` lists the ten ways in which a realm's record can change, one
lemma per action shows that it does nothing else to any realm, and the four
properties follow from the list. `StepInv` strengthens `IInv` where it says too little: the
events so far, that a realm is not `STOPPED` while the exit of its process is still to
come (else an exit nobody asked for could leave it so), and that a group with a
deadline was told to end. `VerdictFollowsRequest` includes the pass that takes an exit and
erases the entry at once, and the end of the shutdown, which erases it without an exit;
there it needs `Quiet`.

`NoneStaysStopped` (`StopsEndWithPauses`) follows from `Sound` and from `Lasting`, the
invariant of the liveness proofs. `Sound` says that a group which is stopped outside a
pause was killed or had an exit taken, and `Lasting` that such an exit was that of the
compositor or of its supervisor and set the deadline of the SIGKILL. That SIGKILL is needed:
`handleProcessExit` sends SIGTERM without SIGCONT.

`LifecycleIsKept` is the second refinement, `KeepsLifecycle`, and what makes
the theorems about the tools hold over this manager: it changes a realm only as
their environment is allowed to. `Life` lists the ten ways in which state and
fate of a realm (no entry, a live group, a group that is gone) change together;
each action is one of them for every realm, whatever the poll finds at once. It needs
more than `IInv`: as long as no exit was reported the compositor, or the zombie that
its supervisor has not waited for, is there to be signalled (`Lasting`), so that a realm
which becomes ready is live. That the manager also does all that the lifecycle allows is
not claimed.

### Liveness

Weak fairness speaks of ENABLED, which the installed prover cannot expand. Each
liveness theorem therefore has a hypothesis that is a state formula: wherever the
conditions of a fair action hold, the action is ENABLED (`AllDueStepsHappen` for
the realms, `DueStepsHappen` for the input controller and for the tools,
`DueTimerFires` for the lock). It says nothing but that the guards written out in
it are the action's guards. TLC evaluates it: with the proofs module as the root, the
constants of `RealmManagerOne.cfg`, `InputHelpers.cfg`, `Tools.cfg` and `Lock.cfg`,
and the hypothesis as the INVARIANT, it holds in every state of those runs. What is
proved is the rest, for every value of the constants: that these steps lead
there, and that nothing else leads away.

| Theorem | What it shows | The argument |
|---|---|---|
| `StopsComplete` | `StopCompletes` | for each realm, the deadline passes, the poll kills the group, the compositor dies, its supervisor reports, the poll takes the report; `Onward` says that no other step goes back, also when `shutdownAll` begins in the middle |
| `StartsResolve` | `StartResolves` | the startup deadline passes, and the poll finds readiness, an exit or the deadline |
| `HoldersAreAnswered` | `HolderIsAnswered` | while the holder is unanswered its timer is set (`TimerInv`), and no other lock takes it away |
| `AllToolsReturn` | `ToolsReturn` | `Place` numbers how far a tool got; every step of it goes on, or round a polling loop until `expired`, and none goes back |
| `EachIsAnsweredWhenQuiet` | each requester is answered | its deadline passes, the timer elapses, and a maintenance run ends it, if nothing else did |
| `EachIsReapedWhenQuiet` | each helper is reaped, once no helper is launched | the same, for the deadline of the helper |

Four inductions remain beyond the prover: one over a temporal formula
cannot be instantiated here. That a call gives up after `MaxIgnored`
packets is a count; `AllToolsReturn` has it as its hypothesis `SkippingEnds` (no call
skips packets for ever), which TLC checks as a PROPERTY of the same instance.
`AnsweredWhenQuiet` promises one moment from which nobody waits, where the theorem
has one for each requester; the step between them is an induction over
the finite set of requesters. `ReapedWhenQuiet` does not assume that launches
cease: each sets the timer anew, but needs an unused process ID, of which there
are finitely many. `CleanupCompletes` needs that each of a finite set of
applications has died. The last three properties are checked by TLC only.

So is `LateFramesAreIgnored`, whose run is expected to fail, as are the other four
of the table above. No theorem is about a recursive definition: there is none in
these modules.

## Not modelled

File formats, environment variables, name validation, drawing, logging and the
wording of errors. Of the MCP server the JSON-RPC session, the bound mode and the
conversion of images; of the realms the pointer's buttons and its grab, the decoration's
controls, and what happens between `fork` and `exec` in the supervisor, of which
`RealmManager` only has the outcomes. The parts of Hyprland that realms do not touch; each
is listed in `PROJECT.json` with the reason.

## Plan

Done: the manager with its contract, the input controller with its helper, the
window manager with ANR data and focus, the control server, the client of the
control socket with the tools of the MCP server, the session lock with its
watchdog.

Next, in this order:

1. `RealmPointer`, extending `RealmWindows`: what is under the cursor, the pointer
   focus, held buttons and the decoration's pressed control. Properties: a settled
   pointer is not on a blocked window, a release that is swallowed leaves no button
   held, a control acts only where it was pressed.
2. The supervisor in detail: the status pipe, the exec pipe and the signals
   between `fork` and `exec`, refining the outcomes of a start, the stray compositor
   included, that `RealmManager` has of them.
3. Proofs about 1 and 2.
