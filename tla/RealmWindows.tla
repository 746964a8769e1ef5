---------------------------- MODULE RealmWindows ----------------------------
(***************************************************************************)
(* CRealmWindowManager (src/realm/RealmWindowManager.cpp) for one realm:   *)
(* which window of the host shows the realm, and what that window takes    *)
(* over from the realm's state: whether it accepts input, whether it is    *)
(* suspected of not responding, and on which workspace it is; and whether  *)
(* the host's cursor is hidden because it is over the realm's content.     *)
(*                                                                         *)
(* The realm is RealmContract, as in RealmInputController; here it has a   *)
(* compositor, whose process, Wayland connection and windows come and go   *)
(* on their own.  The window manager's listeners are called inside the     *)
(* steps of the realm and of the windows.  All windows that are not of     *)
(* this realm are one: 0.                                                  *)
(***************************************************************************)
EXTENDS Integers

CONSTANTS Windows,      \* the windows the realm's compositor can open
          Workspaces    \* the workspaces a realm can be placed on

ASSUME WindowsAssumption ==
    /\ Windows \subseteq Nat \ {0}
    /\ Workspaces \subseteq Nat \ {0}

VARIABLES
    phase, owner,   \* the realm: see RealmContract
    observable, granted,   \* nobody observes the realm here: both stay FALSE
    exists,         \* it has not been destroyed
    compositor,     \* its compositor: "none", "alive", "gone" (it exited and
                    \* its PID is still recorded), "orphaned" (it runs and its
                    \* PID is not recorded any more)
    client,         \* its connection: "none", "connected" or "hungup"
    mapped,         \* the windows of that connection that are mapped
    host,           \* realmToWindow and windowToRealm: the host window or 0
    blocked,        \* the windows with INPUT_BLOCK_REALM_AGENT
    anr,            \* the connection's ANR data: "none", "watched", "suppressed"
    hidden,         \* m_cursorHiddenByPolicy: the host's cursor is hidden
    requested,      \* requestedWorkspaces: a workspace or 0
    workspace,      \* the workspace of the host window, 0 without one
    moved,          \* history: the user has moved the host window since
    focus,          \* m_focusWindow, and the window that has the keyboard
    exclusive       \* an exclusive layer surface or a session lock is up

contract   == <<phase, owner, observable, granted>>
realmVars  == <<contract, exists, compositor, client>>
hostVars   == <<mapped, host, blocked, anr, hidden>>
placeVars  == <<requested, workspace, moved>>
focusVars  == <<focus, exclusive>>
vars       == <<realmVars, hostVars, placeVars, focusVars>>

Contract == INSTANCE RealmContract

-----------------------------------------------------------------------------
Window == Windows \cup {0}

TypeOK ==
    /\ phase \in {"idle", "starting", "running", "paused", "stopping"}
    /\ owner \in {"AGENT", "HUMAN", "NONE"}
    /\ observable = FALSE /\ granted = FALSE
    /\ exists \in BOOLEAN
    /\ compositor \in {"none", "alive", "gone", "orphaned"}
    /\ client \in {"none", "connected", "hungup"}
    /\ mapped \subseteq Windows
    /\ host \in Window
    /\ blocked \subseteq Windows
    /\ anr \in {"none", "watched", "suppressed"}
    /\ hidden \in BOOLEAN
    /\ requested \in Workspaces \cup {0}
    /\ workspace \in Workspaces \cup {0}
    /\ moved \in BOOLEAN
    /\ focus \in [window : Window, keyboard : Window]
    /\ exclusive \in BOOLEAN

Init ==
    /\ Contract!Init
    /\ exists = TRUE
    /\ compositor = "none"
    /\ client = "none"
    /\ mapped = {}
    /\ host = 0
    /\ blocked = {}
    /\ anr = "none"
    /\ hidden = FALSE
    /\ requested = 0
    /\ workspace = 0
    /\ moved = FALSE
    /\ focus = [window |-> 0, keyboard |-> 0]
    /\ exclusive = FALSE

-----------------------------------------------------------------------------
(* CFocusState: nobody asks whether the window is blocked, and while an    *)
(* exclusive surface is up every change is refused.                        *)

On(w) == [window |-> w, keyboard |-> w]

Focused(w) == IF exclusive THEN focus ELSE On(w)

\* fullWindowFocus(nullptr) does nothing when no window was focused.
Unfocused == IF exclusive \/ focus.window = 0 THEN focus ELSE On(0)

-----------------------------------------------------------------------------
(* setInputBlocked of the host window, alone and as the owner's listener.  *)

FaultyBlocking ==   \* fault: the focus stays where it is
    /\ blocked' = blocked \cup {host}
    /\ UNCHANGED focus

Blocking ==
    /\ blocked' = blocked \cup {host}
    /\ focus' = IF focus.window = host THEN Unfocused ELSE focus

Unblocking ==
    /\ blocked' = blocked \ {host}
    /\ UNCHANGED focus

FaultyOwnerChanges ==   \* fault: a realm that nobody owns stays unblocked
    IF owner' = owner \/ host = 0 THEN UNCHANGED <<blocked, focus>>
    ELSE IF owner' = "AGENT" THEN Blocking ELSE Unblocking

OwnerChanges ==
    IF owner' = owner \/ host = 0 THEN UNCHANGED <<blocked, focus>>
    ELSE IF owner' # "HUMAN" THEN Blocking ELSE Unblocking

\* updateWindowANRSuppression, the lifecycle listener: the state as it is now.
LifecycleEvent ==
    anr' = IF host = 0 \/ anr = "none" THEN anr
           ELSE IF phase' = "paused" THEN "suppressed" ELSE "watched"

\* updateHostCursorVisibility: the cursor is over the host window's content, or not.
CursorSeen == hidden' \in {FALSE, host' # 0}

-----------------------------------------------------------------------------
(* The realm's steps.  A start that fails changes nothing here. *)

Kept == UNCHANGED <<exists, client, mapped, host, hidden, placeVars, exclusive>>

Start ==
    /\ exists
    /\ compositor = "none"
    /\ Contract!Start
    /\ compositor' = "alive"
    /\ UNCHANGED <<exists, client, hostVars, placeVars, focusVars>>

BecomeReady ==
    /\ compositor = "alive"
    /\ Contract!BecomeReady
    /\ OwnerChanges
    /\ LifecycleEvent
    /\ UNCHANGED compositor
    /\ Kept

(***************************************************************************)
(* takeoverRealm and releaseRealm.  Both need a host window.  A takeover   *)
(* unblocks the window and focuses it, which may bring its workspace under *)
(* the cursor; a release blocks it first, also when the manager then       *)
(* refuses the release.                                                    *)
(***************************************************************************)
TakeOver ==
    /\ host # 0
    /\ Contract!HandOver
    /\ owner' = "HUMAN"
    /\ blocked' = blocked \ {host}
    /\ LifecycleEvent
    /\ focus' = Focused(host)
    /\ UNCHANGED <<exists, compositor, client, mapped, host, placeVars, exclusive>>
    /\ CursorSeen

Release ==
    /\ host # 0
    /\ Contract!HandOver
    /\ owner' = "AGENT"
    /\ Blocking
    /\ LifecycleEvent
    /\ UNCHANGED compositor
    /\ Kept

RefusedRelease ==
    /\ host # 0
    /\ owner # "HUMAN"
    /\ Blocking
    /\ UNCHANGED <<contract, compositor, anr>>
    /\ Kept

Pause ==
    /\ Contract!Pause
    /\ OwnerChanges
    /\ LifecycleEvent
    /\ UNCHANGED compositor
    /\ Kept

Resume ==
    /\ Contract!Resume
    /\ OwnerChanges
    /\ LifecycleEvent
    /\ UNCHANGED compositor
    /\ Kept

\* stopRealm, killRealm, and the user's request to close the host window.
Stop ==
    /\ Contract!End
    /\ phase' = "stopping"
    /\ OwnerChanges
    /\ UNCHANGED <<compositor, anr>>
    /\ Kept

\* The realm ends as FAILED or STOPPED, unless it has done so already.
Ends ==
    /\ IF phase = "idle" THEN UNCHANGED <<contract, anr>>
       ELSE Contract!End /\ phase' = "idle" /\ LifecycleEvent
    /\ OwnerChanges
    /\ Kept

StartupExpires ==
    /\ phase = "starting"
    /\ Ends
    /\ UNCHANGED compositor

HandleExit ==
    /\ compositor = "gone"
    /\ compositor' = "none"
    /\ Ends

\* The supervisor's status pipe ends while the compositor is still there.
SupervisorDies ==
    /\ compositor = "alive"
    /\ compositor' = "orphaned"
    /\ Ends

\* dissociateWindow, for the host window.
FaultyDissociate ==   \* fault: looks for the cursor before the maps forget
    /\ host' = 0
    /\ blocked' = blocked \ {host}
    /\ hidden' \in {FALSE, host # 0}
    /\ workspace' = 0
    /\ moved' = FALSE

Dissociate ==
    /\ host' = 0
    /\ blocked' = blocked \ {host}
    /\ CursorSeen
    /\ workspace' = 0
    /\ moved' = FALSE

FaultyDestroy ==   \* fault: the request outlives the realm
    /\ exists
    /\ phase = "idle"
    /\ compositor = "none"
    /\ exists' = FALSE
    /\ Dissociate
    /\ anr' = IF host = 0 \/ anr = "none" THEN anr ELSE "watched"
    /\ UNCHANGED <<contract, compositor, client, mapped, requested, focusVars>>

\* Its process entry is gone, which the group's last process outlived.
Destroy ==
    /\ exists
    /\ phase = "idle"
    /\ compositor = "none"
    /\ exists' = FALSE
    /\ requested' = 0
    /\ Dissociate
    /\ anr' = IF host = 0 \/ anr = "none" THEN anr ELSE "watched"
    /\ UNCHANGED <<contract, compositor, client, mapped, focusVars>>

RealmStep ==
    \/ Start \/ BecomeReady \/ TakeOver \/ Release \/ RefusedRelease
    \/ Pause \/ Resume \/ Stop
    \/ StartupExpires \/ HandleExit \/ SupervisorDies \/ Destroy

-----------------------------------------------------------------------------
(* The compositor as a client of the host.  What it has sent before it was *)
(* stopped is still handled while the realm is paused.                     *)

Runs == compositor \in {"alive", "orphaned"}

Connect ==
    /\ Runs
    /\ phase # "paused"
    /\ client = "none"
    /\ client' = "connected"
    /\ UNCHANGED <<contract, exists, compositor, hostVars, placeVars, focusVars>>

Exits ==
    /\ Runs
    /\ compositor' = IF compositor = "alive" THEN "gone" ELSE "none"
    /\ client' = IF client = "connected" THEN "hungup" ELSE client
    /\ UNCHANGED <<contract, exists, hostVars, placeVars, focusVars>>

\* realmByPID finds the realm, and associateWindow one without a host window.
Associates == exists /\ compositor = "alive" /\ host = 0

(***************************************************************************)
(* The open listeners: the ANR manager's, then the window manager's; after *)
(* them Window.cpp may focus the new window, whatever they did.            *)
(***************************************************************************)
FaultyAssociated(w, ws) ==   \* fault: the suppression is left to the listener
    /\ host' = w
    /\ blocked' = IF owner # "HUMAN" THEN blocked \cup {w} ELSE blocked \ {w}
    /\ anr' = IF anr = "none" THEN "watched" ELSE anr
    /\ workspace' = IF requested # 0 THEN requested ELSE ws
    /\ moved' = FALSE
    /\ CursorSeen

Associated(w, ws) ==
    /\ host' = w
    /\ blocked' = IF owner # "HUMAN" THEN blocked \cup {w} ELSE blocked \ {w}
    /\ anr' = IF phase = "paused" THEN "suppressed" ELSE "watched"
    /\ workspace' = IF requested # 0 THEN requested ELSE ws
    /\ moved' = FALSE
    /\ CursorSeen

Ordinary ==
    /\ anr' = IF anr = "none" THEN "watched" ELSE anr
    /\ UNCHANGED <<host, blocked, hidden, workspace, moved>>

Open(w, ws) ==
    /\ Runs
    /\ client = "connected"
    /\ w \notin mapped
    /\ mapped' = mapped \cup {w}
    /\ IF Associates THEN Associated(w, ws) ELSE Ordinary
    /\ \/ focus' = Focused(w)
       \/ UNCHANGED focus
    /\ UNCHANGED <<realmVars, requested, exclusive>>

(***************************************************************************)
(* The close listeners, in the same order: the ANR data of the connection  *)
(* goes with any of its windows.  A focused window leaves the focus to the *)
(* next candidate of the layout, or the pointer looks for a new one.       *)
(***************************************************************************)
Close(w) ==
    /\ client = "connected"
    /\ w \in mapped
    /\ mapped' = mapped \ {w}
    /\ anr' = "none"
    /\ IF w = host THEN Dissociate ELSE UNCHANGED <<host, blocked, workspace, moved>> /\ CursorSeen
    /\ IF w = focus.window
       THEN \E next \in (mapped \ {w}) \cup {0} :
               focus' = IF exclusive THEN On(0) ELSE On(next)
       ELSE UNCHANGED focus
    /\ UNCHANGED <<realmVars, requested, exclusive>>

\* The hangup destroys the client and with it all windows it has.
Disconnect ==
    /\ client = "hungup"
    /\ client' = "none"
    /\ mapped' = {}
    /\ anr' = "none"
    /\ IF host # 0 THEN Dissociate ELSE UNCHANGED <<host, blocked, workspace, moved>> /\ CursorSeen
    /\ focus' = IF focus.window \in mapped THEN On(0) ELSE focus
    /\ UNCHANGED <<contract, exists, compositor, requested, exclusive>>

WindowStep ==
    \/ Connect \/ Exits \/ Disconnect
    \/ \E w \in Windows : Close(w) \/ \E ws \in Workspaces : Open(w, ws)

-----------------------------------------------------------------------------
(* placeRealm, and the user's own moves. *)

Place(ws) ==
    /\ exists
    /\ requested' = ws
    /\ workspace' = IF host = 0 THEN workspace ELSE ws
    /\ moved' = FALSE
    /\ UNCHANGED <<realmVars, hostVars, focusVars>>

MoveWindow(ws) ==
    /\ host # 0
    /\ workspace' = ws
    /\ moved' = TRUE
    /\ UNCHANGED <<realmVars, hostVars, focusVars, requested>>

-----------------------------------------------------------------------------
(* What else the host does with the focus and the cursor. *)

WindowsKept == UNCHANGED <<mapped, host, blocked, anr>>

\* A dispatcher, or the next candidate after another window: nobody asks
\* whether the window is blocked.  Its workspace may come to be shown.
FocusWindow(w) ==
    /\ w \in mapped \cup {0}
    /\ focus' = IF w = 0 THEN Unfocused ELSE Focused(w)
    /\ WindowsKept
    /\ CursorSeen
    /\ UNCHANGED <<realmVars, placeVars, exclusive>>

\* A layer surface takes the keyboard; the focused window stays remembered.
LayerOpens ==
    /\ exclusive' \in {TRUE, exclusive}
    /\ focus' = [focus EXCEPT !.keyboard = 0]
    /\ UNCHANGED <<realmVars, hostVars, placeVars>>

\* refocusLastWindow: the remembered window, or what is under the cursor; at
\* the end simulateMouseMovement.
LayerCloses ==
    /\ focus.keyboard = 0
    /\ exclusive' = FALSE
    /\ focus' \in {On(w) : w \in {focus.window, 0} \cup (mapped \ blocked)}
    /\ WindowsKept
    /\ CursorSeen
    /\ UNCHANGED <<realmVars, placeVars>>

\* The mouse moves.  The window that it moves onto may be given the focus,
\* unless it is blocked; without one, the focus stays.
MouseMoves ==
    /\ \/ \E w \in mapped \ blocked : focus' = Focused(w)
       \/ UNCHANGED focus
    /\ WindowsKept
    /\ CursorSeen
    /\ UNCHANGED <<realmVars, placeVars, exclusive>>

UserStep ==
    \/ \E ws \in Workspaces : Place(ws) \/ MoveWindow(ws)
    \/ \E w \in Window : FocusWindow(w)
    \/ LayerOpens \/ LayerCloses \/ MouseMoves

Next == RealmStep \/ WindowStep \/ UserStep

Spec == Init /\ [][Next]_vars

-----------------------------------------------------------------------------
(* Properties. *)

(***************************************************************************)
(* The host window is closed to the human exactly while the human does not *)
(* own the realm's input, whether it opened before or after the lease was  *)
(* given, and no other window is left blocked: not one that was            *)
(* dissociated, not one that was never associated.                         *)
(***************************************************************************)
BlockedUnlessHuman ==
    blocked = IF host # 0 /\ owner # "HUMAN" THEN {host} ELSE {}

(***************************************************************************)
(* The association never outlives what it associates: the window is mapped *)
(* and the realm has not been destroyed.  And the host's cursor is never   *)
(* hidden without a host window that it may be over: it comes back in the  *)
(* step that takes the window away, also if the mouse does not move.       *)
(***************************************************************************)
HostIsCurrent ==
    /\ host # 0 => exists /\ host \in mapped
    /\ hidden => host # 0

(***************************************************************************)
(* While the realm is paused its only window is not watched for missing    *)
(* responses, also if it opens only then; and the suppression ends with    *)
(* the pause, at the latest with the realm.                                *)
(***************************************************************************)
PausedIsExcused ==
    /\ phase = "paused" /\ mapped = {host} => anr # "watched"
    /\ anr = "suppressed" => phase \in {"paused", "stopping"}

(***************************************************************************)
(* The host window is on the workspace that was requested last, before or  *)
(* after it opened, unless the user has moved it since; no request is left *)
(* for a realm that was destroyed.                                         *)
(***************************************************************************)
PlacedAsRequested ==
    /\ host # 0 /\ requested # 0 /\ ~moved => workspace = requested
    /\ ~exists => requested = 0

(***************************************************************************)
(* In the step that ends the human's lease the keyboard leaves the host    *)
(* window, whatever ended it and whatever layer surfaces are up.           *)
(***************************************************************************)
KeyboardLeavesWithLease ==
    [][owner = "HUMAN" /\ owner' # "HUMAN" /\ host # 0 => focus'.keyboard # host]_vars

\* What docs/agent-realms-milestone-5.md says: a window that the human does not
\* own does not accept the keyboard.
KeyboardNeedsLease == host # 0 /\ focus.keyboard = host => owner = "HUMAN"
=============================================================================
