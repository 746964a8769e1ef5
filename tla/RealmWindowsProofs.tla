------------------------- MODULE RealmWindowsProofs -------------------------
(***************************************************************************)
(* Theorems about RealmWindows, for any number of windows and workspaces.  *)
(***************************************************************************)
EXTENDS RealmWindows, TLAPS

-----------------------------------------------------------------------------
(* The inductive invariant. *)

\* The ANR data is suppressed only on behalf of a host window.
SuppressedForHost == anr = "suppressed" => host # 0

\* A realm window has the keyboard only as the window that is focused, and
\* never beside an exclusive surface.
KeyboardIsFocus == focus.keyboard # 0 => focus.keyboard = focus.window /\ ~exclusive

Safe ==
    /\ BlockedUnlessHuman
    /\ HostIsCurrent
    /\ PausedIsExcused
    /\ SuppressedForHost
    /\ PlacedAsRequested

IInv == TypeOK /\ Safe /\ KeyboardIsFocus

-----------------------------------------------------------------------------
(* The focus, of which all steps change only what CFocusState lets them.   *)

\* The constants that are not among the numbers of windows and workspaces.
LEMMA ZeroIsNone == 0 \in Window /\ 0 \notin Windows /\ 0 \notin Workspaces
PROOF
  BY WindowsAssumption DEF Window

\* What is left alone of the focus, or set to one window, stays sane.
LEMMA FocusKept ==
    ASSUME IInv, NEW w \in Window, w = 0 \/ ~exclusive', exclusive' \in BOOLEAN,
           \/ focus' = On(w)
           \/ focus' = focus /\ exclusive' = exclusive
    PROVE  /\ focus' \in [window : Window, keyboard : Window]
           /\ exclusive' \in BOOLEAN
           /\ KeyboardIsFocus'
PROOF
<1>1. /\ On(w) \in [window : Window, keyboard : Window]
      /\ On(w).window = w /\ On(w).keyboard = w
  BY DEF On
<1>2. CASE focus' = On(w)
  BY <1>1, <1>2 DEF KeyboardIsFocus
<1>3. CASE focus' = focus /\ exclusive' = exclusive
  BY <1>3 DEF IInv, TypeOK, KeyboardIsFocus
<1> QED
  BY <1>2, <1>3

\* fullWindowFocus of a window, or of none, as the steps use it.
LEMMA FocusedKept ==
    ASSUME IInv, NEW w \in Window, exclusive' = exclusive,
           focus' \in {focus, Focused(w), Unfocused}
    PROVE  /\ focus' \in [window : Window, keyboard : Window]
           /\ exclusive' \in BOOLEAN
           /\ KeyboardIsFocus'
PROOF
<1> exclusive' \in BOOLEAN
  BY DEF IInv, TypeOK
<1>1. CASE focus' = focus
  BY <1>1, ZeroIsNone, FocusKept
<1>2. CASE focus' = On(0)
  BY <1>2, ZeroIsNone, FocusKept
<1>3. CASE focus' = On(w) /\ ~exclusive
  BY <1>3, FocusKept
<1> QED
  BY <1>1, <1>2, <1>3 DEF Focused, Unfocused

-----------------------------------------------------------------------------
(* The steps of the realm leave the windows and the requests alone. *)

Listened ==
    /\ phase' \in {"idle", "starting", "running", "paused", "stopping"}
    /\ owner' \in {"AGENT", "HUMAN", "NONE"}
    /\ compositor' \in {"none", "alive", "gone", "orphaned"}
    /\ UNCHANGED <<observable, granted>>
    /\ Kept

\* Whatever became of the lease, its listener keeps the window's block right.
LEMMA ListenersKeep ==
    ASSUME IInv, Listened, OwnerChanges,
           \/ LifecycleEvent
           \/ anr' = anr /\ (anr = "suppressed" => phase' \in {"paused", "stopping"})
                         /\ (phase' = "paused" => phase = "paused")
    PROVE  IInv'
PROOF
<1>1. focus' \in {focus, Unfocused} /\ exclusive' = exclusive
  BY DEF Listened, Kept, OwnerChanges, Blocking, Unblocking
<1>2. /\ focus' \in [window : Window, keyboard : Window]
      /\ KeyboardIsFocus'
  BY <1>1, ZeroIsNone, FocusedKept
<1>3. blocked' = IF host # 0 /\ owner' # "HUMAN" THEN {host} ELSE {}
  BY ZeroIsNone DEF IInv, Safe, TypeOK, BlockedUnlessHuman, OwnerChanges, Blocking, Unblocking
<1>4. UNCHANGED <<exists, client, mapped, host, hidden, requested, workspace, moved, exclusive>>
  BY DEF Listened, Kept, placeVars
<1>5. anr' \in {"none", "watched", "suppressed"}
  BY DEF IInv, TypeOK, LifecycleEvent
<1>6. host # 0 => host \in Windows
  BY DEF IInv, TypeOK, Window
<1>7. TypeOK'
  BY <1>2, <1>3, <1>4, <1>5, <1>6 DEF Listened, IInv, TypeOK
<1>8. BlockedUnlessHuman' /\ HostIsCurrent' /\ PlacedAsRequested'
  BY <1>3, <1>4 DEF IInv, Safe, BlockedUnlessHuman, HostIsCurrent, PlacedAsRequested
<1>9. SuppressedForHost'
  BY <1>4 DEF IInv, Safe, SuppressedForHost, LifecycleEvent
<1>10. PausedIsExcused'
  BY <1>4, <1>6, ZeroIsNone
     DEF IInv, Safe, TypeOK, PausedIsExcused, SuppressedForHost, LifecycleEvent
<1> QED
  BY <1>2, <1>7, <1>8, <1>9, <1>10 DEF IInv, Safe

-----------------------------------------------------------------------------
(* One lemma per step of the realm. *)

\* A new compositor: the windows that may be left of the last one stay.
LEMMA StartKeeps ==
    ASSUME IInv, Start
    PROVE  IInv'
PROOF
<1> USE DEF Start, Contract!Start, hostVars, placeVars, focusVars
<1>1. TypeOK' /\ KeyboardIsFocus'
  BY DEF IInv, TypeOK, KeyboardIsFocus
<1>2. Safe'
  BY DEF IInv, TypeOK, Safe, BlockedUnlessHuman, HostIsCurrent, PausedIsExcused,
         SuppressedForHost, PlacedAsRequested
<1> QED
  BY <1>1, <1>2 DEF IInv

\* The steps whose listeners are the lease's and the lifecycle's.
LEMMA LifecycleKeeps ==
    ASSUME IInv, BecomeReady \/ Pause \/ Resume
    PROVE  IInv'
PROOF
<1>1. CASE BecomeReady
  <2>1. Listened /\ OwnerChanges /\ LifecycleEvent
    BY <1>1 DEF IInv, TypeOK, Listened, BecomeReady, Contract!BecomeReady
  <2> QED
    BY <2>1, ListenersKeep
<1>2. CASE Pause
  <2>1. Listened /\ OwnerChanges /\ LifecycleEvent
    BY <1>2 DEF IInv, TypeOK, Listened, Pause, Contract!Pause
  <2> QED
    BY <2>1, ListenersKeep
<1>3. CASE Resume
  <2>1. Listened /\ OwnerChanges /\ LifecycleEvent
    BY <1>3 DEF IInv, TypeOK, Listened, Resume, Contract!Resume
  <2> QED
    BY <2>1, ListenersKeep
<1> QED
  BY <1>1, <1>2, <1>3

\* A stop tells no lifecycle listener: what is suppressed stays so.
LEMMA StopKeeps ==
    ASSUME IInv, Stop
    PROVE  IInv'
PROOF
<1>1. Listened /\ OwnerChanges
  BY DEF IInv, TypeOK, Listened, Stop, Contract!End
<1>2. anr' = anr /\ phase' = "stopping"
  BY DEF Stop
<1> QED
  BY <1>1, <1>2, ListenersKeep

\* The realm ends, or its compositor's exit is noticed after it has ended.
LEMMA EndsKeeps ==
    ASSUME IInv, Ends, compositor' \in {"none", "alive", "gone", "orphaned"}
    PROVE  IInv'
PROOF
<1>1. Listened /\ OwnerChanges
  BY DEF IInv, TypeOK, Listened, Ends, Contract!End, contract
<1>2. CASE phase = "idle"
  BY <1>1, <1>2, ListenersKeep
     DEF Ends, contract, IInv, Safe, PausedIsExcused
<1>3. CASE phase # "idle"
  BY <1>1, <1>3, ListenersKeep DEF Ends
<1> QED
  BY <1>2, <1>3

LEMMA EndingsKeep ==
    ASSUME IInv, StartupExpires \/ HandleExit \/ SupervisorDies
    PROVE  IInv'
PROOF
<1>1. Ends /\ compositor' \in {"none", "alive", "gone", "orphaned"}
  BY DEF IInv, TypeOK, StartupExpires, HandleExit, SupervisorDies
<1> QED
  BY <1>1, EndsKeeps

\* The window manager's own steps with the lease.
LEMMA TakeOverKeeps ==
    ASSUME IInv, TakeOver
    PROVE  IInv'
PROOF
<1>1. host \in Window /\ host # 0 /\ host \in Windows
  BY DEF IInv, TypeOK, Window, TakeOver
<1>2. UNCHANGED <<phase, compositor, exists, client, mapped, host, requested, workspace,
                  moved, exclusive, observable, granted>>
  BY DEF TakeOver, placeVars, Contract!HandOver
<1>3. /\ focus' \in [window : Window, keyboard : Window]
      /\ KeyboardIsFocus'
  BY <1>1, <1>2, FocusedKept DEF TakeOver
<1>4. blocked' = {} /\ owner' = "HUMAN"
  BY DEF IInv, Safe, BlockedUnlessHuman, TakeOver
<1>5. anr' = IF anr = "none" THEN anr ELSE IF phase = "paused" THEN "suppressed" ELSE "watched"
  BY <1>1, <1>2 DEF TakeOver, LifecycleEvent
<1>9. hidden' \in BOOLEAN
  BY <1>2 DEF TakeOver, CursorSeen
<1>6. TypeOK'
  BY <1>2, <1>3, <1>4, <1>5, <1>9 DEF IInv, TypeOK
<1>7. Safe'
  BY <1>1, <1>2, <1>4, <1>5
     DEF IInv, Safe, BlockedUnlessHuman, HostIsCurrent, PausedIsExcused, SuppressedForHost,
         PlacedAsRequested
<1> QED
  BY <1>3, <1>6, <1>7 DEF IInv

\* A release blocks the window; a refused one finds it blocked already.
LEMMA ReleaseKeeps ==
    ASSUME IInv, Release \/ RefusedRelease
    PROVE  IInv'
PROOF
<1>1. host \in Window /\ host # 0 /\ host \in Windows
  BY DEF IInv, TypeOK, Window, Release, RefusedRelease
<1>2. UNCHANGED <<phase, compositor, exists, client, mapped, host, hidden, requested,
                  workspace, moved, exclusive, observable, granted>>
  BY DEF Release, RefusedRelease, Kept, placeVars, contract, Contract!HandOver
<1>3. focus' \in {focus, Unfocused}
  BY DEF Release, RefusedRelease, Blocking
<1>4. /\ focus' \in [window : Window, keyboard : Window]
      /\ KeyboardIsFocus'
  BY <1>1, <1>2, <1>3, FocusedKept
<1>5. blocked' = {host} /\ owner' # "HUMAN" /\ owner' \in {"AGENT", "HUMAN", "NONE"}
  BY <1>1 DEF IInv, Safe, TypeOK, BlockedUnlessHuman, Release, RefusedRelease, Blocking, contract
<1>6. \/ anr' = anr
      \/ anr' = IF anr = "none" THEN anr ELSE IF phase = "paused" THEN "suppressed" ELSE "watched"
  BY <1>1, <1>2 DEF Release, RefusedRelease, LifecycleEvent
<1>7. TypeOK'
  BY <1>1, <1>2, <1>4, <1>5, <1>6 DEF IInv, TypeOK
<1>8. Safe'
  BY <1>1, <1>2, <1>5, <1>6
     DEF IInv, Safe, BlockedUnlessHuman, HostIsCurrent, PausedIsExcused, SuppressedForHost,
         PlacedAsRequested
<1> QED
  BY <1>4, <1>7, <1>8 DEF IInv

\* The destroyed realm takes its association and its request along.
LEMMA DestroyKeeps ==
    ASSUME IInv, Destroy
    PROVE  IInv'
PROOF
<1>1. UNCHANGED <<phase, owner, compositor, client, mapped, focus, exclusive, observable, granted>>
  BY DEF Destroy, focusVars, contract
<1>2. /\ exists' = FALSE /\ requested' = 0 /\ host' = 0 /\ workspace' = 0 /\ moved' = FALSE
      /\ blocked' = {} /\ hidden' = FALSE
  BY DEF IInv, Safe, BlockedUnlessHuman, Destroy, Dissociate, CursorSeen
<1>3. anr' = IF host = 0 \/ anr = "none" THEN anr ELSE "watched"
  BY DEF Destroy
<1>4. TypeOK' /\ KeyboardIsFocus'
  BY <1>1, <1>2, <1>3, ZeroIsNone DEF IInv, TypeOK, KeyboardIsFocus
<1>5. phase = "idle"
  BY DEF Destroy
<1>6. Safe'
  BY <1>1, <1>2, <1>3, <1>5
     DEF IInv, Safe, BlockedUnlessHuman, HostIsCurrent, PausedIsExcused, SuppressedForHost,
         PlacedAsRequested
<1> QED
  BY <1>4, <1>6 DEF IInv

-----------------------------------------------------------------------------
(* One lemma per step of the compositor's connection and its windows. *)

LEMMA ConnectionKeeps ==
    ASSUME IInv, Connect \/ Exits
    PROVE  IInv'
PROOF
<1>1. /\ UNCHANGED <<phase, owner, observable, granted, exists, mapped, host, blocked, anr,
                     hidden, requested, workspace, moved, focus, exclusive>>
      /\ compositor' \in {"none", "alive", "gone", "orphaned"}
      /\ client' \in {"none", "connected", "hungup"}
  BY DEF IInv, TypeOK, Connect, Exits, contract, hostVars, placeVars, focusVars
<1>2. TypeOK' /\ KeyboardIsFocus'
  BY <1>1 DEF IInv, TypeOK, KeyboardIsFocus
<1>3. Safe'
  BY <1>1 DEF IInv, Safe, BlockedUnlessHuman, HostIsCurrent, PausedIsExcused,
              SuppressedForHost, PlacedAsRequested
<1> QED
  BY <1>2, <1>3 DEF IInv

\* A window opens: it becomes the host window or stays an ordinary one.
LEMMA OpenKeeps ==
    ASSUME IInv, NEW w \in Windows, NEW ws \in Workspaces, Open(w, ws)
    PROVE  IInv'
PROOF
<1>1. /\ UNCHANGED <<phase, owner, observable, granted, exists, compositor, client, requested,
                     exclusive>>
      /\ mapped' = mapped \cup {w} /\ w \notin mapped
  BY DEF Open, realmVars, contract
<1>2. /\ focus' \in [window : Window, keyboard : Window]
      /\ KeyboardIsFocus'
  <2>1. w \in Window /\ focus' \in {focus, Focused(w), Unfocused}
    BY DEF Open, Window
  <2> QED
    BY <1>1, <2>1, FocusedKept
<1>3. CASE Associates
  <2>1. /\ host = 0 /\ exists /\ host' = w /\ w # 0
        /\ blocked' = IF owner # "HUMAN" THEN {w} ELSE {}
        /\ anr' = IF phase = "paused" THEN "suppressed" ELSE "watched"
        /\ workspace' = IF requested # 0 THEN requested ELSE ws
        /\ moved' = FALSE /\ hidden' \in BOOLEAN
    BY <1>3, ZeroIsNone
       DEF IInv, Safe, BlockedUnlessHuman, Open, Associated, Associates, CursorSeen
  <2>2. TypeOK'
    BY <1>1, <1>2, <2>1 DEF IInv, TypeOK, Window
  <2>3. Safe'
    BY <1>1, <2>1
       DEF IInv, Safe, BlockedUnlessHuman, HostIsCurrent, PausedIsExcused, SuppressedForHost,
           PlacedAsRequested
  <2> QED
    BY <1>2, <2>2, <2>3 DEF IInv
<1>4. CASE ~Associates
  <2>1. /\ UNCHANGED <<host, blocked, hidden, workspace, moved>>
        /\ anr' = IF anr = "none" THEN "watched" ELSE anr
    BY <1>4 DEF Open, Ordinary
  <2>2. TypeOK'
    BY <1>1, <1>2, <2>1 DEF IInv, TypeOK
  <2>3. mapped' # {host'}
    BY <1>1, <2>1, ZeroIsNone DEF IInv, Safe, HostIsCurrent
  <2>4. Safe'
    BY <1>1, <2>1, <2>3
       DEF IInv, Safe, BlockedUnlessHuman, HostIsCurrent, PausedIsExcused, SuppressedForHost,
           PlacedAsRequested
  <2> QED
    BY <1>2, <2>2, <2>4 DEF IInv
<1> QED
  BY <1>3, <1>4

\* A window closes: only the host window takes the association with it.
LEMMA CloseKeeps ==
    ASSUME IInv, NEW w \in Windows, Close(w)
    PROVE  IInv'
PROOF
<1>1. /\ UNCHANGED <<phase, owner, observable, granted, exists, compositor, client, requested,
                     exclusive>>
      /\ mapped' = mapped \ {w} /\ anr' = "none"
  BY DEF Close, realmVars, contract
<1>2. /\ focus' \in [window : Window, keyboard : Window]
      /\ KeyboardIsFocus'
  <2>1. CASE w = focus.window
    <3>1. PICK next \in (mapped \ {w}) \cup {0} :
             focus' = IF exclusive THEN On(0) ELSE On(next)
      BY <2>1 DEF Close
    <3>2. next \in Window /\ exclusive' \in BOOLEAN
      BY <1>1 DEF IInv, TypeOK, Window
    <3>3. CASE exclusive
      BY <1>1, <3>1, <3>2, <3>3, ZeroIsNone, FocusKept
    <3>4. CASE ~exclusive
      BY <1>1, <3>1, <3>2, <3>4, FocusKept
    <3> QED
      BY <3>3, <3>4
  <2>2. CASE w # focus.window
    BY <1>1, <2>2 DEF IInv, TypeOK, KeyboardIsFocus, Close
  <2> QED
    BY <2>1, <2>2
<1>3. CASE w = host
  <2>1. host' = 0 /\ blocked' = {} /\ hidden' = FALSE /\ workspace' = 0 /\ moved' = FALSE
    BY <1>3 DEF IInv, Safe, BlockedUnlessHuman, Close, Dissociate, CursorSeen
  <2>2. TypeOK'
    BY <1>1, <1>2, <2>1, ZeroIsNone DEF IInv, TypeOK
  <2>3. Safe'
    BY <1>1, <2>1
       DEF IInv, Safe, BlockedUnlessHuman, HostIsCurrent, PausedIsExcused, SuppressedForHost,
           PlacedAsRequested
  <2> QED
    BY <1>2, <2>2, <2>3 DEF IInv
<1>4. CASE w # host
  <2>1. /\ UNCHANGED <<host, blocked, workspace, moved>>
        /\ hidden' \in BOOLEAN /\ (hidden' => host # 0)
    BY <1>4 DEF Close, CursorSeen
  <2>2. TypeOK'
    BY <1>1, <1>2, <2>1 DEF IInv, TypeOK
  <2>3. Safe'
    BY <1>1, <1>4, <2>1
       DEF IInv, Safe, BlockedUnlessHuman, HostIsCurrent, PausedIsExcused, SuppressedForHost,
           PlacedAsRequested
  <2> QED
    BY <1>2, <2>2, <2>3 DEF IInv
<1> QED
  BY <1>3, <1>4

\* A hangup closes them all.
LEMMA DisconnectKeeps ==
    ASSUME IInv, Disconnect
    PROVE  IInv'
PROOF
<1>1. /\ UNCHANGED <<phase, owner, observable, granted, exists, compositor, requested, exclusive>>
      /\ mapped' = {} /\ anr' = "none" /\ client' = "none"
  BY DEF Disconnect, contract
<1>2. focus' \in {focus, On(0)}
  BY DEF Disconnect
<1>3. exclusive' \in BOOLEAN
  BY <1>1 DEF IInv, TypeOK
<1>4. /\ focus' \in [window : Window, keyboard : Window]
      /\ KeyboardIsFocus'
  BY <1>1, <1>2, <1>3, ZeroIsNone, FocusKept
<1>5. host' = 0 /\ blocked' = {} /\ hidden' = FALSE
  BY DEF IInv, Safe, BlockedUnlessHuman, Disconnect, Dissociate, CursorSeen
<1>6. workspace' \in {workspace, 0} /\ moved' \in {moved, FALSE}
  BY DEF Disconnect, Dissociate
<1>7. TypeOK'
  BY <1>1, <1>4, <1>5, <1>6, ZeroIsNone DEF IInv, TypeOK
<1>8. Safe'
  BY <1>1, <1>5
     DEF IInv, Safe, BlockedUnlessHuman, HostIsCurrent, PausedIsExcused, SuppressedForHost,
         PlacedAsRequested
<1> QED
  BY <1>4, <1>7, <1>8 DEF IInv

-----------------------------------------------------------------------------
(* The user and the rest of the host. *)

LEMMA PlacesKeep ==
    ASSUME IInv, NEW ws \in Workspaces, Place(ws) \/ MoveWindow(ws)
    PROVE  IInv'
PROOF
<1>1. /\ UNCHANGED <<phase, owner, observable, granted, exists, compositor, client, mapped, host,
                     blocked, anr, hidden, focus, exclusive>>
      /\ requested' \in {requested, ws} /\ workspace' \in {workspace, ws} /\ moved' \in BOOLEAN
  BY DEF Place, MoveWindow, realmVars, contract, hostVars, focusVars
<1>2. TypeOK' /\ KeyboardIsFocus'
  BY <1>1 DEF IInv, TypeOK, KeyboardIsFocus
<1>3. BlockedUnlessHuman' /\ HostIsCurrent' /\ PausedIsExcused' /\ SuppressedForHost'
  BY <1>1 DEF IInv, Safe, BlockedUnlessHuman, HostIsCurrent, PausedIsExcused, SuppressedForHost
<1>4. PlacedAsRequested'
  BY <1>1 DEF IInv, Safe, PlacedAsRequested, HostIsCurrent, Place, MoveWindow
<1> QED
  BY <1>2, <1>3, <1>4 DEF IInv, Safe

\* What moves only the focus and the cursor.
LEMMA FocusesKeep ==
    ASSUME IInv, UserStep, UNCHANGED <<realmVars, placeVars>>, WindowsKept,
           hidden' \in BOOLEAN, hidden' => host # 0
    PROVE  IInv'
PROOF
<1>1. UNCHANGED <<phase, owner, observable, granted, exists, compositor, client, mapped, host,
                  blocked, anr, requested, workspace, moved>>
  BY DEF realmVars, contract, placeVars, WindowsKept
<1>2. /\ focus' \in [window : Window, keyboard : Window]
      /\ exclusive' \in BOOLEAN
      /\ KeyboardIsFocus'
  <2>1. ASSUME NEW w \in Window, FocusWindow(w)
        PROVE  focus' \in {focus, Focused(w), Unfocused} /\ exclusive' = exclusive
    BY <2>1 DEF FocusWindow
  <2>2. CASE \E w \in Window : FocusWindow(w)
    BY <2>1, <2>2, FocusedKept
  <2>3. CASE LayerOpens
    <3>1. exclusive' \in BOOLEAN
      BY <2>3 DEF IInv, TypeOK, LayerOpens
    <3>2. focus' = [focus EXCEPT !.keyboard = 0]
      BY <2>3 DEF LayerOpens
    <3>3. focus' \in [window : Window, keyboard : Window] /\ focus'.keyboard = 0
      BY <3>2, ZeroIsNone DEF IInv, TypeOK
    <3> QED
      BY <3>1, <3>3 DEF KeyboardIsFocus
  <2>4. CASE LayerCloses
    <3>1. PICK w \in {focus.window, 0} \cup (mapped \ blocked) : focus' = On(w)
      BY <2>4 DEF LayerCloses
    <3>2. w \in Window
      BY ZeroIsNone DEF IInv, TypeOK, Window
    <3>3. exclusive' = FALSE
      BY <2>4 DEF LayerCloses
    <3> QED
      BY <3>1, <3>2, <3>3, FocusKept
  <2>5. CASE \E ws \in Workspaces : Place(ws) \/ MoveWindow(ws)
    <3>1. focus' = focus /\ exclusive' = exclusive
      BY <2>5 DEF Place, MoveWindow, focusVars
    <3> QED
      BY <3>1 DEF IInv, TypeOK, KeyboardIsFocus
  <2>6. CASE MouseMoves
    <3>1. exclusive' = exclusive /\ mapped \subseteq Window
      BY <2>6 DEF IInv, TypeOK, Window, MouseMoves
    <3>2. CASE focus' = focus
      BY <3>1, <3>2, ZeroIsNone, FocusedKept
    <3>3. CASE focus' # focus
      <4>1. PICK w \in mapped \ blocked : focus' = Focused(w)
        BY <2>6, <3>3 DEF MouseMoves
      <4> QED
        BY <3>1, <4>1, FocusedKept
    <3> QED
      BY <3>2, <3>3
  <2> QED
    BY <2>2, <2>3, <2>4, <2>5, <2>6 DEF UserStep
<1>3. TypeOK'
  BY <1>1, <1>2 DEF IInv, TypeOK
<1>4. Safe'
  BY <1>1 DEF IInv, Safe, BlockedUnlessHuman, HostIsCurrent, PausedIsExcused,
              SuppressedForHost, PlacedAsRequested
<1> QED
  BY <1>2, <1>3, <1>4 DEF IInv

-----------------------------------------------------------------------------
(* The invariant is inductive. *)

LEMMA InitKeeps == Init => IInv
PROOF
<1> SUFFICES ASSUME Init PROVE IInv
  OBVIOUS
<1>1. TypeOK
  BY ZeroIsNone DEF Init, Contract!Init, TypeOK
<1>2. Safe /\ KeyboardIsFocus
  BY DEF Init, Contract!Init, Safe, BlockedUnlessHuman, HostIsCurrent, PausedIsExcused,
         SuppressedForHost, PlacedAsRequested, KeyboardIsFocus
<1> QED
  BY <1>1, <1>2 DEF IInv

LEMMA NextKeeps == IInv /\ [Next]_vars => IInv'
PROOF
<1> SUFFICES ASSUME IInv, [Next]_vars PROVE IInv'
  OBVIOUS
<1>1. CASE RealmStep
  BY <1>1, StartKeeps, LifecycleKeeps, TakeOverKeeps, ReleaseKeeps, StopKeeps, EndingsKeep,
     DestroyKeeps DEF RealmStep
<1>2. CASE WindowStep
  BY <1>2, ConnectionKeeps, DisconnectKeeps, CloseKeeps, OpenKeeps DEF WindowStep
<1>3. CASE UserStep
  <2>1. CASE \E ws \in Workspaces : Place(ws) \/ MoveWindow(ws)
    BY <2>1, PlacesKeep
  <2>2. CASE ~ \E ws \in Workspaces : Place(ws) \/ MoveWindow(ws)
    <3>1. /\ UNCHANGED <<realmVars, placeVars>> /\ WindowsKept
          /\ hidden' = hidden \/ hidden' \in {FALSE, host # 0}
      BY <1>3, <2>2
         DEF UserStep, FocusWindow, LayerOpens, LayerCloses, MouseMoves, WindowsKept, CursorSeen,
             hostVars
    <3>2. hidden' \in BOOLEAN /\ (hidden' => host # 0)
      <4>1. CASE hidden' = hidden
        <5>1. hidden \in BOOLEAN /\ (hidden => host # 0)
          BY DEF IInv, TypeOK, Safe, HostIsCurrent
        <5> QED
          BY <4>1, <5>1
      <4>2. CASE hidden' \in {FALSE, host # 0}
        BY <4>2
      <4> QED
        BY <3>1, <4>1, <4>2
    <3> QED
      BY <1>3, <3>1, <3>2, FocusesKeep
  <2> QED
    BY <2>1, <2>2
<1>4. CASE UNCHANGED vars
  <2>1. UNCHANGED <<phase, owner, observable, granted, exists, compositor, client, mapped, host,
                    blocked, anr, hidden, requested, workspace, moved, focus, exclusive>>
    BY <1>4 DEF vars, realmVars, contract, hostVars, placeVars, focusVars
  <2>2. TypeOK' /\ KeyboardIsFocus'
    BY <2>1 DEF IInv, TypeOK, KeyboardIsFocus
  <2>3. Safe'
    BY <2>1 DEF IInv, Safe, BlockedUnlessHuman, HostIsCurrent, PausedIsExcused,
                SuppressedForHost, PlacedAsRequested
  <2> QED
    BY <2>2, <2>3 DEF IInv
<1> QED
  BY <1>1, <1>2, <1>3, <1>4 DEF Next

-----------------------------------------------------------------------------
(* The theorems. *)

\* The strengthening holds in every reachable state.
THEOREM Inductive == Spec => []IInv
PROOF
  BY InitKeeps, NextKeeps, PTL DEF Spec

\* The window manager's state has its type, whatever the realm and the user do.
THEOREM TypeCorrect == Spec => []TypeOK
PROOF
<1>1. IInv => TypeOK
  BY DEF IInv
<1> QED
  BY <1>1, Inductive, PTL

\* associateWindow, onRealmOwnerChanged and dissociateWindow together keep
\* exactly the window of a realm that the human does not own closed to input.
THEOREM BlockedOnlyAndAlways == Spec => []BlockedUnlessHuman
PROOF
<1>1. IInv => BlockedUnlessHuman
  BY DEF IInv, Safe
<1> QED
  BY <1>1, Inductive, PTL

\* The close listener and removeRealm leave no association behind, and the
\* cursor that was hidden over the window is shown again.
THEOREM HostStaysCurrent == Spec => []HostIsCurrent
PROOF
<1>1. IInv => HostIsCurrent
  BY DEF IInv, Safe
<1> QED
  BY <1>1, Inductive, PTL

\* The realm's pause and the ANR suppression of its window go together.
THEOREM PauseExcuses == Spec => []PausedIsExcused
PROOF
<1>1. IInv => PausedIsExcused
  BY DEF IInv, Safe
<1> QED
  BY <1>1, Inductive, PTL

\* A placement request holds for the window that is there and the one to come.
THEOREM PlacementHolds == Spec => []PlacedAsRequested
PROOF
<1>1. IInv => PlacedAsRequested
  BY DEF IInv, Safe
<1> QED
  BY <1>1, Inductive, PTL

\* Blocking a window takes the keyboard from it, also under an exclusive
\* surface, where the focus may not be changed.
LEMMA BlockingTakesTheKeyboard ==
    ASSUME IInv, host # 0, Blocking
    PROVE  focus'.keyboard # host
PROOF
<1>1. On(0).keyboard = 0
  BY DEF On
<1> QED
  BY <1>1 DEF IInv, KeyboardIsFocus, Blocking, Unfocused

\* Only these steps give the human's lease up.
LEMMA LeaseEnds ==
    ASSUME IInv, [Next]_vars, owner = "HUMAN", owner' # "HUMAN", host # 0
    PROVE  Blocking
PROOF
<1>1. ASSUME OwnerChanges PROVE Blocking
  BY <1>1 DEF OwnerChanges
<1>2. CASE RealmStep
  <2>1. CASE Start \/ TakeOver \/ RefusedRelease \/ Destroy
    BY <2>1 DEF Start, Contract!Start, TakeOver, RefusedRelease, Destroy, contract
  <2>2. CASE Release
    BY <2>2 DEF Release
  <2>3. CASE BecomeReady \/ Pause \/ Resume \/ Stop \/ StartupExpires \/ HandleExit \/ SupervisorDies
    BY <1>1, <2>3 DEF BecomeReady, Pause, Resume, Stop, StartupExpires, HandleExit,
                      SupervisorDies, Ends
  <2> QED
    BY <1>2, <2>1, <2>2, <2>3 DEF RealmStep
<1>3. CASE WindowStep
  BY <1>3 DEF WindowStep, Connect, Exits, Disconnect, Close, Open, realmVars, contract
<1>4. CASE UserStep
  BY <1>4 DEF UserStep, Place, MoveWindow, FocusWindow, LayerOpens, LayerCloses, MouseMoves, realmVars,
              contract
<1>5. CASE UNCHANGED vars
  BY <1>5 DEF vars, realmVars, contract
<1> QED
  BY <1>2, <1>3, <1>4, <1>5 DEF Next

\* setInputBlocked takes the keyboard away in the step that ends the lease.
THEOREM KeyboardLeaves == Spec => KeyboardLeavesWithLease
PROOF
<1>1. IInv /\ [Next]_vars
        => [owner = "HUMAN" /\ owner' # "HUMAN" /\ host # 0 => focus'.keyboard # host]_vars
  <2> SUFFICES ASSUME IInv, [Next]_vars, owner = "HUMAN", owner' # "HUMAN", host # 0
               PROVE  focus'.keyboard # host
    OBVIOUS
  <2>1. Blocking
    BY LeaseEnds
  <2> QED
    BY <2>1, BlockingTakesTheKeyboard
<1> QED
  BY <1>1, Inductive, PTL DEF Spec, KeyboardLeavesWithLease

-----------------------------------------------------------------------------
(* The realm that the window manager sees is the one that RealmManager     *)
(* implements.                                                             *)

\* A step of the realm, of its windows or of the user is one of the contract,
\* or changes nothing that the contract speaks of.
LEMMA StepsByContract == [Next]_vars => [Contract!Next]_contract
PROOF
<1> SUFFICES ASSUME [Next]_vars, ~UNCHANGED contract
             PROVE  Contract!Next
  OBVIOUS
<1>1. CASE RealmStep
  <2>1. CASE Start
    BY <2>1 DEF Start, Contract!Next
  <2>2. CASE BecomeReady
    BY <2>2 DEF BecomeReady, Contract!Next
  <2>3. CASE TakeOver \/ Release
    BY <2>3 DEF TakeOver, Release, Contract!Next
  <2>4. CASE RefusedRelease \/ Destroy
    BY <2>4 DEF RefusedRelease, Destroy
  <2>5. CASE Pause \/ Resume
    BY <2>5 DEF Pause, Resume, Contract!Next
  <2>6. CASE Stop
    BY <2>6 DEF Stop, Contract!Next
  <2>7. CASE StartupExpires \/ HandleExit \/ SupervisorDies
    BY <2>7 DEF StartupExpires, HandleExit, SupervisorDies, Ends, Contract!Next
  <2> QED
    BY <1>1, <2>1, <2>2, <2>3, <2>4, <2>5, <2>6, <2>7 DEF RealmStep
<1>2. CASE WindowStep
  BY <1>2 DEF WindowStep, Connect, Exits, Disconnect, Close, Open, realmVars
<1>3. CASE UserStep
  BY <1>3 DEF UserStep, Place, MoveWindow, FocusWindow, LayerOpens, LayerCloses, MouseMoves,
              realmVars
<1>4. CASE UNCHANGED vars
  BY <1>4 DEF vars, realmVars
<1> QED
  BY <1>1, <1>2, <1>3, <1>4 DEF Next

\* Whatever the window manager and the windows of the realm do between them,
\* the realm that they see keeps the promises of RealmContract: the lease only
\* of a running realm, no lease after a pause, a stop or a failure.
THEOREM RealmKeepsContract == Spec => Contract!Spec
PROOF
<1>1. Init => Contract!Init
  BY DEF Init
<1>2. contract = Contract!contract
  BY DEF contract, Contract!contract
<1>3. [Next]_vars => [Contract!Next]_(Contract!contract)
  BY <1>2, StepsByContract DEF contract, Contract!contract
<1> QED
  BY <1>1, <1>3, PTL DEF Spec, Contract!Spec

-----------------------------------------------------------------------------
(* What a step may do to the association and to the keyboard. *)

(***************************************************************************)
(* dissociateWindow is complete.  The host window is never exchanged for   *)
(* another one: whatever ends the association (the window closes, the      *)
(* connection hangs up, the realm is destroyed) opens the window to input, *)
(* shows the cursor again and ends the suppression of the ANR watch, all   *)
(* in the same step.                                                       *)
(***************************************************************************)
LeavesNothing ==
    host # 0 /\ host' # host =>
        host' = 0 /\ blocked' = {} /\ ~hidden' /\ anr' # "suppressed"

LEMMA HostEnds == ASSUME [Next]_vars, host # 0, host' # host PROVE host' = 0
PROOF
<1>1. CASE RealmStep
  <2>1. CASE Destroy
    BY <2>1 DEF Destroy, Dissociate
  <2>2. CASE ~Destroy
    BY <1>1, <2>2
       DEF RealmStep, Start, BecomeReady, TakeOver, Release, RefusedRelease, Pause, Resume, Stop,
           StartupExpires, HandleExit, SupervisorDies, Ends, Kept, hostVars
  <2> QED
    BY <2>1, <2>2
<1>2. CASE WindowStep
  <2>1. CASE Connect \/ Exits
    BY <2>1 DEF Connect, Exits, hostVars
  <2>2. CASE Disconnect
    BY <2>2 DEF Disconnect, Dissociate
  <2>3. ASSUME NEW w \in Windows, Close(w) PROVE host' = 0
    BY <2>3 DEF Close, Dissociate
  <2>4. ASSUME NEW w \in Windows, NEW ws \in Workspaces, Open(w, ws) PROVE host' = 0
    BY <2>4 DEF Open, Associates, Ordinary
  <2> QED
    BY <1>2, <2>1, <2>2, <2>3, <2>4 DEF WindowStep
<1>3. CASE UserStep
  BY <1>3 DEF UserStep, Place, MoveWindow, FocusWindow, LayerOpens, LayerCloses, MouseMoves,
              WindowsKept, hostVars
<1>4. CASE UNCHANGED vars
  BY <1>4 DEF vars, hostVars
<1> QED
  BY <1>1, <1>2, <1>3, <1>4 DEF Next

\* Closing, hanging up and destroying leave nothing of the association.
THEOREM DissociationIsComplete == Spec => [][LeavesNothing]_vars
PROOF
<1>1. IInv /\ IInv' /\ [Next]_vars => [LeavesNothing]_vars
  <2> SUFFICES ASSUME IInv', [Next]_vars, host # 0, host' # host
               PROVE  host' = 0 /\ blocked' = {} /\ ~hidden' /\ anr' # "suppressed"
    BY DEF LeavesNothing
  <2>1. host' = 0
    BY HostEnds
  <2> QED
    BY <2>1 DEF IInv, Safe, BlockedUnlessHuman, HostIsCurrent, SuppressedForHost
<1> QED
  BY <1>1, Inductive, PTL DEF Spec

(***************************************************************************)
(* Who brings the keyboard to a host window that the human does not own.   *)
(* docs/agent-realms-milestone-5.md says that nobody does, which the run   *)
(* windows_keyboard refutes.  What holds is that only those who hand the   *)
(* focus to a window without asking whether it is blocked do: a dispatcher *)
(* (or the candidate after another window), the window that opens, the     *)
(* candidate after one that closes, and the remembered window when an      *)
(* exclusive surface goes.  The mouse never does, nor does any step of the *)
(* realm, of its connection or of the placement.                           *)
(***************************************************************************)
Unowned == host # 0 /\ focus.keyboard = host /\ owner # "HUMAN"

FocusRequested ==
    \/ FocusWindow(host)
    \/ \E ws \in Workspaces : Open(host', ws)
    \/ \E w \in Windows \ {host} : Close(w) /\ focus.window = w
    \/ LayerCloses /\ focus.window = host

EntersOnRequest == ~Unowned /\ Unowned' => FocusRequested

\* The realm's own steps give the keyboard to the human that takes over, and
\* otherwise at most take it away.
LEMMA RealmStepsEnterNot ==
    ASSUME IInv, RealmStep, ~Unowned PROVE ~Unowned'
PROOF
<1> SUFFICES ASSUME Unowned' PROVE FALSE
  OBVIOUS
<1>1. host' = host
  <2>1. ~Destroy
    BY DEF Destroy, Dissociate, Unowned
  <2> QED
    BY <2>1
       DEF RealmStep, Start, BecomeReady, TakeOver, Release, RefusedRelease, Pause, Resume, Stop,
           StartupExpires, HandleExit, SupervisorDies, Ends, Kept, hostVars
<1>2. On(0).keyboard = 0
  BY DEF On
<1>3. ASSUME focus' \in {focus, Unfocused} PROVE owner = "HUMAN"
  BY <1>1, <1>2, <1>3 DEF Unowned, Unfocused
<1>4. CASE TakeOver
  BY <1>4 DEF TakeOver, Unowned
<1>5. CASE ~TakeOver
  <2>1. focus' \in {focus, Unfocused}
    BY <1>5 DEF RealmStep, Start, BecomeReady, Release, RefusedRelease, Pause, Resume, Stop,
                StartupExpires, HandleExit, SupervisorDies, Ends, Destroy, OwnerChanges, Blocking,
                Unblocking, focusVars
  <2>2. owner = "HUMAN" /\ owner' # "HUMAN" /\ host # 0
    BY <1>1, <1>3, <2>1 DEF Unowned
  <2>3. focus'.keyboard # host
    BY <2>2, LeaseEnds, BlockingTakesTheKeyboard DEF Next
  <2> QED
    BY <1>1, <2>3 DEF Unowned
<1> QED
  BY <1>4, <1>5

\* Of the steps of the windows and of the user, those that bring the keyboard
\* to an unowned host window are requests for the focus.
LEMMA OtherStepsEnter ==
    ASSUME IInv, WindowStep \/ UserStep, ~Unowned, Unowned' PROVE FocusRequested
PROOF
<1>1. owner' = owner
  BY DEF WindowStep, Connect, Exits, Disconnect, Close, Open, UserStep, Place, MoveWindow,
         FocusWindow, LayerOpens, LayerCloses, MouseMoves, realmVars, contract
<1>2. host' # 0 /\ focus'.keyboard = host' /\ owner # "HUMAN"
  BY <1>1 DEF Unowned
<1>3. host # 0 => host' = host
  BY <1>2, HostEnds DEF Next
<1>4. \A w : On(w).keyboard = w
  BY DEF On
<1>5. CASE Connect \/ Exits
  BY <1>1, <1>2, <1>5 DEF Connect, Exits, hostVars, focusVars, Unowned
<1>6. CASE Disconnect
  BY <1>2, <1>6 DEF Disconnect, Dissociate
<1>7. ASSUME NEW w \in Windows, Close(w) PROVE FocusRequested
  <2>1. w # host /\ host' = host
    BY <1>2, <1>7 DEF Close, Dissociate
  <2>2. w = focus.window
    BY <1>2, <1>7, <2>1 DEF Close, Unowned
  <2> QED
    BY <1>7, <2>1, <2>2 DEF FocusRequested
<1>8. ASSUME NEW w \in Windows, NEW ws \in Workspaces, Open(w, ws) PROVE FocusRequested
  <2>1. CASE Associates
    <3>1. host' = w
      BY <1>8, <2>1 DEF Open, Associated
    <3> QED
      BY <1>8, <3>1 DEF FocusRequested
  <2>2. CASE ~Associates
    <3>1. host' = host /\ host \in mapped /\ w \notin mapped
      BY <1>2, <1>8, <2>2 DEF Open, Ordinary, IInv, Safe, HostIsCurrent
    <3>2. focus' = On(w)
      BY <1>2, <1>8, <3>1 DEF Open, Focused, Unowned
    <3> QED
      BY <1>2, <1>4, <3>1, <3>2
  <2> QED
    BY <2>1, <2>2
<1>9. ASSUME NEW ws \in Workspaces, Place(ws) \/ MoveWindow(ws) PROVE FALSE
  BY <1>1, <1>2, <1>9 DEF Place, MoveWindow, hostVars, focusVars, Unowned
<1>10. ASSUME NEW w \in Window, FocusWindow(w) PROVE FocusRequested
  <2>1. host' = host /\ focus' # focus
    BY <1>1, <1>2, <1>10 DEF FocusWindow, WindowsKept, Unowned
  <2>2. focus' \in {On(0), On(w)}
    BY <1>10, <2>1 DEF FocusWindow, Focused, Unfocused
  <2>3. w = host
    BY <1>2, <1>4, <2>1, <2>2
  <2> QED
    BY <1>10, <2>3 DEF FocusRequested
<1>11. CASE LayerOpens
  <2>1. focus'.keyboard = 0
    BY <1>11 DEF LayerOpens, IInv, TypeOK
  <2> QED
    BY <1>2, <2>1
<1>12. CASE LayerCloses
  <2>1. host' = host /\ host # 0
    BY <1>2, <1>12 DEF LayerCloses, WindowsKept
  <2>2. host \in blocked
    BY <1>2, <2>1 DEF IInv, Safe, BlockedUnlessHuman
  <2>3. PICK w \in {focus.window, 0} \cup (mapped \ blocked) : focus' = On(w)
    BY <1>12 DEF LayerCloses
  <2>4. w = host
    BY <1>2, <1>4, <2>1, <2>3
  <2> QED
    BY <1>12, <2>1, <2>2, <2>3, <2>4 DEF FocusRequested
<1>13. CASE MouseMoves
  <2>1. host' = host /\ host # 0 /\ focus' # focus
    BY <1>1, <1>2, <1>13 DEF MouseMoves, WindowsKept, Unowned
  <2>2. host \in blocked
    BY <1>2, <2>1 DEF IInv, Safe, BlockedUnlessHuman
  <2>3. PICK w \in mapped \ blocked : focus' = Focused(w)
    BY <1>13, <2>1 DEF MouseMoves
  <2>4. focus' = On(w)
    BY <2>1, <2>3 DEF Focused
  <2> QED
    BY <1>2, <1>4, <2>1, <2>2, <2>3, <2>4
<1> QED
  BY <1>5, <1>6, <1>7, <1>8, <1>9, <1>10, <1>11, <1>12, <1>13 DEF WindowStep, UserStep

\* Neither the mouse nor the realm brings the keyboard to a window that the
\* human does not own.
THEOREM KeyboardEntersOnRequest == Spec => [][EntersOnRequest]_vars
PROOF
<1>1. IInv /\ [Next]_vars => [EntersOnRequest]_vars
  <2> SUFFICES ASSUME IInv, Next, ~Unowned, Unowned' PROVE FocusRequested
    BY DEF EntersOnRequest
  <2> QED
    BY RealmStepsEnterNot, OtherStepsEnter DEF Next
<1> QED
  BY <1>1, Inductive, PTL DEF Spec

(***************************************************************************)
(* A takeover gives the human what it took: in that very step there is a   *)
(* host window, it is not blocked, and it has the keyboard unless an       *)
(* exclusive surface holds it.  The lease never comes to the human while   *)
(* the window is gone.                                                     *)
(***************************************************************************)
GivesTheWindow ==
    owner # "HUMAN" /\ owner' = "HUMAN" =>
        /\ host # 0 /\ host' = host /\ host \notin blocked'
        /\ ~exclusive => focus'.keyboard = host

\* takeoverRealm unblocks the window and focuses it before it returns.
THEOREM TakeoverGivesTheWindow == Spec => [][GivesTheWindow]_vars
PROOF
<1>1. [Next]_vars => [GivesTheWindow]_vars
  <2> SUFFICES ASSUME Next, owner # "HUMAN", owner' = "HUMAN"
               PROVE  /\ host # 0 /\ host' = host /\ host \notin blocked'
                      /\ ~exclusive => focus'.keyboard = host
    BY DEF GivesTheWindow
  <2>1. TakeOver
    <3>1. CASE RealmStep
      BY <3>1 DEF RealmStep, Start, BecomeReady, TakeOver, Release, RefusedRelease, Pause, Resume,
                  Stop, StartupExpires, HandleExit, SupervisorDies, Ends, Destroy, contract,
                  Contract!Start, Contract!BecomeReady, Contract!Pause, Contract!Resume,
                  Contract!End
    <3>2. CASE WindowStep \/ UserStep
      BY <3>2 DEF WindowStep, Connect, Exits, Disconnect, Close, Open, UserStep, Place, MoveWindow,
                  FocusWindow, LayerOpens, LayerCloses, MouseMoves, realmVars, contract
    <3> QED
      BY <3>1, <3>2 DEF Next
  <2> QED
    BY <2>1 DEF TakeOver, Focused, On
<1> QED
  BY <1>1, PTL DEF Spec
=============================================================================
