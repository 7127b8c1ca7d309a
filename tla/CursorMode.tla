----------------------------- MODULE CursorMode -----------------------------
(***************************************************************************)
(* Cursor modes, cursor objects and the pointer grab on X11: grwlSetInput- *)
(* Mode, grwlSetCursor and grwlDestroyCursor of src/src/input.cpp and the  *)
(* focus handling of src/src/linux/x11_window.cpp.                         *)
(*                                                                         *)
(* The X server moves the focus at any time and queues FocusOut and        *)
(* FocusIn.  Handlers act on the queued event, but _grwlSetCursorModeX11   *)
(* asks the server for the focus as it is now.                             *)
(***************************************************************************)
EXTENDS Naturals, Sequences

CONSTANTS
    Window,
    Cursor,     \* addresses of _GRWLcursor objects
    Position,   \* positions of the pointer
    Centre,     \* the centre of a content area
    NoWindow, NoCursor,   \* null pointers
    Hidden,     \* _grwl.x11.hiddenCursorHandle
    MaxQueue    \* bound on queued focus events

ASSUME CursorAssumption ==
    /\ NoWindow \notin Window
    /\ {NoCursor, Hidden} \intersect Cursor = {}
    /\ NoCursor # Hidden
    /\ Centre \in Position
    /\ MaxQueue \in Nat

VARIABLES
    windows,               \* the windows that exist
    cursors,               \* the list at _grwl.cursorListHead
    cursorMode,            \* window->cursorMode
    cursorOf,              \* window->cursor
    rawMouseMotion,        \* window->rawMouseMotion
    disabledCursorWindow,  \* _grwl.x11.disabledCursorWindow
    restoreCursorPos,      \* _grwl.x11.restoreCursorPosX and Y
    image,                 \* server: the cursor defined for a window
    focus,                 \* server: the window with the input focus
    queue,                 \* server: focus events not yet processed
    grab,                  \* server: the window the pointer is confined to
    rawSelected,           \* server: XI_RawMotion is selected on the root
    pointer                \* server: where the pointer is

objects == <<windows, cursors>>
look == <<cursorOf, image>>
lockVars == <<disabledCursorWindow, restoreCursorPos, grab, rawSelected,
              pointer>>
vars == <<objects, cursorMode, look, rawMouseMotion, focus, queue, lockVars>>

Mode == {"normal", "hidden", "disabled", "captured"}
Event == [type : {"FocusIn", "FocusOut"}, window : Window]
Image == Cursor \union {NoCursor, Hidden}

TypeOK ==
    /\ windows \in SUBSET Window
    /\ cursors \in SUBSET Cursor
    /\ cursorMode \in [Window -> Mode]
    /\ cursorOf \in [Window -> Cursor \union {NoCursor}]
    /\ rawMouseMotion \in [Window -> BOOLEAN]
    /\ disabledCursorWindow \in Window \union {NoWindow}
    /\ restoreCursorPos \in Position
    /\ image \in [Window -> Image]
    /\ focus \in Window \union {NoWindow}
    /\ queue \in Seq(Event)
    /\ grab \in Window \union {NoWindow}
    /\ rawSelected \in BOOLEAN
    /\ pointer \in Position

Init ==
    /\ windows = {}
    /\ cursors = {}
    /\ cursorMode = [w \in Window |-> "normal"]
    /\ cursorOf = [w \in Window |-> NoCursor]
    /\ rawMouseMotion = [w \in Window |-> FALSE]
    /\ disabledCursorWindow = NoWindow
    /\ restoreCursorPos = Centre
    /\ image = [w \in Window |-> NoCursor]
    /\ focus = NoWindow
    /\ queue = <<>>
    /\ grab = NoWindow
    /\ rawSelected = FALSE
    /\ pointer = Centre

-----------------------------------------------------------------------------
(* The X server *)

OldFocus == IF focus = NoWindow THEN <<>>
            ELSE <<[type |-> "FocusOut", window |-> focus]>>
NewFocus(w) == IF w = NoWindow THEN <<>>
               ELSE <<[type |-> "FocusIn", window |-> w]>>

MoveFocus(w) ==
    /\ w # focus
    /\ w \in windows \union {NoWindow}
    /\ Len(queue) < MaxQueue
    /\ focus' = w
    /\ queue' = queue \o OldFocus \o NewFocus(w)
    /\ UNCHANGED <<objects, cursorMode, look, rawMouseMotion, lockVars>>

MovePointer(p) ==
    /\ p # pointer
    /\ pointer' = p
    /\ UNCHANGED <<objects, cursorMode, look, rawMouseMotion, focus, queue,
                   disabledCursorWindow, restoreCursorPos, grab, rawSelected>>

-----------------------------------------------------------------------------
(* Static functions of x11_window.cpp *)

\* What updateCursorImage defines for a window in a mode.
ImageOf(mode, cursor) == IF mode \in {"normal", "captured"} THEN cursor ELSE Hidden

\* The pointer is remembered, centred, hidden and confined to w.
Disable(w) ==
    /\ disabledCursorWindow' = w
    /\ restoreCursorPos' = pointer
    /\ pointer' = Centre
    /\ grab' = w
    /\ rawSelected' = (rawSelected \/ rawMouseMotion[w])

\* Fault: the window keeps the disabled cursor.
EnableForgetful(w) ==
    /\ grab' = NoWindow
    /\ pointer' = restoreCursorPos
    /\ rawSelected' = (rawSelected /\ ~rawMouseMotion[w])
    /\ UNCHANGED <<disabledCursorWindow, restoreCursorPos>>

\* disableCursor, and enableCursor(w)
Enable(w) ==
    /\ disabledCursorWindow' = NoWindow
    /\ grab' = NoWindow
    /\ pointer' = restoreCursorPos
    /\ rawSelected' = (rawSelected /\ ~rawMouseMotion[w])
    /\ UNCHANGED restoreCursorPos

\* captureCursor(w), and releaseCursor with w = NoWindow
Confine(w) ==
    /\ grab' = w
    /\ UNCHANGED <<disabledCursorWindow, restoreCursorPos, rawSelected, pointer>>

-----------------------------------------------------------------------------
(* Events *)

\* Fault: only a captured cursor is taken again.
FocusInCaptured(w) ==
    /\ w \in windows
    /\ queue # <<>> /\ Head(queue) = [type |-> "FocusIn", window |-> w]
    /\ queue' = Tail(queue)
    /\ IF cursorMode[w] = "captured" THEN Confine(w) ELSE UNCHANGED lockVars
    /\ UNCHANGED <<objects, cursorMode, look, rawMouseMotion, focus>>

FocusIn(w) ==
    /\ w \in windows
    /\ queue # <<>> /\ Head(queue) = [type |-> "FocusIn", window |-> w]
    /\ queue' = Tail(queue)
    /\ CASE cursorMode[w] = "disabled" -> Disable(w)
         [] cursorMode[w] = "captured" -> Confine(w)
         [] OTHER -> UNCHANGED lockVars
    /\ UNCHANGED <<objects, cursorMode, look, rawMouseMotion, focus>>

FocusOut(w) ==
    /\ w \in windows
    /\ queue # <<>> /\ Head(queue) = [type |-> "FocusOut", window |-> w]
    /\ queue' = Tail(queue)
    /\ CASE cursorMode[w] = "disabled" -> Enable(w)
         [] cursorMode[w] = "captured" -> Confine(NoWindow)
         [] OTHER -> UNCHANGED lockVars
    /\ UNCHANGED <<objects, cursorMode, look, rawMouseMotion, focus>>

\* XFindContext has no window for the event: it is dropped.
EventOfDestroyed ==
    /\ queue # <<>> /\ Head(queue).window \notin windows
    /\ queue' = Tail(queue)
    /\ UNCHANGED <<objects, cursorMode, look, rawMouseMotion, focus, lockVars>>

\* The end of _grwlPollEventsX11 puts a disabled cursor back.
Recentre ==
    /\ queue = <<>>
    /\ disabledCursorWindow # NoWindow
    /\ pointer # Centre
    /\ pointer' = Centre
    /\ UNCHANGED <<objects, cursorMode, look, rawMouseMotion, focus, queue,
                   disabledCursorWindow, restoreCursorPos, grab, rawSelected>>

-----------------------------------------------------------------------------
(* Application calls *)

\* A new window has an identifier that no queued event has.
CreateWindow(w) ==
    /\ w \notin windows /\ \A i \in DOMAIN queue : queue[i].window # w
    /\ windows' = windows \union {w}
    /\ cursorMode' = [cursorMode EXCEPT ![w] = "normal"]
    /\ cursorOf' = [cursorOf EXCEPT ![w] = NoCursor]
    /\ image' = [image EXCEPT ![w] = NoCursor]
    /\ rawMouseMotion' = [rawMouseMotion EXCEPT ![w] = FALSE]
    /\ UNCHANGED <<cursors, focus, queue, lockVars>>

\* The server ends a grab whose window goes; its queued events stay.
DestroyWindow(w) ==
    /\ w \in windows
    /\ windows' = windows \ {w}
    /\ focus' = IF focus = w THEN NoWindow ELSE focus
    /\ IF disabledCursorWindow = w THEN Enable(w)
       ELSE IF grab = w THEN Confine(NoWindow)
       ELSE UNCHANGED lockVars
    /\ UNCHANGED <<cursors, cursorMode, look, rawMouseMotion, queue>>

\* grwlSetInputMode(GRWL_CURSOR) and _grwlSetCursorModeX11
SetCursorMode(w, mode) ==
    /\ w \in windows
    /\ cursorMode[w] # mode
    /\ cursorMode' = [cursorMode EXCEPT ![w] = mode]
    /\ CASE focus # w -> UNCHANGED lockVars
         [] focus = w /\ mode = "disabled" -> Disable(w)
         [] focus = w /\ mode # "disabled" ->
              IF disabledCursorWindow # w
                THEN Confine(IF mode = "captured" THEN w ELSE NoWindow)
                ELSE /\ disabledCursorWindow' = NoWindow
                     /\ grab' = IF mode = "captured" THEN w ELSE NoWindow
                     /\ pointer' = restoreCursorPos
                     /\ rawSelected' = (rawSelected /\ ~rawMouseMotion[w])
                     /\ UNCHANGED restoreCursorPos
    /\ image' = [image EXCEPT ![w] = ImageOf(mode, cursorOf[w])]
    /\ UNCHANGED <<objects, cursorOf, rawMouseMotion, focus, queue>>

\* grwlSetInputMode(GRWL_RAW_MOUSE_MOTION)
SetRawMouseMotion(w, enabled) ==
    /\ w \in windows
    /\ rawMouseMotion[w] # enabled
    /\ rawMouseMotion' = [rawMouseMotion EXCEPT ![w] = enabled]
    /\ rawSelected' = IF disabledCursorWindow = w THEN enabled ELSE rawSelected
    /\ UNCHANGED <<objects, cursorMode, look, focus, queue, disabledCursorWindow,
                   restoreCursorPos, grab, pointer>>

\* grwlCreateCursor and grwlCreateStandardCursor
CreateCursor(c) ==
    /\ c \notin cursors
    /\ cursors' = cursors \union {c}
    /\ UNCHANGED <<windows, cursorMode, look, rawMouseMotion, focus, queue, lockVars>>

\* Fault: the window shows the cursor and stores its image.
UseCursorImage(ws, c) ==
    /\ cursorOf' = [w \in Window |-> IF w \in ws THEN ImageOf(cursorMode[w], c)
                                                 ELSE cursorOf[w]]
    /\ image' = [w \in Window |-> IF w \in ws THEN c ELSE image[w]]

\* grwlSetCursor and _grwlSetCursorX11 for the windows ws
UseCursor(ws, c) ==
    /\ cursorOf' = [w \in Window |-> IF w \in ws THEN c ELSE cursorOf[w]]
    /\ image' = [w \in Window |->
                   IF w \in ws /\ cursorMode[w] \in {"normal", "captured"}
                     THEN c ELSE image[w]]

SetCursor(w, c) ==
    /\ w \in windows
    /\ c \in cursors \union {NoCursor}
    /\ UseCursor({w}, c)
    /\ UNCHANGED <<objects, cursorMode, rawMouseMotion, focus, queue, lockVars>>

\* Fault: the windows keep the cursor that is destroyed.
DestroyCursorInUse(c) ==
    /\ c \in cursors
    /\ cursors' = cursors \ {c}
    /\ UNCHANGED <<windows, cursorMode, look, rawMouseMotion, focus, queue, lockVars>>

\* Every window that uses the cursor gets the default one first.
DestroyCursor(c) ==
    /\ c \in cursors
    /\ cursors' = cursors \ {c}
    /\ UseCursor({w \in windows : cursorOf[w] = c}, NoCursor)
    /\ UNCHANGED <<windows, cursorMode, rawMouseMotion, focus, queue, lockVars>>

-----------------------------------------------------------------------------
Server ==
    \/ \E w \in Window \union {NoWindow} : MoveFocus(w)
    \/ \E p \in Position : MovePointer(p)

Next ==
    \/ Server
    \/ EventOfDestroyed
    \/ Recentre
    \/ \E w \in Window :
         \/ FocusIn(w)
         \/ FocusOut(w)
         \/ CreateWindow(w)
         \/ DestroyWindow(w)
         \/ \E mode \in Mode : SetCursorMode(w, mode)
         \/ \E enabled \in BOOLEAN : SetRawMouseMotion(w, enabled)
         \/ \E c \in Cursor \union {NoCursor} : SetCursor(w, c)
    \/ \E c \in Cursor : CreateCursor(c) \/ DestroyCursor(c)

Spec == Init /\ [][Next]_vars

-----------------------------------------------------------------------------
(* Properties *)

(***************************************************************************)
(* The window whose cursor is disabled exists: the raw motion handler and  *)
(* the end of every poll use _grwl.x11.disabledCursorWindow without any    *)
(* check (_grwlDestroyWindowX11).                                          *)
(***************************************************************************)
DisabledWindowLives == disabledCursorWindow \in windows \union {NoWindow}

(***************************************************************************)
(* No live window uses or shows a cursor that has been destroyed, in       *)
(* whichever modes the windows were when that happened, and each shows     *)
(* what its mode asks for (grwlDestroyCursor, updateCursorImage).          *)
(***************************************************************************)
CursorShown ==
    \A w \in windows :
        /\ cursorOf[w] \in cursors \union {NoCursor}
        /\ image[w] = ImageOf(cursorMode[w], cursorOf[w])

(***************************************************************************)
(* GRWL_CURSOR_DISABLED "hides and grabs the cursor" (GRWL/grwl.h): once   *)
(* every focus event is processed, a window that has the focus and is in   *)
(* this mode has the grab, whether the mode was set before the server      *)
(* moved the focus, after that, or between two of the events.              *)
(***************************************************************************)
FocusedDisabledIsGrabbed ==
    \A w \in windows :
        queue = <<>> /\ focus = w /\ cursorMode[w] = "disabled" =>
            disabledCursorWindow = w /\ grab = w

=============================================================================
