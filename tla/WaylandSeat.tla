------------------------------ MODULE WaylandSeat ------------------------------
(***************************************************************************)
(* Input on Wayland: the loop of handleEvents, keyboard focus and the      *)
(* timer that repeats keys, pointer focus, the lock of the pointer and the *)
(* image it shows, and the timer that animates it.                         *)
(*                                                                         *)
(* Code: src/src/linux/wl_window.cpp, src/src/linux/wl_init.cpp,           *)
(* src/src/input.cpp.                                                      *)
(*                                                                         *)
(* Events are on the wire until somebody reads them, in the queue until    *)
(* handleEvents dispatches them.  An object that the library destroys is   *)
(* null in the events that are still to come.  Callbacks run in handlers,  *)
(* so the application may act at any time except while handleEvents        *)
(* sleeps; it destroys windows only outside handleEvents.                  *)
(***************************************************************************)
EXTENDS Naturals, Sequences

CONSTANTS
    Window, NoWindow,
    CursorWindow,        \* windows whose cursor the application changes
    Key, NoKey,          \* keys that repeat
    Cursor, NoCursor,    \* standard cursors with a sequence of images
    Devices,             \* seats: the sets of devices that one can have
    MaxKeyEvents, MaxPointerEvents   \* events sent and not dispatched yet, on
                                     \* a seat without and with a pointer

SeatAssumption ==
    /\ CursorWindow \subseteq Window
    /\ NoWindow \notin Window /\ NoKey \notin Key /\ NoCursor \notin Cursor
    /\ Devices \subseteq SUBSET {"keyboard", "pointer"}
    /\ MaxKeyEvents \in Nat \ {0} /\ MaxPointerEvents \in Nat \ {0}

Surface == {"main", "frame"}              \* of a window, fallback decorations
Mode == {"normal", "hidden", "captured", "disabled"}
Nowhere == [window |-> NoWindow, part |-> "main"]
Place == [window : Window, part : Surface] \union {Nowhere}

VARIABLES
    keyboard,   \* [bound, focus, scancode, armed, expired]: the key to repeat
    pointer,    \* [bound, focus, named, shown: its image, timer, expired]
    keys,       \* [Window -> SUBSET Key]: window->keys
    win,        \* [Window -> WindowRecord]
    loop,       \* [phase, ready, event]: handleEvents
    wire, queue,
    seat,       \* the compositor: [devices, keyboard, pointer, focus, held, at]
    down,       \* what the events said: the keys of each window that are down
    over,       \* what the events said: where the pointer is
    strayed,    \* keys the timer may repeat where they were not pressed
    failed      \* a null pointer was dereferenced: nothing runs any more

vars == <<keyboard, pointer, keys, win, loop, wire, queue, seat, down, over,
          strayed, failed>>

\* named: wl.cursorPreviousName is set.  part: wl.decorations.focus.  current: wl.currentCursor.  cursor: what the
\* application has set.  missed: it was set while there was no pointer.
NewWindow == [open |-> TRUE, mode |-> "normal", cursor |-> NoCursor, current |-> NoCursor,
              missed |-> FALSE, lock |-> "none", part |-> "main"]
NoSuchWindow == [NewWindow EXCEPT !.open = FALSE]

WindowRecord == [open : BOOLEAN, mode : Mode, cursor : Cursor \union {NoCursor},
                 current : Cursor \union {NoCursor}, missed : BOOLEAN,
                 lock : {"none", "locked", "confined"}, part : Surface]

Phase == {"app", "pending", "poll", "dispatch", "repeat", "animate"}
Timer == {"repeat", "animate"}
KeyEvent == [type : {"key"}, key : Key, pressed : BOOLEAN]
CapsEvent == [type : {"caps"}, keyboard : BOOLEAN, pointer : BOOLEAN]
FocusEvent ==
    [type : {"kenter", "kleave"}, window : Window \union {NoWindow}]
    \union [type : {"penter", "pleave", "motion"}, window : Window \union {NoWindow},
            part : Surface]
Event == KeyEvent \union CapsEvent \union FocusEvent \union {[type |-> "done"]}

Image == Cursor \union {NoCursor, "hidden", "resize", "undefined"}

MaxEvents == IF "pointer" \in seat.devices THEN MaxPointerEvents ELSE MaxKeyEvents

Idle == [phase |-> "app", ready |-> {}, event |-> FALSE]

TypeOK ==
    /\ keyboard \in [bound : BOOLEAN, focus : Window \union {NoWindow},
                     scancode : Key \union {NoKey}, armed : BOOLEAN, expired : BOOLEAN]
    /\ pointer \in [bound : BOOLEAN, focus : Window \union {NoWindow}, named : BOOLEAN,
                    shown : Image, timer : BOOLEAN, expired : BOOLEAN]
    /\ keys \in [Window -> SUBSET Key]
    /\ win \in [Window -> WindowRecord]
    /\ loop \in [phase : Phase, ready : SUBSET Timer, event : BOOLEAN]
    /\ wire \in Seq(Event) /\ queue \in Seq(Event)
    /\ Len(wire) + Len(queue) <= MaxEvents
    /\ seat \in [devices : Devices, keyboard : BOOLEAN, pointer : BOOLEAN, focus : Window \union {NoWindow},
                 held : SUBSET Key, at : Place]
    /\ down \in [Window -> SUBSET Key]
    /\ over \in Place
    /\ strayed \in SUBSET Key
    /\ failed \in BOOLEAN
    /\ \A w \in Window : ~win[w].open =>
          /\ keyboard.focus # w /\ pointer.focus # w /\ win[w] = NoSuchWindow
          /\ \A i \in 1..Len(queue) : queue[i].type \notin {"key", "caps", "done"} =>
                queue[i].window # w

Init ==
    /\ keyboard = [bound |-> FALSE, focus |-> NoWindow, scancode |-> NoKey,
                   armed |-> FALSE, expired |-> FALSE]
    /\ pointer = [bound |-> FALSE, focus |-> NoWindow, named |-> FALSE,
                  shown |-> "undefined", timer |-> FALSE, expired |-> FALSE]
    /\ keys = [w \in Window |-> {}]
    /\ win = [w \in Window |-> NoSuchWindow]
    /\ loop = Idle
    /\ wire = <<>> /\ queue = <<>>
    /\ \E d \in Devices :
          seat = [devices |-> d, keyboard |-> keyboard.bound, pointer |-> pointer.bound,
                  focus |-> NoWindow, held |-> {}, at |-> Nowhere]
    /\ down = [w \in Window |-> {}]
    /\ over = Nowhere
    /\ strayed = {} /\ failed = FALSE

-----------------------------------------------------------------------------
(* The image of the pointer and its lock.                                  *)

\* setCursorImage: a cursor with several images arms the timer.
ShowImage(p, c) ==
    IF c = NoCursor THEN [p EXCEPT !.shown = NoCursor]
    ELSE [p EXCEPT !.shown = c, !.timer = TRUE, !.expired = FALSE]

LockOf(mode) == CASE mode = "disabled" -> "locked"
                  [] mode = "captured" -> "confined"
                  [] OTHER -> "none"

\* Fault: a window that hides the cursor keeps the lock of the mode before.
KeepsLock(r) == IF r.mode = "hidden" THEN r.lock ELSE LockOf(r.mode)

UpdatedLock(r) == LockOf(r.mode)

Seen(p, r) ==
    IF r.mode \in {"normal", "captured"} THEN ShowImage(p, r.current)
    ELSE [p EXCEPT !.shown = "hidden"]

\* Fault: the cursor is not remembered while the pointer is in no window.
Forgetful(r, c, p) == IF p.focus # NoWindow THEN [r EXCEPT !.current = c] ELSE r

Remember(r, c, p) == IF p.bound THEN [r EXCEPT !.current = c] ELSE r

\* _grwlSetCursorWayland, given the window and pointer as its caller left them.
SetCursor(w, c, r, p) ==
    LET q == Remember(r, c, p)
    IN IF p.bound /\ w = p.focus /\ r.part = "main"
       THEN /\ win' = [win EXCEPT ![w] = [q EXCEPT !.lock = UpdatedLock(q)]]
            /\ pointer' = Seen(p, q)
       ELSE /\ win' = [win EXCEPT ![w] = q]
            /\ pointer' = p

-----------------------------------------------------------------------------
(* The handlers of events.                                                 *)

KeyboardSide == <<keyboard, keys, down, strayed>>
PointerSide == <<pointer, win, over>>

\* _grwlInputKey; strayed and down are not its business.
PressKey(w, k) == keys' = [keys EXCEPT ![w] = @ \union {k}]

KeyboardHandleEnter(e) ==
    /\ e.type = "kenter"
    /\ keyboard' = IF e.window = NoWindow THEN keyboard
                   ELSE [keyboard EXCEPT !.focus = e.window]
    /\ UNCHANGED <<keys, down, strayed>>

\* The focus callback releases the keys of the window.
KeyboardHandleLeave(e) ==
    /\ e.type = "kleave"
    /\ LET w == keyboard.focus
       IN IF w = NoWindow THEN UNCHANGED KeyboardSide
          ELSE /\ keyboard' = [keyboard EXCEPT !.focus = NoWindow, !.armed = FALSE,
                                               !.expired = FALSE]
               /\ keys' = [keys EXCEPT ![w] = {}]
               /\ down' = [down EXCEPT ![w] = {}]
               /\ UNCHANGED strayed

\* Fault: a release leaves the timer as it is.
ArmedUnlessReleased(e, repeats) ==
    IF ~e.pressed THEN keyboard
    ELSE [keyboard EXCEPT !.scancode = IF repeats THEN e.key ELSE @, !.armed = repeats,
                          !.expired = FALSE]

\* Whether the key repeats is for the keymap and the compositor to say; every
\* other key event disarms the timer.
Armed(e, repeats) ==
    LET arms == e.pressed /\ repeats
    IN [keyboard EXCEPT !.scancode = IF arms THEN e.key ELSE @, !.armed = arms,
                        !.expired = FALSE]

KeyboardHandleKey(e) ==
    /\ e.type = "key"
    /\ LET w == keyboard.focus
       IN IF w = NoWindow THEN UNCHANGED KeyboardSide
          ELSE /\ \E repeats \in BOOLEAN : keyboard' = Armed(e, repeats)
               /\ IF e.pressed
                  THEN /\ PressKey(w, e.key)
                       /\ down' = [down EXCEPT ![w] = @ \union {e.key}]
                  ELSE /\ keys' = [keys EXCEPT ![w] = @ \ {e.key}]
                       /\ down' = [down EXCEPT ![w] = @ \ {e.key}]
               /\ UNCHANGED strayed

PointerHandleEnter(e) ==
    /\ e.type = "penter"
    /\ IF e.window = NoWindow THEN UNCHANGED PointerSide
       ELSE /\ LET r == [win[e.window] EXCEPT !.part = e.part]
                   p == [pointer EXCEPT !.focus = e.window, !.shown = "undefined"]
               IN SetCursor(e.window, r.current, r, p)
            /\ over' = [window |-> e.window, part |-> e.part]

\* A leave of a surface that was destroyed is ignored: the focus stays.
PointerHandleLeave(e) ==
    /\ e.type = "pleave"
    /\ over' = Nowhere
    /\ pointer' = IF e.window = NoWindow \/ pointer.focus = NoWindow THEN pointer
                  ELSE [pointer EXCEPT !.focus = NoWindow, !.named = FALSE,
                                       !.shown = "undefined"]
    /\ UNCHANGED win

\* The image over decorations is set when its name changes.
PointerHandleMotion(e) ==
    /\ e.type = "motion"
    /\ LET w == pointer.focus
       IN IF w = NoWindow THEN UNCHANGED pointer
          ELSE IF win[w].mode = "disabled" THEN UNCHANGED pointer
          ELSE IF win[w].part = "main" THEN pointer' = [pointer EXCEPT !.named = FALSE]
          ELSE \/ pointer' = [pointer EXCEPT !.named = TRUE, !.shown = "resize"]
               \/ pointer.named /\ UNCHANGED pointer
    /\ UNCHANGED <<win, over>>

\* seatHandleCapabilities: what belongs to a keyboard or pointer that goes,
\* the focus and the timer, stays.
HandleCapabilities(e) ==
    /\ e.type = "caps"
    /\ keyboard' = [keyboard EXCEPT !.bound = e.keyboard]
    /\ strayed' = IF e.keyboard \/ keyboard.focus = NoWindow THEN strayed ELSE Key
    /\ pointer' = [pointer EXCEPT !.bound = e.pointer,
                                  !.shown = IF e.pointer THEN @ ELSE "undefined"]
    /\ over' = IF e.pointer THEN over ELSE Nowhere
    /\ UNCHANGED <<keys, down, win>>

\* wl_display_dispatch_pending, one event at a time.
Dispatch ==
    /\ queue # <<>>
    /\ queue' = Tail(queue)
    /\ LET e == Head(queue)
       IN \/ /\ KeyboardHandleEnter(e) \/ KeyboardHandleLeave(e) \/ KeyboardHandleKey(e)
             /\ UNCHANGED PointerSide
          \/ /\ PointerHandleEnter(e) \/ PointerHandleLeave(e) \/ PointerHandleMotion(e)
             /\ UNCHANGED KeyboardSide
          \/ HandleCapabilities(e)
          \/ e.type = "done" /\ UNCHANGED <<KeyboardSide, PointerSide>>
    /\ UNCHANGED <<wire, seat, failed>>

-----------------------------------------------------------------------------
(* handleEvents.                                                           *)

InLoop(phase) == loop.phase = phase
GoesTo(phase) == loop' = [loop EXCEPT !.phase = phase]
Returns == loop' = Idle
Input == <<KeyboardSide, PointerSide>>

\* grwlPollEvents, grwlWaitEventsTimeout, and grwlWaitEvents, which does not
\* time out.
HandleEvents ==
    /\ InLoop("app")
    /\ GoesTo("pending")
    /\ UNCHANGED <<Input, wire, queue, seat, failed>>

\* Reading can be prepared only when the queue is empty.  What is dispatched
\* here does not count as an event.
DispatchPending == InLoop("pending") /\ Dispatch /\ UNCHANGED loop

Prepared ==
    /\ InLoop("pending") /\ queue = <<>>
    /\ GoesTo("poll")
    /\ UNCHANGED <<Input, wire, queue, seat, failed>>

\* The connection is lost: every window is asked to close.
FlushFails ==
    /\ InLoop("pending") /\ queue = <<>>
    /\ Returns
    /\ UNCHANGED <<Input, wire, queue, seat, failed>>

Expired == (IF keyboard.expired THEN {"repeat"} ELSE {})
           \union (IF pointer.expired THEN {"animate"} ELSE {})

\* _grwlPollPOSIX; then the events are read.
Wake ==
    /\ InLoop("poll") /\ (wire # <<>> \/ Expired # {})
    /\ loop' = [loop EXCEPT !.phase = "dispatch", !.ready = Expired]
    /\ queue' = wire /\ wire' = <<>>
    /\ UNCHANGED <<Input, seat, failed>>

TimesOut ==
    /\ InLoop("poll") /\ wire = <<>> /\ Expired = {}
    /\ Returns
    /\ UNCHANGED <<Input, wire, queue, seat, failed>>

DispatchRead ==
    /\ InLoop("dispatch") /\ Dispatch
    /\ loop' = [loop EXCEPT !.event = TRUE]

Drained ==
    /\ InLoop("dispatch") /\ queue = <<>>
    /\ GoesTo("repeat")
    /\ UNCHANGED <<Input, wire, queue, seat, failed>>

\* Fault: the key repeats because the timer had expired before the events.
RepeatsAsPolled == "repeat" \in loop.ready

\* The read fails if the timer was set again since the poll.
Repeats == "repeat" \in loop.ready /\ keyboard.expired

\* The timer goes on; whoever has the focus gets the key.
KeyRepeats ==
    /\ InLoop("repeat") /\ Repeats
    /\ IF keyboard.focus = NoWindow
       THEN failed' = TRUE /\ UNCHANGED <<Input, loop>>
       ELSE /\ PressKey(keyboard.focus, keyboard.scancode)
            /\ keyboard' = [keyboard EXCEPT !.expired = FALSE]
            /\ loop' = [loop EXCEPT !.phase = "animate", !.event = TRUE]
            /\ UNCHANGED <<down, strayed, PointerSide, failed>>
    /\ UNCHANGED <<wire, queue, seat>>

NoRepeat ==
    /\ InLoop("repeat") /\ ~Repeats
    /\ GoesTo("animate")
    /\ UNCHANGED <<Input, wire, queue, seat, failed>>

\* The loop is left after an event.
Again == IF loop.event THEN Returns
         ELSE loop' = [loop EXCEPT !.phase = "pending", !.ready = {}]

\* incrementCursorImage, whatever the mode of the cursor is.
CursorAdvances ==
    /\ InLoop("animate") /\ "animate" \in loop.ready /\ pointer.expired
    /\ Returns
    /\ LET w == pointer.focus
           p == [pointer EXCEPT !.expired = FALSE]
           animated == w # NoWindow /\ win[w].part = "main" /\ win[w].current # NoCursor
       IN /\ pointer' = IF animated THEN ShowImage(p, win[w].current) ELSE p
          /\ failed' = (animated /\ ~pointer.bound)
    /\ UNCHANGED <<KeyboardSide, win, over, wire, queue, seat>>

NoAdvance ==
    /\ InLoop("animate") /\ ~("animate" \in loop.ready /\ pointer.expired)
    /\ Again
    /\ UNCHANGED <<Input, wire, queue, seat, failed>>

RepeatTimer ==
    /\ keyboard.armed /\ ~keyboard.expired
    /\ keyboard' = [keyboard EXCEPT !.expired = TRUE]
    /\ UNCHANGED <<keys, down, strayed, PointerSide, loop, wire, queue, seat, failed>>

CursorTimer ==
    /\ pointer.timer
    /\ pointer' = [pointer EXCEPT !.timer = FALSE, !.expired = TRUE]
    /\ UNCHANGED <<KeyboardSide, win, over, loop, wire, queue, seat, failed>>

\* Something else in the process reads the connection, the buffer swap of EGL
\* for one; it waits while handleEvents has prepared to read.
OtherReader ==
    /\ InLoop("app") /\ wire # <<>>
    /\ queue' = queue \o wire /\ wire' = <<>>
    /\ UNCHANGED <<Input, loop, seat, failed>>

-----------------------------------------------------------------------------
(* The application.  It acts in callbacks, too.                            *)

Awake == loop.phase # "poll"

\* The events of surfaces that are destroyed name no window any more.
Orphaned(s, Gone(_)) ==
    [i \in DOMAIN s |-> IF s[i].type \notin {"key", "caps", "done"} /\ Gone(s[i])
                        THEN [s[i] EXCEPT !.window = NoWindow] ELSE s[i]]

CreateWindow(w) ==
    /\ InLoop("app") /\ ~win[w].open
    /\ win' = [win EXCEPT ![w] = NewWindow]
    /\ UNCHANGED <<KeyboardSide, pointer, over, loop, wire, queue, seat, failed>>

Repeating == IF keyboard.armed THEN {keyboard.scancode} ELSE {}

\* Fault: the pointer to the window stays.
KeepsFocus(focus, w) == focus

Unfocused(focus, w) == IF focus = w THEN NoWindow ELSE focus

\* The timer that repeats keys is not disarmed.
DestroyWindow(w) ==
    /\ InLoop("app") /\ win[w].open
    /\ win' = [win EXCEPT ![w] = NoSuchWindow]
    /\ keyboard' = [keyboard EXCEPT !.focus = Unfocused(@, w)]
    /\ strayed' = IF keyboard.focus = w THEN strayed \union Repeating ELSE strayed
    /\ pointer' = [pointer EXCEPT !.focus = Unfocused(@, w)]
    /\ keys' = [keys EXCEPT ![w] = {}] /\ down' = [down EXCEPT ![w] = {}]
    /\ over' = IF over.window = w THEN Nowhere ELSE over
    /\ LET Gone(e) == e.window = w
       IN wire' = Orphaned(wire, Gone) /\ queue' = Orphaned(queue, Gone)
    /\ seat' = [seat EXCEPT !.focus = IF @ = w THEN NoWindow ELSE @,
                            !.at = IF @.window = w THEN Nowhere ELSE @]
    /\ UNCHANGED <<loop, failed>>

\* The fallback decorations go, in full screen mode for one.
DestroyFrame(w) ==
    /\ Awake /\ win[w].open
    /\ LET Gone(e) == e.type # "kenter" /\ e.type # "kleave" /\ e.window = w /\ e.part = "frame"
       IN wire' = Orphaned(wire, Gone) /\ queue' = Orphaned(queue, Gone)
    /\ LET frame == [window |-> w, part |-> "frame"]
       IN /\ over' = IF over = frame THEN Nowhere ELSE over
          /\ seat' = [seat EXCEPT !.at = IF @ = frame THEN Nowhere ELSE @]
    /\ UNCHANGED <<KeyboardSide, pointer, win, loop, failed>>

\* A bound: cursors matter only on a seat that may have a pointer.
SetsCursor(w) ==
    Awake /\ win[w].open /\ w \in CursorWindow /\ "pointer" \in seat.devices

\* grwlSetInputMode, GRWL_CURSOR.
SetCursorMode(w, mode) ==
    /\ SetsCursor(w) /\ win[w].mode # mode
    /\ SetCursor(w, win[w].current, [win[w] EXCEPT !.mode = mode], pointer)
    /\ UNCHANGED <<KeyboardSide, over, loop, wire, queue, seat, failed>>

\* grwlSetCursor.
SetWindowCursor(w, c) ==
    /\ SetsCursor(w)
    /\ SetCursor(w, c, [win[w] EXCEPT !.cursor = c,
                                      !.missed = ~pointer.bound /\ c # win[w].current],
                 pointer)
    /\ UNCHANGED <<KeyboardSide, over, loop, wire, queue, seat, failed>>

-----------------------------------------------------------------------------
(* The compositor, and other threads that post empty events.               *)

Pending == Len(wire) + Len(queue)
NoCapsPending ==
    \A e \in {wire[i] : i \in DOMAIN wire} \union {queue[i] : i \in DOMAIN queue} :
        e.type # "caps"

Send(e) == Pending < MaxEvents /\ wire' = Append(wire, e)
Elsewhere == UNCHANGED <<Input, loop, queue, failed>>

SendKeyboardEnter(w) ==
    /\ seat.keyboard /\ keyboard.bound /\ NoCapsPending
    /\ win[w].open /\ seat.focus = NoWindow
    /\ Send([type |-> "kenter", window |-> w])
    /\ seat' = [seat EXCEPT !.focus = w]
    /\ Elsewhere

SendKeyboardLeave ==
    /\ seat.focus # NoWindow
    /\ Send([type |-> "kleave", window |-> seat.focus])
    /\ seat' = [seat EXCEPT !.focus = NoWindow]
    /\ Elsewhere

\* Only the window with the focus is told.
ChangeKey(k) ==
    /\ seat.keyboard
    /\ seat' = [seat EXCEPT !.held = IF k \in @ THEN @ \ {k} ELSE @ \union {k}]
    /\ IF seat.focus = NoWindow THEN UNCHANGED wire
       ELSE Send([type |-> "key", key |-> k, pressed |-> k \notin seat.held])
    /\ Elsewhere

SendPointerEnter(w, part) ==
    /\ seat.pointer /\ pointer.bound /\ NoCapsPending
    /\ win[w].open /\ seat.at = Nowhere
    /\ Send([type |-> "penter", window |-> w, part |-> part])
    /\ seat' = [seat EXCEPT !.at = [window |-> w, part |-> part]]
    /\ Elsewhere

SendPointer(type) ==
    /\ seat.at # Nowhere /\ type \in {"pleave", "motion"}
    /\ Send([type |-> type, window |-> seat.at.window, part |-> seat.at.part])
    /\ seat' = IF type = "pleave" THEN [seat EXCEPT !.at = Nowhere] ELSE seat
    /\ Elsewhere

SendCapabilities(k, p) ==
    /\ k => "keyboard" \in seat.devices
    /\ p => "pointer" \in seat.devices
    /\ <<k, p>> # <<seat.keyboard, seat.pointer>> /\ NoCapsPending
    /\ Send([type |-> "caps", keyboard |-> k, pointer |-> p])
    /\ seat' = [seat EXCEPT !.keyboard = k, !.pointer = p,
                            !.focus = IF k THEN @ ELSE NoWindow,
                            !.held = IF k THEN @ ELSE {},
                            !.at = IF p THEN @ ELSE Nowhere]
    /\ Elsewhere

\* grwlPostEmptyEvent, by another thread.
PostEmptyEvent == Send([type |-> "done"]) /\ UNCHANGED seat /\ Elsewhere

-----------------------------------------------------------------------------
Loop ==
    \/ HandleEvents \/ DispatchPending \/ Prepared \/ FlushFails \/ Wake \/ TimesOut \/ DispatchRead
    \/ Drained \/ KeyRepeats \/ NoRepeat \/ CursorAdvances \/ NoAdvance

Application ==
    \E w \in Window :
        \/ CreateWindow(w) \/ DestroyWindow(w) \/ DestroyFrame(w)
        \/ \E mode \in Mode : SetCursorMode(w, mode)
        \/ \E c \in Cursor \union {NoCursor} : SetWindowCursor(w, c)

Environment ==
    \/ RepeatTimer \/ CursorTimer \/ OtherReader
    \/ \E w \in Window :
          SendKeyboardEnter(w) \/ \E part \in Surface : SendPointerEnter(w, part)
    \/ \E k \in Key : ChangeKey(k)
    \/ SendKeyboardLeave \/ SendPointer("pleave") \/ SendPointer("motion")
    \/ \E k, p \in BOOLEAN : SendCapabilities(k, p)
    \/ PostEmptyEvent

Next == ~failed /\ (Loop \/ Application \/ Environment)

Spec == Init /\ [][Next]_vars

-----------------------------------------------------------------------------
(* Properties.                                                             *)

\* A window reports a key as pressed only if the compositor said so and has not
\* said otherwise in what was dispatched, however the timer that repeats keys
\* races with the events that disarm it.  The exceptions are a key whose timer
\* outlives the window that had the focus, and any key once a keyboard went and
\* left the focus behind: nothing disarms the timer then.
PressedIsDown ==
    \A w \in Window : keys[w] \subseteq down[w] \union strayed

\* While the compositor has the pointer over the content area of a window, it
\* is locked or confined as the cursor mode of the window asks, also after the
\* mode has changed while the pointer was elsewhere or there was none.
LockFollowsMode ==
    \A w \in Window :
        over = [window |-> w, part |-> "main"] => win[w].lock = LockOf(win[w].mode)

\* A visible cursor over the content area of a window is the one that the
\* application has set, wherever the pointer was then; it is not kept if there
\* was no pointer at all.
CursorShown ==
    \A w \in Window :
        /\ over = [window |-> w, part |-> "main"]
        /\ win[w].mode \in {"normal", "captured"}
        /\ ~win[w].missed
        => pointer.shown = win[w].cursor

=============================================================================
