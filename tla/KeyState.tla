------------------------------ MODULE KeyState ------------------------------
(***************************************************************************)
(* The cached state of the keys and mouse buttons of one window: _grwl-    *)
(* InputKey, _grwlInputMouseClick and the polling functions of src/src/    *)
(* input.cpp, and _grwlInputWindowFocus of src/src/window.cpp, fed by the  *)
(* X11 events of src/src/linux/x11_window.cpp.                             *)
(*                                                                         *)
(* Everything runs on the main thread, but the callbacks for the synthetic *)
(* releases of a focus loss run between the iterations of its loops, and   *)
(* may poll and change the input modes.                                    *)
(***************************************************************************)
CONSTANTS Key, Button

ASSUME InputAssumption == Key \intersect Button = {}

VARIABLES
    keys,                \* window->keys
    mouseButtons,        \* window->mouseButtons
    stickyKeys,          \* window->stickyKeys
    stickyMouseButtons,  \* window->stickyMouseButtons
    focused,             \* the focus event last processed
    visiting,            \* keys and buttons the focus loss has yet to look at
    down,                \* held by the user, as far as the window's events tell
    heard,               \* history: the callbacks said `pressed' last
    owed                 \* history: a press that polling has to report

modes == <<stickyKeys, stickyMouseButtons>>
history == <<heard, owed>>
vars == <<keys, mouseButtons, modes, focused, visiting, down, history>>

Input == Key \union Button
Action == {"release", "press"}
Cached == Action \union {"stick"}

TypeOK ==
    /\ keys \in [Key -> Cached]
    /\ mouseButtons \in [Button -> Cached]
    /\ stickyKeys \in BOOLEAN
    /\ stickyMouseButtons \in BOOLEAN
    /\ focused \in BOOLEAN
    /\ visiting \in SUBSET Input
    /\ down \in SUBSET Input
    /\ heard \in SUBSET Input
    /\ owed \in SUBSET Input

Init ==
    /\ keys = [k \in Key |-> "release"]
    /\ mouseButtons = [b \in Button |-> "release"]
    /\ stickyKeys = FALSE
    /\ stickyMouseButtons = FALSE
    /\ focused = FALSE
    /\ visiting = {}
    /\ down = {}
    /\ heard = {}
    /\ owed = {}

-----------------------------------------------------------------------------
(* _grwlInputKey and _grwlInputMouseClick *)

\* Fault: the sticky mode is ignored.
StoredPlain(action, sticky) == action

\* Fault: the value stuck keys are given is not one polling knows.
StoredStuck(action, sticky) ==
    IF action = "release" /\ sticky THEN "stuck" ELSE action

Stored(action, sticky) == IF action = "release" /\ sticky THEN "stick" ELSE action

\* What the two callbacks have been told, and what the documentation of the
\* sticky modes makes of it.
Told(i, action, sticky) ==
    IF action = "press"
      THEN /\ heard' = heard \union {i}
           /\ owed' = owed \union {i}
      ELSE /\ heard' = heard \ {i}
           /\ owed' = IF sticky THEN owed ELSE owed \ {i}

\* Fault: every release is stored, as it is for mouse buttons.
InputEveryKey(k, action) ==
    /\ keys' = [keys EXCEPT ![k] = Stored(action, stickyKeys)]
    /\ Told(k, action, stickyKeys)

\* A release of a key that is released is ignored.
InputKey(k, action) ==
    IF action = "release" /\ keys[k] = "release"
      THEN UNCHANGED <<keys, history>>
      ELSE /\ keys' = [keys EXCEPT ![k] = Stored(action, stickyKeys)]
           /\ Told(k, action, stickyKeys)

\* ... that of a mouse button is not.
InputMouseClick(b, action) ==
    /\ mouseButtons' = [mouseButtons EXCEPT ![b] = Stored(action, stickyMouseButtons)]
    /\ Told(b, action, stickyMouseButtons)

-----------------------------------------------------------------------------
(* X11 events; none is processed while a focus loss is *)

\* The press of a held key is a repeat.
KeyPress(k) ==
    /\ visiting = {} /\ focused
    /\ InputKey(k, "press")
    /\ down' = down \union {k}
    /\ UNCHANGED <<mouseButtons, modes, focused, visiting>>

\* The key may have been pressed while another window had the focus.
KeyRelease(k) ==
    /\ visiting = {} /\ focused
    /\ InputKey(k, "release")
    /\ down' = down \ {k}
    /\ UNCHANGED <<mouseButtons, modes, focused, visiting>>

\* Button events go to the window below the cursor and, until the button is
\* released, to the one it was pressed in, whichever has the focus.
ButtonPress(b) ==
    /\ visiting = {}
    /\ b \notin down
    /\ InputMouseClick(b, "press")
    /\ down' = down \union {b}
    /\ UNCHANGED <<keys, modes, focused, visiting>>

ButtonRelease(b) ==
    /\ visiting = {}
    /\ b \in down
    /\ InputMouseClick(b, "release")
    /\ down' = down \ {b}
    /\ UNCHANGED <<keys, modes, focused, visiting>>

FocusIn ==
    /\ visiting = {} /\ ~focused
    /\ focused' = TRUE
    /\ UNCHANGED <<keys, mouseButtons, modes, visiting, down, history>>

\* _grwlInputWindowFocus: the focus callback, then every key and button.  The
\* keys are released elsewhere, and no event will tell.
FocusOut ==
    /\ visiting = {} /\ focused
    /\ focused' = FALSE
    /\ visiting' = Input
    /\ down' = down \ Key
    /\ UNCHANGED <<keys, mouseButtons, modes, history>>

\* Fault: the loop over the keys forgets those that are pressed.
VisitKeyIdly(k) ==
    /\ k \in visiting
    /\ visiting' = visiting \ {k}
    /\ UNCHANGED <<keys, mouseButtons, modes, focused, down, history>>

VisitKey(k) ==
    /\ k \in visiting
    /\ visiting' = visiting \ {k}
    /\ IF keys[k] = "press" THEN InputKey(k, "release")
                            ELSE UNCHANGED <<keys, history>>
    /\ UNCHANGED <<mouseButtons, modes, focused, down>>

VisitButton(b) ==
    /\ b \in visiting
    /\ visiting \intersect Key = {}
    /\ visiting' = visiting \ {b}
    /\ IF mouseButtons[b] = "press" THEN InputMouseClick(b, "release")
                                    ELSE UNCHANGED <<mouseButtons, history>>
    /\ UNCHANGED <<keys, modes, focused, down>>

-----------------------------------------------------------------------------
(* Application calls, at any moment *)

\* "Once it has been polled, if a key release event had been processed in the
\* meantime, the state will reset to GRWL_RELEASE, otherwise it will remain
\* GRWL_PRESS."
Polled(i) == owed' = IF i \in heard THEN owed ELSE owed \ {i}

GetKey(k) ==
    /\ keys' = [keys EXCEPT ![k] = IF @ = "stick" THEN "release" ELSE @]
    /\ Polled(k)
    /\ UNCHANGED <<mouseButtons, modes, focused, visiting, down, heard>>

GetMouseButton(b) ==
    /\ mouseButtons' = [mouseButtons EXCEPT ![b] = IF @ = "stick" THEN "release"
                                                                  ELSE @]
    /\ Polled(b)
    /\ UNCHANGED <<keys, modes, focused, visiting, down, heard>>

\* Leaving a sticky mode releases what only stuck.
Unstick(cached) ==
    [i \in DOMAIN cached |-> IF cached[i] = "stick" THEN "release" ELSE cached[i]]

SetStickyKeys ==
    /\ stickyKeys' = ~stickyKeys
    /\ keys' = IF stickyKeys THEN Unstick(keys) ELSE keys
    /\ owed' = IF stickyKeys THEN owed \ (Key \ heard) ELSE owed
    /\ UNCHANGED <<mouseButtons, stickyMouseButtons, focused, visiting, down, heard>>

SetStickyMouseButtons ==
    /\ stickyMouseButtons' = ~stickyMouseButtons
    /\ mouseButtons' = IF stickyMouseButtons THEN Unstick(mouseButtons)
                                             ELSE mouseButtons
    /\ owed' = IF stickyMouseButtons THEN owed \ (Button \ heard) ELSE owed
    /\ UNCHANGED <<keys, stickyKeys, focused, visiting, down, heard>>

-----------------------------------------------------------------------------
Next ==
    \/ \E k \in Key : KeyPress(k) \/ KeyRelease(k) \/ VisitKey(k) \/ GetKey(k)
    \/ \E b \in Button :
         ButtonPress(b) \/ ButtonRelease(b) \/ VisitButton(b) \/ GetMouseButton(b)
    \/ FocusIn
    \/ FocusOut
    \/ SetStickyKeys
    \/ SetStickyMouseButtons

Spec == Init /\ [][Next]_vars

-----------------------------------------------------------------------------
(* Properties *)

(***************************************************************************)
(* grwlGetKey reports a press if and only if one is owed: with sticky keys *)
(* "the pollable state of a key will remain GRWL_PRESS until the state of  *)
(* that key is polled" (docs/input.dox) and no longer, whatever focus      *)
(* changes, repeats, second releases and mode changes come in between.     *)
(***************************************************************************)
KeyPolledAsOwed == \A k \in Key : k \in owed <=> keys[k] # "release"

(***************************************************************************)
(* No press of a mouse button is lost to polling with sticky mouse buttons *)
(* (_grwlInputMouseClick, grwlGetMouseButton).                             *)
(***************************************************************************)
ButtonPressKept == \A b \in Button : b \in owed => mouseButtons[b] # "release"

(***************************************************************************)
(* "When a window loses input focus, it will generate synthetic key        *)
(* release events for all pressed keys" (GRWL/grwl.h, grwlSetKeyCallback): *)
(* a window that has processed the loss of the focus has no key that is    *)
(* pressed, neither for polling nor for the callback.                      *)
(***************************************************************************)
UnfocusedKeysUp ==
    ~focused /\ visiting = {} =>
        \A k \in Key : keys[k] # "press" /\ k \notin heard

=============================================================================
