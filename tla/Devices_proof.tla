--------------------------- MODULE Devices_proof ---------------------------
(***************************************************************************)
(* What polling reports, for any set of keys and mouse buttons; the        *)
(* keyboard and the pointer of a seat on Wayland, for any number of        *)
(* windows and keys and however many events are on their way; and the      *)
(* joysticks of Win32 and macOS, for any number of slots and devices.      *)
(***************************************************************************)
EXTENDS MC_Devices, Naturals, Sequences, FiniteSetTheorems, SequenceTheorems,
        WellFoundedInduction, TLAPS

(***************************************************************************)
(* The strengthening.  The callback and the cache agree on which keys are  *)
(* pressed, what only stuck does so in a sticky mode, and what is pressed  *)
(* is owed.                                                                *)
(***************************************************************************)
KeysAgree ==
    \A k \in Key :
        /\ k \in heard <=> keys[k] = "press"
        /\ keys[k] = "stick" => stickyKeys
        /\ k \in owed <=> keys[k] # "release"

ButtonsAgree ==
    \A b \in Button :
        /\ b \in heard <=> mouseButtons[b] = "press"
        /\ b \in owed => mouseButtons[b] # "release"
        /\ mouseButtons[b] = "press" => b \in owed

\* A focus loss leaves no key it has visited pressed.
VisitedKeysUp ==
    ~focused => \A k \in Key \ visiting : keys[k] # "press"

IInv ==
    /\ TypeOK
    /\ KeysAgree
    /\ ButtonsAgree
    /\ VisitedKeysUp
    /\ focused => visiting = {}

LEMMA InitIInv == Init => IInv
BY DEF Init, IInv, TypeOK, KeysAgree, ButtonsAgree, VisitedKeysUp, Cached, Action,
       Input

\* What _grwlInputKey does to its key, and that it leaves the others alone.
LEMMA InputKeyEffect ==
    ASSUME IInv, NEW k \in Key, NEW action \in Action, InputKey(k, action),
           UNCHANGED <<mouseButtons, modes>>
    PROVE  /\ keys' \in [Key -> Cached]
           /\ heard' \in SUBSET Input
           /\ owed' \in SUBSET Input
           /\ KeysAgree'
           /\ ButtonsAgree'
           /\ \A j \in Key \ {k} : keys'[j] = keys[j]
           /\ action = "release" => keys'[k] # "press"
<1>1. k \notin Button /\ k \in Input
  BY InputAssumption DEF Input
<1>2. CASE action = "release" /\ keys[k] = "release"
  BY <1>2 DEF InputKey, history, modes, IInv, TypeOK, KeysAgree, ButtonsAgree
<1>3. CASE ~(action = "release" /\ keys[k] = "release")
  <2>1. /\ keys' = [keys EXCEPT ![k] = Stored(action, stickyKeys)]
        /\ Told(k, action, stickyKeys)
    BY <1>3 DEF InputKey
  <2>2. Stored(action, stickyKeys) \in Cached
    BY DEF Stored, Cached, Action
  <2>3. /\ keys' \in [Key -> Cached]
        /\ keys'[k] = Stored(action, stickyKeys)
        /\ \A j \in Key \ {k} : keys'[j] = keys[j]
    BY <2>1, <2>2 DEF IInv, TypeOK
  <2>4. heard' \in SUBSET Input /\ owed' \in SUBSET Input
    BY <1>1, <2>1 DEF Told, IInv, TypeOK
  <2>5. \A i \in Input \ {k} : (i \in heard' <=> i \in heard)
                               /\ (i \in owed' <=> i \in owed)
    BY <2>1 DEF Told
  <2>6. ButtonsAgree'
    BY <1>1, <2>5 DEF ButtonsAgree, IInv, Input
  <2>7. KeysAgree'
    <3>1. ASSUME NEW j \in Key \ {k}
          PROVE  /\ j \in heard' <=> keys'[j] = "press"
                 /\ keys'[j] = "stick" => stickyKeys'
                 /\ j \in owed' <=> keys'[j] # "release"
      BY <2>3, <2>5 DEF KeysAgree, IInv, Input, modes
    <3>2. /\ k \in heard' <=> keys'[k] = "press"
          /\ keys'[k] = "stick" => stickyKeys'
          /\ k \in owed' <=> keys'[k] # "release"
      BY <1>3, <2>1, <2>3 DEF KeysAgree, IInv, Told, Stored, Action, modes
    <3>3. QED
      BY <3>1, <3>2 DEF KeysAgree
  <2>8. action = "release" => keys'[k] # "press"
    BY <2>3 DEF Stored
  <2>9. QED
    BY <2>3, <2>4, <2>6, <2>7, <2>8
<1>4. QED
  BY <1>2, <1>3

LEMMA InputMouseClickEffect ==
    ASSUME IInv, NEW b \in Button, NEW action \in Action,
           InputMouseClick(b, action), UNCHANGED <<keys, modes>>
    PROVE  /\ mouseButtons' \in [Button -> Cached]
           /\ heard' \in SUBSET Input
           /\ owed' \in SUBSET Input
           /\ KeysAgree'
           /\ ButtonsAgree'
<1>1. b \notin Key /\ b \in Input
  BY InputAssumption DEF Input
<1>2. /\ mouseButtons' = [mouseButtons EXCEPT ![b] = Stored(action, stickyMouseButtons)]
      /\ Told(b, action, stickyMouseButtons)
  BY DEF InputMouseClick
<1>3. Stored(action, stickyMouseButtons) \in Cached
  BY DEF Stored, Cached, Action
<1>4. /\ mouseButtons' \in [Button -> Cached]
      /\ mouseButtons'[b] = Stored(action, stickyMouseButtons)
      /\ \A c \in Button \ {b} : mouseButtons'[c] = mouseButtons[c]
  BY <1>2, <1>3 DEF IInv, TypeOK
<1>5. heard' \in SUBSET Input /\ owed' \in SUBSET Input
  BY <1>1, <1>2 DEF Told, IInv, TypeOK
<1>6. \A i \in Input \ {b} : (i \in heard' <=> i \in heard)
                             /\ (i \in owed' <=> i \in owed)
  BY <1>2 DEF Told
<1>7. KeysAgree'
  BY <1>1, <1>6 DEF KeysAgree, IInv, Input, modes
<1>8. ButtonsAgree'
  <2>1. ASSUME NEW c \in Button \ {b}
        PROVE  /\ c \in heard' <=> mouseButtons'[c] = "press"
               /\ c \in owed' => mouseButtons'[c] # "release"
               /\ mouseButtons'[c] = "press" => c \in owed'
    BY <1>4, <1>6 DEF ButtonsAgree, IInv, Input
  <2>2. /\ b \in heard' <=> mouseButtons'[b] = "press"
        /\ b \in owed' => mouseButtons'[b] # "release"
        /\ mouseButtons'[b] = "press" => b \in owed'
    BY <1>2, <1>4 DEF Told, Stored, Action
  <2>3. QED
    BY <2>1, <2>2 DEF ButtonsAgree
<1>9. QED
  BY <1>4, <1>5, <1>7, <1>8

LEMMA NextIInv == IInv /\ [Next]_vars => IInv'
<1> SUFFICES ASSUME IInv, [Next]_vars PROVE IInv'
  OBVIOUS
<1>1. ASSUME NEW k \in Key, KeyPress(k) PROVE IInv'
  <2>1. /\ keys' \in [Key -> Cached] /\ heard' \in SUBSET Input
        /\ owed' \in SUBSET Input /\ KeysAgree' /\ ButtonsAgree'
    BY <1>1, InputKeyEffect DEF KeyPress, Action
  <2>2. QED
    BY <1>1, <2>1 DEF KeyPress, IInv, TypeOK, VisitedKeysUp, modes, Input
<1>2. ASSUME NEW k \in Key, KeyRelease(k) PROVE IInv'
  <2>1. /\ keys' \in [Key -> Cached] /\ heard' \in SUBSET Input
        /\ owed' \in SUBSET Input /\ KeysAgree' /\ ButtonsAgree'
    BY <1>2, InputKeyEffect DEF KeyRelease, Action
  <2>2. QED
    BY <1>2, <2>1 DEF KeyRelease, IInv, TypeOK, VisitedKeysUp, modes
<1>3. ASSUME NEW k \in Key, VisitKey(k) PROVE IInv'
  <2>1. CASE keys[k] = "press"
    <3>1. /\ keys' \in [Key -> Cached] /\ heard' \in SUBSET Input
          /\ owed' \in SUBSET Input /\ KeysAgree' /\ ButtonsAgree'
          /\ \A j \in Key \ {k} : keys'[j] = keys[j]
          /\ keys'[k] # "press"
      BY <1>3, <2>1, InputKeyEffect DEF VisitKey, Action
    <3>2. QED
      BY <1>3, <3>1 DEF VisitKey, IInv, TypeOK, VisitedKeysUp, modes
  <2>2. CASE keys[k] # "press"
    <3>1. UNCHANGED <<keys, mouseButtons, modes, focused, down, history>>
          /\ visiting' = visiting \ {k}
      BY <1>3, <2>2 DEF VisitKey
    <3>2. QED
      BY <2>2, <3>1 DEF IInv, TypeOK, KeysAgree, ButtonsAgree, VisitedKeysUp,
         modes, history
  <2>3. QED
    BY <2>1, <2>2
<1>4. ASSUME NEW k \in Key, GetKey(k) PROVE IInv'
  <2>1. /\ keys' \in [Key -> Cached]
        /\ \A j \in Key \ {k} : keys'[j] = keys[j]
        /\ keys'[k] = IF keys[k] = "stick" THEN "release" ELSE keys[k]
    BY <1>4 DEF GetKey, IInv, TypeOK, Cached, Action
  <2>2. /\ owed' \in SUBSET Input
        /\ \A i \in Input \ {k} : i \in owed' <=> i \in owed
        /\ k \in owed' <=> k \in owed /\ k \in heard
    BY <1>4 DEF GetKey, Polled, IInv, TypeOK
  <2>3. UNCHANGED <<mouseButtons, modes, focused, visiting, down, heard>>
    BY <1>4 DEF GetKey
  <2>4. KeysAgree'
    <3>1. ASSUME NEW j \in Key
          PROVE  /\ j \in heard' <=> keys'[j] = "press"
                 /\ j \in owed' <=> keys'[j] # "release"
      <4>1. keys[j] \in Cached
        BY DEF IInv, TypeOK
      <4>2. QED
        BY <2>1, <2>2, <2>3, <4>1 DEF IInv, KeysAgree, Input, Cached, Action
    <3>2. ASSUME NEW j \in Key, keys'[j] = "stick" PROVE stickyKeys'
      <4>1. keys[j] = "stick"
        BY <2>1, <3>2
      <4>2. stickyKeys
        BY <4>1 DEF IInv, KeysAgree
      <4>3. QED
        BY <4>2, <2>3 DEF modes
    <3>3. QED
      BY <3>1, <3>2 DEF KeysAgree
  <2>5. ButtonsAgree'
    BY <2>2, <2>3, InputAssumption DEF IInv, ButtonsAgree, Input
  <2>6. VisitedKeysUp'
    BY <2>1, <2>3 DEF IInv, VisitedKeysUp
  <2>7. QED
    BY <2>1, <2>2, <2>3, <2>4, <2>5, <2>6 DEF IInv, TypeOK, modes
<1>5. ASSUME NEW b \in Button, ButtonPress(b) PROVE IInv'
  <2>1. /\ mouseButtons' \in [Button -> Cached] /\ heard' \in SUBSET Input
        /\ owed' \in SUBSET Input /\ KeysAgree' /\ ButtonsAgree'
    BY <1>5, InputMouseClickEffect DEF ButtonPress, Action
  <2>2. QED
    BY <1>5, <2>1 DEF ButtonPress, IInv, TypeOK, VisitedKeysUp, modes, Input
<1>6. ASSUME NEW b \in Button, ButtonRelease(b) PROVE IInv'
  <2>1. /\ mouseButtons' \in [Button -> Cached] /\ heard' \in SUBSET Input
        /\ owed' \in SUBSET Input /\ KeysAgree' /\ ButtonsAgree'
    BY <1>6, InputMouseClickEffect DEF ButtonRelease, Action
  <2>2. QED
    BY <1>6, <2>1 DEF ButtonRelease, IInv, TypeOK, VisitedKeysUp, modes
<1>7. ASSUME NEW b \in Button, VisitButton(b) PROVE IInv'
  <2>1. CASE mouseButtons[b] = "press"
    <3>1. /\ mouseButtons' \in [Button -> Cached] /\ heard' \in SUBSET Input
          /\ owed' \in SUBSET Input /\ KeysAgree' /\ ButtonsAgree'
      BY <1>7, <2>1, InputMouseClickEffect DEF VisitButton, Action
    <3>2. QED
      BY <1>7, <3>1, InputAssumption
         DEF VisitButton, IInv, TypeOK, VisitedKeysUp, modes
  <2>2. CASE mouseButtons[b] # "press"
    <3>1. UNCHANGED <<keys, mouseButtons, modes, focused, down, history>>
          /\ visiting' = visiting \ {b}
      BY <1>7, <2>2 DEF VisitButton
    <3>2. QED
      BY <3>1, InputAssumption DEF IInv, TypeOK, KeysAgree, ButtonsAgree,
         VisitedKeysUp, modes, history
  <2>3. QED
    BY <2>1, <2>2
<1>8. ASSUME NEW b \in Button, GetMouseButton(b) PROVE IInv'
  <2>1. /\ mouseButtons' \in [Button -> Cached]
        /\ \A c \in Button \ {b} : mouseButtons'[c] = mouseButtons[c]
        /\ mouseButtons'[b] = IF mouseButtons[b] = "stick" THEN "release"
                                                           ELSE mouseButtons[b]
    BY <1>8 DEF GetMouseButton, IInv, TypeOK, Cached, Action
  <2>2. /\ owed' \in SUBSET Input
        /\ \A i \in Input \ {b} : i \in owed' <=> i \in owed
        /\ b \in owed' <=> b \in owed /\ b \in heard
    BY <1>8 DEF GetMouseButton, Polled, IInv, TypeOK
  <2>3. UNCHANGED <<keys, modes, focused, visiting, down, heard>>
    BY <1>8 DEF GetMouseButton
  <2>4. KeysAgree'
    BY <2>2, <2>3, InputAssumption DEF IInv, KeysAgree, modes, Input
  <2>5. ButtonsAgree'
    BY <2>1, <2>2, <2>3 DEF IInv, ButtonsAgree, Input
  <2>6. QED
    BY <2>1, <2>2, <2>3, <2>4, <2>5 DEF IInv, TypeOK, VisitedKeysUp, modes
<1>9. CASE FocusIn
  BY <1>9 DEF FocusIn, IInv, TypeOK, KeysAgree, ButtonsAgree, VisitedKeysUp,
     modes, history
<1>10. CASE FocusOut
  BY <1>10 DEF FocusOut, IInv, TypeOK, KeysAgree, ButtonsAgree, VisitedKeysUp,
     modes, history, Input
<1>11. CASE SetStickyKeys
  <2>1. /\ keys' \in [Key -> Cached]
        /\ \A k \in Key : keys'[k] = IF stickyKeys /\ keys[k] = "stick"
                                       THEN "release" ELSE keys[k]
    BY <1>11 DEF SetStickyKeys, Unstick, IInv, TypeOK, Cached, Action
  <2>2. /\ owed' \in SUBSET Input
        /\ \A b \in Button : b \in owed' <=> b \in owed
        /\ \A k \in Key : k \in owed' <=> k \in owed /\ (stickyKeys => k \in heard)
    BY <1>11, InputAssumption DEF SetStickyKeys, IInv, TypeOK
  <2>3. /\ stickyKeys' = ~stickyKeys
        /\ UNCHANGED <<mouseButtons, stickyMouseButtons, focused, visiting, down,
                       heard>>
    BY <1>11 DEF SetStickyKeys
  <2>4. KeysAgree'
    <3>1. ASSUME NEW k \in Key
          PROVE  /\ k \in heard' <=> keys'[k] = "press"
                 /\ k \in owed' <=> keys'[k] # "release"
      <4>1. keys[k] \in Cached
        BY DEF IInv, TypeOK
      <4>2. CASE stickyKeys
        BY <2>1, <2>2, <2>3, <4>1, <4>2 DEF IInv, KeysAgree, Cached, Action
      <4>3. CASE ~stickyKeys
        BY <2>1, <2>2, <2>3, <4>3 DEF IInv, KeysAgree
      <4>4. QED
        BY <4>2, <4>3
    <3>2. ASSUME NEW k \in Key, keys'[k] = "stick" PROVE stickyKeys'
      <4>1. ~stickyKeys
        <5>1. SUFFICES ASSUME stickyKeys PROVE FALSE
          OBVIOUS
        <5>2. keys[k] = "stick"
          BY <2>1, <3>2
        <5>3. QED
          BY <2>1, <3>2, <5>1, <5>2
      <4>2. QED
        BY <2>3, <4>1
    <3>3. QED
      BY <3>1, <3>2 DEF KeysAgree
  <2>5. ButtonsAgree'
    BY <2>2, <2>3 DEF IInv, ButtonsAgree
  <2>6. QED
    BY <2>1, <2>2, <2>3, <2>4, <2>5 DEF IInv, TypeOK, VisitedKeysUp
<1>12. CASE SetStickyMouseButtons
  <2>1. /\ mouseButtons' \in [Button -> Cached]
        /\ \A b \in Button :
             mouseButtons'[b] = IF stickyMouseButtons /\ mouseButtons[b] = "stick"
                                  THEN "release" ELSE mouseButtons[b]
    BY <1>12 DEF SetStickyMouseButtons, Unstick, IInv, TypeOK, Cached, Action
  <2>2. /\ owed' \in SUBSET Input
        /\ \A k \in Key : k \in owed' <=> k \in owed
        /\ \A b \in Button :
             b \in owed' <=> b \in owed /\ (stickyMouseButtons => b \in heard)
    BY <1>12, InputAssumption DEF SetStickyMouseButtons, IInv, TypeOK
  <2>3. /\ stickyMouseButtons' = ~stickyMouseButtons
        /\ UNCHANGED <<keys, stickyKeys, focused, visiting, down, heard>>
    BY <1>12 DEF SetStickyMouseButtons
  <2>4. KeysAgree' /\ ButtonsAgree'
    BY <2>1, <2>2, <2>3 DEF IInv, KeysAgree, ButtonsAgree
  <2>5. QED
    BY <2>1, <2>2, <2>3, <2>4 DEF IInv, TypeOK, VisitedKeysUp
<1>13. CASE UNCHANGED vars
  BY <1>13 DEF vars, modes, history, IInv, TypeOK, KeysAgree, ButtonsAgree,
     VisitedKeysUp
<1>14. QED
  BY <1>1, <1>2, <1>3, <1>4, <1>5, <1>6, <1>7, <1>8, <1>9, <1>10, <1>11, <1>12,
     <1>13 DEF Next

LEMMA IInvHolds == DevicesSpec => []IInv
<1>1. DevicesInit => Init
  BY DEF DevicesInit
<1>2. [DevicesNext]_<<subject, vars, controllers, seatVars>> => [Next]_vars
  BY DEF DevicesNext
<1>3. QED
  BY <1>1, <1>2, InitIInv, NextIInv, PTL DEF DevicesSpec

\* The cached keys and buttons keep their types, in the middle of a focus loss too.
THEOREM TypeCorrect == DevicesSpec => []TypeOK
<1>1. IInv => TypeOK
  BY DEF IInv
<1>2. QED
  BY <1>1, IInvHolds, PTL

\* grwlGetKey reports a press exactly when one is owed.
THEOREM KeyPolling == DevicesSpec => []KeyPolledAsOwed
<1>1. IInv => KeyPolledAsOwed
  BY DEF IInv, KeysAgree, KeyPolledAsOwed
<1>2. QED
  BY <1>1, IInvHolds, PTL

\* grwlGetMouseButton loses no press.
THEOREM ButtonPolling == DevicesSpec => []ButtonPressKept
<1>1. IInv => ButtonPressKept
  BY DEF IInv, ButtonsAgree, ButtonPressKept
<1>2. QED
  BY <1>1, IInvHolds, PTL

\* A window without the focus has no key that is pressed.
THEOREM FocusLossReleases == DevicesSpec => []UnfocusedKeysUp
<1>1. IInv => UnfocusedKeysUp
  BY DEF IInv, KeysAgree, VisitedKeysUp, UnfocusedKeysUp
<1>2. QED
  BY <1>1, IInvHolds, PTL

--------------------------------------------------------------------------------
(* Keyboard and pointer on Wayland *)

\* The events that are sent and not dispatched yet.
Coming == queue \o wire

OfFocus(e) == e.type \notin {"key", "caps", "done"}
Moves(e) == e.type = "kleave" \/ (e.type = "kenter" /\ e.window # NoWindow)
MovesTo(e) == IF e.type = "kenter" THEN e.window ELSE NoWindow

\* The first i events of q leave the keyboard focus, which was on from, on w.
FocusAfter(q, i, from, w) ==
    \/ from = w /\ \A k \in 1..i : ~Moves(q[k])
    \/ \E j \in 1..i : /\ Moves(q[j]) /\ MovesTo(q[j]) = w
                       /\ \A k \in (j + 1)..i : ~Moves(q[k])

\* A window gets the focus when no other has it, and the compositor and the library
\* agree on who has it once the events are dispatched, unless the keyboard has gone.
FocusFollows(q, from, to) ==
    /\ \A i \in 1..Len(q) :
          q[i].type = "kenter" /\ q[i].window # NoWindow
            => FocusAfter(q, i - 1, from, NoWindow)
    /\ \/ FocusAfter(q, Len(q), from, to)
       \/ /\ to = NoWindow
          /\ \E i \in 1..Len(q) : /\ q[i].type = "caps" /\ ~q[i].keyboard
                                  /\ \A k \in (i + 1)..Len(q) : ~Moves(q[k])

\* The pointer enters nothing while it is not known whether there is one.
EntersAfterDevices(q) ==
    \A i, j \in 1..Len(q) : i < j /\ q[i].type = "caps" => q[j].type # "penter"
PointerIsBound(q, bound) == (\E i \in 1..Len(q) : q[i].type = "penter") => bound
NamesOpenWindows(q, open) ==
    \A i \in 1..Len(q) : OfFocus(q[i]) => q[i].window \in open \union {NoWindow}

Open == {w \in Window : win[w].open}

\* The key that the timer repeats is one of the window with the focus.
RepeatsPressed ==
    /\ keyboard.expired => keyboard.armed
    /\ keyboard.armed =>
         \/ keyboard.scancode \in strayed
         \/ keyboard.focus # NoWindow /\ keyboard.scancode \in told[keyboard.focus]

\* The window that the pointer is over is the one that the library takes it for.
PointerIsOver ==
    over.window # NoWindow =>
        /\ pointer.bound /\ pointer.focus = over.window
        /\ win[over.window].part = over.part
        /\ over.part = "main" => win[over.window].lock = S!LockOf(win[over.window].mode)
        /\ over.part = "main" /\ win[over.window].mode \in {"normal", "captured"}
             => pointer.shown = win[over.window].current

CursorsRemembered == \A w \in Window : ~win[w].missed => win[w].current = win[w].cursor

KeyboardRecord ==
    [bound : BOOLEAN, focus : Window \union {NoWindow}, scancode : SeatKey \union {NoKey},
     armed : BOOLEAN, expired : BOOLEAN]
PointerRecord ==
    [bound : BOOLEAN, focus : Window \union {NoWindow}, named : BOOLEAN,
     shown : S!Image, timer : BOOLEAN, expired : BOOLEAN]
SeatRecord ==
    [devices : Devices, keyboard : BOOLEAN, pointer : BOOLEAN,
     focus : Window \union {NoWindow}, held : SUBSET SeatKey, at : S!Place]
LoopRecord == [phase : S!Phase, ready : SUBSET S!Timer, event : BOOLEAN]

Plain ==
    /\ keyboard \in KeyboardRecord /\ pointer \in PointerRecord
    /\ pressed \in [Window -> SUBSET SeatKey]
    /\ win \in [Window -> S!WindowRecord]
    /\ loop \in LoopRecord
    /\ wire \in Seq(S!Event) /\ queue \in Seq(S!Event)
    /\ Len(wire) + Len(queue) <= S!MaxEvents
    /\ seat \in SeatRecord
    /\ told \in [Window -> SUBSET SeatKey]
    /\ over \in S!Place
    /\ strayed \in SUBSET SeatKey
    /\ failed \in BOOLEAN

FocusIsOpen ==
    /\ {keyboard.focus, pointer.focus, seat.focus, seat.at.window}
         \subseteq Open \union {NoWindow}
    /\ \A w \in Window : ~win[w].open => win[w] = S!NoSuchWindow

KeyboardInv ==
    /\ S!PressedIsDown /\ RepeatsPressed
    /\ strayed # SeatKey => FocusFollows(Coming, keyboard.focus, seat.focus)
PointerInv ==
    /\ EntersAfterDevices(Coming) /\ PointerIsBound(Coming, pointer.bound)
    /\ PointerIsOver /\ CursorsRemembered

SeatInv ==
    /\ Plain /\ FocusIsOpen
    /\ NamesOpenWindows(Coming, Open)
    /\ loop.phase = "poll" => queue = <<>>
    /\ KeyboardInv /\ PointerInv

--------------------------------------------------------------------------------
LEMMA ComingIs ==
  ASSUME Plain
  PROVE  /\ Coming \in Seq(S!Event) /\ Len(Coming) = Len(queue) + Len(wire)
         /\ Len(Coming) \in Nat /\ Len(queue) \in Nat /\ Len(wire) \in Nat
         /\ \A i \in 1..Len(Coming) :
              Coming[i] = IF i <= Len(queue) THEN queue[i] ELSE wire[i - Len(queue)]
<1>1. queue \in Seq(S!Event) /\ wire \in Seq(S!Event)
  BY DEF Plain
<1>2. QED
  BY <1>1 DEF Coming

LEMMA SeatInvAgrees ==
  ASSUME SeatInv
  PROVE  SeatAgrees
<1>1. Plain /\ FocusIsOpen
  BY DEF SeatInv
<1>2. ASSUME NEW w \in Window, ~win[w].open
      PROVE  /\ keyboard.focus # w /\ pointer.focus # w /\ win[w] = S!NoSuchWindow
             /\ \A i \in 1..Len(queue) : queue[i].type \notin {"key", "caps", "done"} =>
                   queue[i].window # w
  <2>1. w # NoWindow
    BY SeatIsASeat DEF S!SeatAssumption
  <2>2. \A i \in 1..Len(queue) : i \in 1..Len(Coming) /\ Coming[i] = queue[i]
    BY <1>1, ComingIs
  <2>3. QED
    BY <1>1, <1>2, <2>1, <2>2 DEF FocusIsOpen, SeatInv, NamesOpenWindows, OfFocus, Open
<1>3. S!TypeOK
  BY <1>1, <1>2 DEF Plain, S!TypeOK, KeyboardRecord, PointerRecord, SeatRecord,
                       LoopRecord
<1>4. ASSUME NEW w \in Window, over = [window |-> w, part |-> "main"]
      PROVE  /\ win[w].lock = S!LockOf(win[w].mode)
             /\ win[w].mode \in {"normal", "captured"} /\ ~win[w].missed
                  => pointer.shown = win[w].cursor
  <2>1. over.window = w /\ over.part = "main" /\ w # NoWindow
    BY <1>4, SeatIsASeat DEF S!SeatAssumption
  <2>2. QED
    BY <2>1 DEF SeatInv, PointerInv, PointerIsOver, CursorsRemembered
<1>5. S!LockFollowsMode /\ S!CursorShown
  BY <1>4 DEF S!LockFollowsMode, S!CursorShown
<1>6. QED
  BY <1>3, <1>5 DEF SeatAgrees, SeatInv, KeyboardInv

LEMMA SeatInit ==
  ASSUME S!Init
  PROVE  SeatInv
<1> USE SeatIsASeat DEF S!SeatAssumption
<1>1. /\ keyboard = [bound |-> FALSE, focus |-> NoWindow, scancode |-> NoKey,
                     armed |-> FALSE, expired |-> FALSE]
      /\ pointer = [bound |-> FALSE, focus |-> NoWindow, named |-> FALSE,
                    shown |-> "undefined", timer |-> FALSE, expired |-> FALSE]
      /\ pressed = [w \in Window |-> {}] /\ told = [w \in Window |-> {}]
      /\ win = [w \in Window |-> S!NoSuchWindow] /\ loop = S!Idle
      /\ wire = <<>> /\ queue = <<>> /\ over = S!Nowhere
      /\ strayed = {} /\ failed = FALSE
  BY DEF S!Init
<1>8. ~keyboard.bound /\ ~pointer.bound /\ keyboard.bound = FALSE /\ pointer.bound = FALSE
  BY <1>1
<1>2. PICK d \in Devices :
        seat = [devices |-> d, keyboard |-> FALSE, pointer |-> FALSE,
                focus |-> NoWindow, held |-> {}, at |-> S!Nowhere]
  BY <1>8 DEF S!Init
<1>3. S!NoSuchWindow \in S!WindowRecord /\ ~S!NoSuchWindow.missed
      /\ S!NoSuchWindow.current = S!NoSuchWindow.cursor
  BY DEF S!NoSuchWindow, S!NewWindow, S!WindowRecord, S!Mode, S!Surface
<1>4. S!Idle \in [phase : S!Phase, ready : SUBSET S!Timer, event : BOOLEAN]
      /\ S!Idle.phase = "app"
  BY DEF S!Idle, S!Phase, S!Timer
<1>5. Plain
  <2>1. keyboard \in [bound : BOOLEAN, focus : Window \union {NoWindow},
                      scancode : SeatKey \union {NoKey}, armed : BOOLEAN, expired : BOOLEAN]
    BY <1>1
  <2>2. pointer \in [bound : BOOLEAN, focus : Window \union {NoWindow}, named : BOOLEAN,
                     shown : S!Image, timer : BOOLEAN, expired : BOOLEAN]
    BY <1>1 DEF S!Image
  <2>3. S!Nowhere \in S!Place
    BY DEF S!Place
  <2>4. seat \in [devices : Devices, keyboard : BOOLEAN, pointer : BOOLEAN,
                  focus : Window \union {NoWindow}, held : SUBSET SeatKey, at : S!Place]
    BY <1>2, <2>3
  <2>5. S!MaxEvents \in Nat /\ Len(wire) = 0 /\ Len(queue) = 0
    BY <1>1 DEF S!MaxEvents
  <2>6. wire \in Seq(S!Event) /\ queue \in Seq(S!Event)
    BY <1>1
  <2>7. failed \in BOOLEAN
    BY <1>1
  <2>8. /\ pressed \in [Window -> SUBSET SeatKey] /\ told \in [Window -> SUBSET SeatKey]
        /\ win \in [Window -> S!WindowRecord] /\ over \in S!Place
        /\ strayed \in SUBSET SeatKey
    BY <1>1, <1>3, <2>3
  <2>9. loop \in [phase : S!Phase, ready : SUBSET S!Timer, event : BOOLEAN]
        /\ Len(wire) + Len(queue) <= S!MaxEvents
    BY <1>1, <1>4, <2>5
  <2>10. QED
    BY <2>1, <2>2, <2>4, <2>6, <2>7, <2>8, <2>9
       DEF Plain, KeyboardRecord, PointerRecord, SeatRecord, LoopRecord
<1>6. Coming = <<>> /\ Len(Coming) = 0
  BY <1>1 DEF Coming
<1>7. QED
  BY <1>1, <1>2, <1>3, <1>4, <1>5, <1>6
     DEF SeatInv, KeyboardInv, PointerInv, Open, FocusIsOpen, NamesOpenWindows, S!PressedIsDown, RepeatsPressed,
         FocusFollows, FocusAfter, EntersAfterDevices, PointerIsBound, PointerIsOver,
         CursorsRemembered, S!Nowhere

\* What the dispatch of an event, a new event and the end of a surface do to the
\* events that are still to come.
LEMMA TailOfComing ==
  ASSUME Plain, queue # <<>>, queue' = Tail(queue), wire' = wire
  PROVE  /\ Len(Coming) >= 1 /\ Head(queue) = Coming[1] /\ Coming[1] \in S!Event
         /\ Len(Coming') = Len(Coming) - 1 /\ Len(Coming) \in Nat
         /\ \A i \in 1..Len(Coming') : Coming'[i] = Coming[i + 1]
         /\ queue' \in Seq(S!Event) /\ wire' \in Seq(S!Event)
         /\ Len(wire') + Len(queue') <= S!MaxEvents
<1>1. queue \in Seq(S!Event) /\ wire \in Seq(S!Event) /\ Len(queue) >= 1
  BY DEF Plain
<1>2. queue' \in Seq(S!Event) /\ Len(queue') = Len(queue) - 1
      /\ \A i \in 1..Len(queue') : queue'[i] = queue[i + 1]
  BY <1>1
<1>3. Len(queue) \in Nat /\ Len(wire) \in Nat /\ Len(wire) + Len(queue) <= S!MaxEvents
      /\ S!MaxEvents \in Nat
  BY <1>1, SeatIsASeat DEF Plain, S!SeatAssumption, S!MaxEvents
<1>4. Coming \in Seq(S!Event) /\ Len(Coming) = Len(queue) + Len(wire)
      /\ \A i \in 1..Len(Coming) :
           Coming[i] = IF i <= Len(queue) THEN queue[i] ELSE wire[i - Len(queue)]
  BY <1>1 DEF Coming
<1>5. Len(Coming') = Len(queue') + Len(wire)
      /\ \A i \in 1..Len(Coming') :
           Coming'[i] = IF i <= Len(queue') THEN queue'[i] ELSE wire[i - Len(queue')]
  BY <1>1, <1>2 DEF Coming
<1>6. ASSUME NEW i \in 1..Len(Coming')
      PROVE  Coming'[i] = Coming[i + 1]
  <2>1. i \in 1..(Len(queue) - 1 + Len(wire)) /\ i + 1 \in 1..Len(Coming)
    BY <1>2, <1>3, <1>4, <1>5
  <2>2. CASE i <= Len(queue) - 1
    <3>1. i \in 1..Len(queue')
      BY <1>2, <1>3, <2>1, <2>2
    <3>2. Coming'[i] = queue'[i] /\ Coming[i + 1] = queue[i + 1]
      BY <1>2, <1>3, <1>4, <1>5, <2>1, <2>2, <3>1
    <3>3. QED
      BY <1>2, <3>1, <3>2
  <2>3. CASE ~(i <= Len(queue) - 1)
    <3>1. Coming'[i] = wire[i - Len(queue')] /\ Coming[i + 1] = wire[(i + 1) - Len(queue)]
      BY <1>2, <1>3, <1>4, <1>5, <2>1, <2>3
    <3>2. i - Len(queue') = (i + 1) - Len(queue)
      BY <1>2, <1>3, <2>1
    <3>3. QED
      BY <3>1, <3>2
  <2>4. QED
    BY <2>2, <2>3
<1>7. Head(queue) = Coming[1] /\ Coming[1] \in S!Event
  BY <1>1, <1>3, <1>4
<1>8. QED
  BY <1>1, <1>2, <1>3, <1>4, <1>5, <1>6, <1>7

LEMMA AppendToComing ==
  ASSUME Plain, NEW e \in S!Event, S!Send(e), queue' = queue
  PROVE  /\ Len(Coming') = Len(Coming) + 1 /\ Len(Coming) \in Nat
         /\ \A i \in 1..Len(Coming) : Coming'[i] = Coming[i]
         /\ Coming'[Len(Coming) + 1] = e
         /\ wire' \in Seq(S!Event) /\ queue' \in Seq(S!Event)
         /\ Len(wire') + Len(queue') <= S!MaxEvents
<1>1. queue \in Seq(S!Event) /\ wire \in Seq(S!Event) /\ wire' = Append(wire, e)
      /\ Len(wire) + Len(queue) < S!MaxEvents
  BY DEF Plain, S!Send, S!Pending
<1>2. wire' \in Seq(S!Event) /\ Len(wire') = Len(wire) + 1
      /\ wire'[Len(wire) + 1] = e
      /\ \A i \in 1..Len(wire) : wire'[i] = wire[i]
  BY <1>1
<1>3. Len(queue) \in Nat /\ Len(wire) \in Nat /\ S!MaxEvents \in Nat
  BY <1>1, SeatIsASeat DEF S!SeatAssumption, S!MaxEvents
<1>4. Len(Coming) = Len(queue) + Len(wire)
      /\ \A i \in 1..Len(Coming) :
           Coming[i] = IF i <= Len(queue) THEN queue[i] ELSE wire[i - Len(queue)]
  BY <1>1 DEF Coming
<1>5. Len(Coming') = Len(queue) + Len(wire')
      /\ \A i \in 1..Len(Coming') :
           Coming'[i] = IF i <= Len(queue) THEN queue[i] ELSE wire'[i - Len(queue)]
  BY <1>1, <1>2 DEF Coming
<1>6. ASSUME NEW i \in 1..Len(Coming)
      PROVE  Coming'[i] = Coming[i]
  <2>1. i \in 1..Len(Coming') /\ i \in Int /\ i <= Len(queue) + Len(wire)
    BY <1>2, <1>3, <1>4, <1>5
  <2>2. CASE i <= Len(queue)
    BY <1>4, <1>5, <2>1, <2>2
  <2>3. CASE ~(i <= Len(queue))
    <3>1. Coming'[i] = wire'[i - Len(queue)] /\ Coming[i] = wire[i - Len(queue)]
      BY <1>4, <1>5, <2>1, <2>3
    <3>2. i - Len(queue) \in 1..Len(wire)
      BY <1>3, <2>1, <2>3
    <3>3. QED
      BY <1>2, <3>1, <3>2
  <2>4. QED
    BY <2>2, <2>3
<1>7. Coming'[Len(Coming) + 1] = e
  BY <1>2, <1>3, <1>4, <1>5
<1>8. QED
  BY <1>1, <1>2, <1>3, <1>4, <1>5, <1>6, <1>7

LEMMA SameComing ==
  ASSUME Plain, queue' \o wire' = queue \o wire
  PROVE  Coming' = Coming
BY DEF Coming

\* The events after the end of w, or of its frame.
WithoutWindow(s, w) ==
    [i \in DOMAIN s |-> IF s[i].type \notin {"key", "caps", "done"} /\ s[i].window = w
                        THEN [s[i] EXCEPT !.window = NoWindow] ELSE s[i]]
WithoutFrame(s, w) ==
    [i \in DOMAIN s |->
       IF /\ s[i].type \notin {"key", "caps", "done"}
          /\ s[i].type # "kenter" /\ s[i].type # "kleave" /\ s[i].window = w
          /\ s[i].part = "frame"
       THEN [s[i] EXCEPT !.window = NoWindow] ELSE s[i]]

LEMMA OrphansWindow ==
  ASSUME NEW s \in Seq(S!Event), NEW w \in Window, NEW r,
         r = WithoutWindow(s, w)
  PROVE  /\ r \in Seq(S!Event) /\ Len(r) = Len(s)
         /\ \A i \in 1..Len(s) :
              /\ r[i].type = s[i].type
              /\ ~OfFocus(s[i]) => r[i] = s[i]
              /\ OfFocus(s[i]) =>
                   r[i].window = IF s[i].window = w THEN NoWindow ELSE s[i].window
<1>1. r = [i \in DOMAIN s |-> IF s[i].type \notin {"key", "caps", "done"} /\ s[i].window = w
                               THEN [s[i] EXCEPT !.window = NoWindow] ELSE s[i]]
  BY DEF WithoutWindow
<1>2. ASSUME NEW i \in 1..Len(s)
      PROVE  /\ r[i] \in S!Event
             /\ r[i].type = s[i].type
             /\ ~OfFocus(s[i]) => r[i] = s[i]
             /\ OfFocus(s[i]) =>
                  r[i].window = IF s[i].window = w THEN NoWindow ELSE s[i].window
  <2>1. s[i] \in S!Event /\ i \in DOMAIN s
    OBVIOUS
  <2>2. CASE ~OfFocus(s[i])
    BY <1>1, <2>1, <2>2 DEF OfFocus
  <2>3. CASE OfFocus(s[i])
    <3>1. s[i] \in S!FocusEvent
      BY <2>1, <2>3 DEF OfFocus, S!Event, S!KeyEvent, S!CapsEvent
    <3>2. r[i] = IF s[i].window = w THEN [s[i] EXCEPT !.window = NoWindow] ELSE s[i]
      BY <1>1, <2>1, <2>3 DEF OfFocus
    <3>3. r[i] \in S!FocusEvent /\ r[i].type = s[i].type
          /\ r[i].window = IF s[i].window = w THEN NoWindow ELSE s[i].window
      BY <3>1, <3>2 DEF S!FocusEvent
    <3>4. QED
      BY <2>3, <3>3 DEF S!Event
  <2>4. QED
    BY <2>2, <2>3
<1>3. Len(s) \in Nat /\ DOMAIN r = 1..Len(s)
  BY <1>1
<1>4. r \in Seq(S!Event) /\ Len(r) = Len(s)
  <2>1. r = [i \in 1..Len(s) |-> r[i]]
    BY <1>1, <1>3
  <2>2. r \in [1..Len(s) -> S!Event]
    BY <1>2, <2>1
  <2>3. r \in Seq(S!Event)
    BY <1>3, <2>2, SeqDef
  <2>4. QED
    BY <1>3, <2>3
<1>5. QED
  BY <1>2, <1>4

LEMMA OrphansFrame ==
  ASSUME NEW s \in Seq(S!Event), NEW w \in Window, NEW r,
         r = WithoutFrame(s, w)
  PROVE  /\ r \in Seq(S!Event) /\ Len(r) = Len(s)
         /\ \A i \in 1..Len(s) :
              /\ r[i].type = s[i].type
              /\ ~OfFocus(s[i]) \/ s[i].type \in {"kenter", "kleave"} => r[i] = s[i]
              /\ OfFocus(s[i]) =>
                   r[i].window = NoWindow \/ r[i].window = s[i].window
<1>1. r = [i \in DOMAIN s |->
             IF s[i].type \notin {"key", "caps", "done"}
                /\ s[i].type # "kenter" /\ s[i].type # "kleave" /\ s[i].window = w
                /\ s[i].part = "frame"
             THEN [s[i] EXCEPT !.window = NoWindow] ELSE s[i]]
  BY DEF WithoutFrame
<1>2. ASSUME NEW i \in 1..Len(s)
      PROVE  /\ r[i] \in S!Event
             /\ r[i].type = s[i].type
             /\ ~OfFocus(s[i]) \/ s[i].type \in {"kenter", "kleave"} => r[i] = s[i]
             /\ OfFocus(s[i]) =>
                  r[i].window = NoWindow \/ r[i].window = s[i].window
  <2>1. s[i] \in S!Event /\ i \in DOMAIN s
    OBVIOUS
  <2>2. QED
    BY <1>1, <2>1 DEF OfFocus, S!Event, S!KeyEvent, S!CapsEvent, S!FocusEvent
<1>3. Len(s) \in Nat /\ DOMAIN r = 1..Len(s)
  BY <1>1
<1>4. r \in Seq(S!Event) /\ Len(r) = Len(s)
  <2>1. r = [i \in 1..Len(s) |-> r[i]]
    BY <1>1, <1>3
  <2>2. r \in [1..Len(s) -> S!Event]
    BY <1>2, <2>1
  <2>3. r \in Seq(S!Event)
    BY <1>3, <2>2, SeqDef
  <2>4. QED
    BY <1>3, <2>3
<1>5. QED
  BY <1>2, <1>4

\* Events that keep their places and are changed one by one.
LEMMA ComingElementwise ==
  ASSUME Plain, wire' \in Seq(S!Event), queue' \in Seq(S!Event),
         Len(wire') = Len(wire), Len(queue') = Len(queue)
  PROVE  /\ Len(Coming') = Len(Coming) /\ Len(Coming) \in Nat
         /\ \A i \in 1..Len(Coming) :
              \/ \E j \in 1..Len(queue) : Coming[i] = queue[j] /\ Coming'[i] = queue'[j]
              \/ \E j \in 1..Len(wire) : Coming[i] = wire[j] /\ Coming'[i] = wire'[j]
<1>1. /\ Coming \in Seq(S!Event) /\ Len(Coming) = Len(queue) + Len(wire)
      /\ Len(Coming) \in Nat /\ Len(queue) \in Nat /\ Len(wire) \in Nat
      /\ \A i \in 1..Len(Coming) :
           Coming[i] = IF i <= Len(queue) THEN queue[i] ELSE wire[i - Len(queue)]
  BY ComingIs
<1>2. Len(Coming') = Len(queue) + Len(wire)
      /\ \A i \in 1..Len(Coming') :
           Coming'[i] = IF i <= Len(queue) THEN queue'[i] ELSE wire'[i - Len(queue)]
  BY DEF Coming
<1>3. ASSUME NEW i \in 1..Len(Coming)
      PROVE  \/ \E j \in 1..Len(queue) : Coming[i] = queue[j] /\ Coming'[i] = queue'[j]
             \/ \E j \in 1..Len(wire) : Coming[i] = wire[j] /\ Coming'[i] = wire'[j]
  <2>1. CASE i <= Len(queue)
    <3>1. i \in 1..Len(queue) /\ i \in 1..Len(Coming')
      BY <1>1, <1>2, <2>1
    <3>2. Coming[i] = queue[i] /\ Coming'[i] = queue'[i]
      BY <1>1, <1>2, <2>1, <3>1
    <3>3. QED
      BY <3>1, <3>2
  <2>2. CASE ~(i <= Len(queue))
    <3>1. i - Len(queue) \in 1..Len(wire) /\ i \in 1..Len(Coming')
      BY <1>1, <1>2, <2>2
    <3>2. Coming[i] = wire[i - Len(queue)] /\ Coming'[i] = wire'[i - Len(queue)]
      BY <1>1, <1>2, <2>2, <3>1
    <3>3. QED
      BY <3>1, <3>2
  <2>3. QED
    BY <2>1, <2>2
<1>4. QED
  BY <1>1, <1>2, <1>3

\* The chain of focus events when its first is dispatched, ...
LEMMA FocusTail ==
  ASSUME NEW q, NEW r, NEW from, NEW to, NEW now,
         Len(q) \in Nat, Len(q) >= 1, Len(r) = Len(q) - 1,
         \A i \in 1..Len(r) : r[i] = q[i + 1],
         FocusFollows(q, from, to),
         now = IF Moves(q[1]) THEN MovesTo(q[1]) ELSE from,
         q[1].type = "caps" /\ ~q[1].keyboard => from = NoWindow
  PROVE  FocusFollows(r, now, to)
<1>1. ASSUME NEW i \in 0..Len(r), NEW w, FocusAfter(q, i + 1, from, w)
      PROVE  FocusAfter(r, i, now, w)
  <2>1. \A k \in 1..i : r[k] = q[k + 1] /\ k + 1 \in 1..(i + 1)
    OBVIOUS
  <2>2. CASE from = w /\ \A k \in 1..(i + 1) : ~Moves(q[k])
    <3>1. 1 \in 1..(i + 1)
      OBVIOUS
    <3>2. QED
      BY <2>1, <2>2, <3>1 DEF FocusAfter
  <2>3. ASSUME NEW j \in 1..(i + 1), Moves(q[j]), MovesTo(q[j]) = w,
               \A k \in (j + 1)..(i + 1) : ~Moves(q[k])
        PROVE  FocusAfter(r, i, now, w)
    <3>1. CASE j = 1
      <4>1. \A k \in 1..i : ~Moves(r[k])
        BY <2>1, <2>3, <3>1
      <4>2. QED
        BY <2>3, <3>1, <4>1 DEF FocusAfter
    <3>2. CASE j # 1
      <4>1. j - 1 \in 1..i /\ r[j - 1] = q[j]
        BY <3>2
      <4>2. \A k \in ((j - 1) + 1)..i : ~Moves(r[k])
        <5>1. ASSUME NEW k \in ((j - 1) + 1)..i
              PROVE  ~Moves(r[k])
          <6>1. k \in 1..i /\ k + 1 \in (j + 1)..(i + 1)
            OBVIOUS
          <6>2. QED
            BY <2>1, <2>3, <6>1
        <5>2. QED
          BY <5>1
      <4>3. QED
        BY <2>3, <4>1, <4>2 DEF FocusAfter
    <3>3. QED
      BY <3>1, <3>2
  <2>4. QED
    BY <1>1, <2>2, <2>3 DEF FocusAfter
<1>2. ASSUME NEW i \in 1..Len(r), r[i].type = "kenter", r[i].window # NoWindow
      PROVE  FocusAfter(r, i - 1, now, NoWindow)
  <2>1. i + 1 \in 1..Len(q) /\ r[i] = q[i + 1] /\ i - 1 \in 0..Len(r) /\ (i - 1) + 1 = i
        /\ (i + 1) - 1 = i
    OBVIOUS
  <2>2. FocusAfter(q, (i + 1) - 1, from, NoWindow)
    BY <1>2, <2>1 DEF FocusFollows
  <2>3. FocusAfter(q, (i - 1) + 1, from, NoWindow)
    BY <2>1, <2>2
  <2>4. QED
    BY <1>1, <2>1, <2>3
<1>3. CASE FocusAfter(q, Len(q), from, to)
  <2>1. Len(r) \in 0..Len(r) /\ Len(r) + 1 = Len(q)
    OBVIOUS
  <2>2. FocusAfter(r, Len(r), now, to)
    BY <1>1, <1>3, <2>1
  <2>3. QED
    BY <1>2, <2>2 DEF FocusFollows
<1>4. ASSUME to = NoWindow, NEW i \in 1..Len(q), q[i].type = "caps", ~q[i].keyboard,
             \A k \in (i + 1)..Len(q) : ~Moves(q[k])
      PROVE  FocusFollows(r, now, to)
  <2>1. CASE i = 1
    <3>1. now = NoWindow
      BY <1>4, <2>1 DEF Moves
    <3>2. ASSUME NEW k \in 1..Len(r)
          PROVE  ~Moves(r[k])
      <4>1. k + 1 \in (i + 1)..Len(q) /\ r[k] = q[k + 1]
        BY <2>1
      <4>2. QED
        BY <1>4, <4>1
    <3>3. FocusAfter(r, Len(r), now, to)
      BY <1>4, <3>1, <3>2 DEF FocusAfter
    <3>4. QED
      BY <1>2, <3>3 DEF FocusFollows
  <2>2. CASE i # 1
    <3>1. i - 1 \in 1..Len(r) /\ r[i - 1] = q[i]
      BY <2>2
    <3>2. ASSUME NEW k \in ((i - 1) + 1)..Len(r)
          PROVE  ~Moves(r[k])
      <4>1. k + 1 \in (i + 1)..Len(q) /\ r[k] = q[k + 1]
        BY <2>2
      <4>2. QED
        BY <1>4, <4>1
    <3>3. QED
      BY <1>2, <1>4, <3>1, <3>2 DEF FocusFollows
  <2>3. QED
    BY <2>1, <2>2
<1>5. QED
  BY <1>3, <1>4 DEF FocusFollows

\* ... when one more is sent, ...
LEMMA FocusAppend ==
  ASSUME NEW q, NEW r, NEW from, NEW to, NEW next,
         Len(q) \in Nat, Len(r) = Len(q) + 1, \A i \in 1..Len(q) : r[i] = q[i],
         FocusFollows(q, from, to),
         LET e == r[Len(r)]
         IN IF Moves(e)
            THEN /\ MovesTo(e) = next
                 /\ e.type = "kenter" =>
                      to = NoWindow /\ \A i \in 1..Len(q) : q[i].type # "caps"
            ELSE next = to \/ (next = NoWindow /\ e.type = "caps" /\ ~e.keyboard)
  PROVE  FocusFollows(r, from, next)
<1>1. ASSUME NEW i \in 0..Len(q), NEW w
      PROVE  FocusAfter(r, i, from, w) <=> FocusAfter(q, i, from, w)
  <2>1. \A k \in 1..i : r[k] = q[k]
    OBVIOUS
  <2>2. \A j \in 1..i : \A k \in (j + 1)..i : k \in 1..i
    OBVIOUS
  <2>3. QED
    BY <2>1, <2>2 DEF FocusAfter
<1> DEFINE n == Len(r)
<1>2. n \in Nat /\ n = Len(q) + 1 /\ n \in 1..n /\ n - 1 = Len(q) /\ Len(q) \in 0..Len(q)
      /\ r[Len(r)] = r[n]
  OBVIOUS
<1>3. ASSUME NEW i \in 1..Len(r), r[i].type = "kenter", r[i].window # NoWindow
      PROVE  FocusAfter(r, i - 1, from, NoWindow)
  <2>1. CASE i \in 1..Len(q)
    <3>1. i - 1 \in 0..Len(q) /\ r[i] = q[i]
      BY <2>1
    <3>2. QED
      BY <1>1, <1>3, <2>1, <3>1 DEF FocusFollows
  <2>2. CASE i = n
    <3>1. Moves(r[n]) /\ r[n].type = "kenter"
      BY <1>3, <2>2 DEF Moves
    <3>2. FocusAfter(q, Len(q), from, NoWindow)
      BY <1>2, <3>1 DEF FocusFollows
    <3>3. QED
      BY <1>1, <1>2, <2>2, <3>2
  <2>3. QED
    BY <1>2, <2>1, <2>2
<1>4. CASE Moves(r[n])
  <2>1. MovesTo(r[n]) = next /\ \A k \in (n + 1)..n : ~Moves(r[k])
    BY <1>2, <1>4
  <2>2. FocusAfter(r, n, from, next)
    BY <1>2, <1>4, <2>1 DEF FocusAfter
  <2>3. QED
    BY <1>3, <2>2 DEF FocusFollows
<1>5. CASE ~Moves(r[n])
  <2>1. ASSUME NEW w, FocusAfter(q, Len(q), from, w)
        PROVE  FocusAfter(r, n, from, w)
    <3>1. FocusAfter(r, n - 1, from, w)
      BY <1>1, <1>2, <2>1
    <3>2. CASE from = w /\ \A k \in 1..(n - 1) : ~Moves(r[k])
      BY <1>2, <1>5, <3>2 DEF FocusAfter
    <3>3. ASSUME NEW j \in 1..(n - 1), Moves(r[j]), MovesTo(r[j]) = w,
                 \A k \in (j + 1)..(n - 1) : ~Moves(r[k])
          PROVE  FocusAfter(r, n, from, w)
      <4>1. j \in 1..n /\ \A k \in (j + 1)..n : ~Moves(r[k])
        BY <1>2, <1>5, <3>3
      <4>2. QED
        BY <3>3, <4>1 DEF FocusAfter
    <3>4. QED
      BY <3>1, <3>2, <3>3 DEF FocusAfter
  <2>2. CASE next = NoWindow /\ r[n].type = "caps" /\ ~r[n].keyboard
    <3>1. \A k \in (n + 1)..n : ~Moves(r[k])
      BY <1>2
    <3>2. QED
      BY <1>2, <1>3, <2>2, <3>1 DEF FocusFollows
  <2>3. CASE next = to
    <3>1. CASE FocusAfter(q, Len(q), from, to)
      BY <1>3, <2>1, <2>3, <3>1 DEF FocusFollows
    <3>2. ASSUME to = NoWindow, NEW i \in 1..Len(q), q[i].type = "caps", ~q[i].keyboard,
                 \A k \in (i + 1)..Len(q) : ~Moves(q[k])
          PROVE  FocusFollows(r, from, next)
      <4>1. i \in 1..n /\ r[i] = q[i] /\ \A k \in (i + 1)..n : ~Moves(r[k])
        BY <1>2, <1>5, <3>2
      <4>2. QED
        BY <1>3, <2>3, <3>2, <4>1 DEF FocusFollows
    <3>3. QED
      BY <3>1, <3>2 DEF FocusFollows
  <2>4. QED
    BY <1>2, <1>5, <2>2, <2>3
<1>6. QED
  BY <1>4, <1>5

\* ... and when a window, or a frame, is destroyed.
LEMMA FocusOrphans ==
  ASSUME NEW q, NEW r, NEW from, NEW to, NEW w \in Window, w # NoWindow,
         Len(q) \in Nat, Len(r) = Len(q),
         \A i \in 1..Len(q) :
              /\ r[i].type = q[i].type
              /\ ~OfFocus(q[i]) => r[i] = q[i]
              /\ OfFocus(q[i]) =>
                   r[i].window = IF q[i].window = w THEN NoWindow ELSE q[i].window,
         FocusFollows(q, from, to)
  PROVE  FocusFollows(r, IF from = w THEN NoWindow ELSE from,
                      IF to = w THEN NoWindow ELSE to)
<1> DEFINE Left(v) == IF v = w THEN NoWindow ELSE v
<1>1. ASSUME NEW i \in 1..Len(q)
      PROVE  /\ Moves(r[i]) <=> Moves(q[i]) /\ ~(q[i].type = "kenter" /\ q[i].window = w)
             /\ Moves(r[i]) => MovesTo(r[i]) = MovesTo(q[i]) /\ MovesTo(q[i]) # w
             /\ r[i].type = "kenter" => r[i].window = Left(q[i].window)
             /\ r[i].type = "caps" => r[i] = q[i]
  <2>1. r[i].type = "kenter" \/ r[i].type = "kleave" => OfFocus(q[i])
    BY DEF OfFocus
  <2>2. r[i].type = "caps" => ~OfFocus(q[i])
    BY DEF OfFocus
  <2>3. QED
    BY <2>1, <2>2 DEF Moves, MovesTo
<1>2. ASSUME NEW i \in 0..Len(q), NEW v, FocusAfter(q, i, from, v)
      PROVE  FocusAfter(r, i, Left(from), Left(v))
  <2>1. CASE from = v /\ \A k \in 1..i : ~Moves(q[k])
    <3>1. \A k \in 1..i : ~Moves(r[k])
      BY <1>1, <2>1
    <3>2. QED
      BY <2>1, <3>1 DEF FocusAfter
  <2>2. ASSUME NEW j \in 1..i, Moves(q[j]), MovesTo(q[j]) = v,
               \A k \in (j + 1)..i : ~Moves(q[k])
        PROVE  FocusAfter(r, i, Left(from), Left(v))
    <3>1. \A k \in (j + 1)..i : ~Moves(r[k])
      BY <1>1, <2>2
    <3>2. CASE Moves(r[j])
      <4>1. MovesTo(r[j]) = Left(v)
        BY <1>1, <2>2, <3>2
      <4>2. QED
        BY <3>1, <3>2, <4>1 DEF FocusAfter
    <3>3. CASE ~Moves(r[j])
      <4>1. q[j].type = "kenter" /\ q[j].window = w /\ v = w /\ j \in 1..Len(q)
        BY <1>1, <2>2, <3>3 DEF MovesTo
      <4>2. FocusAfter(q, j - 1, from, NoWindow)
        BY <4>1 DEF FocusFollows
      <4>3. \A k \in j..i : ~Moves(r[k])
        BY <3>1, <3>3
      <4>4. CASE from = NoWindow /\ \A k \in 1..(j - 1) : ~Moves(q[k])
        <5>1. \A k \in 1..i : ~Moves(r[k])
          BY <1>1, <4>3, <4>4
        <5>2. QED
          BY <4>1, <4>4, <5>1 DEF FocusAfter
      <4>5. ASSUME NEW m \in 1..(j - 1), Moves(q[m]), MovesTo(q[m]) = NoWindow,
                   \A k \in (m + 1)..(j - 1) : ~Moves(q[k])
            PROVE  FocusAfter(r, i, Left(from), Left(v))
        <5>1. m \in 1..Len(q) /\ m \in 1..i
          OBVIOUS
        <5>2. ~(q[m].type = "kenter" /\ q[m].window = w)
          BY <4>5 DEF MovesTo
        <5>3. Moves(r[m]) /\ MovesTo(r[m]) = NoWindow
          BY <1>1, <4>5, <5>1, <5>2
        <5>4. \A k \in (m + 1)..i : ~Moves(r[k])
          <6>1. ASSUME NEW k \in (m + 1)..i
                PROVE  ~Moves(r[k])
            <7>1. CASE k \in j..i
              BY <4>3, <7>1
            <7>2. CASE k \in (m + 1)..(j - 1)
              BY <1>1, <4>5, <7>2
            <7>3. QED
              BY <7>1, <7>2
          <6>2. QED
            BY <6>1
        <5>5. QED
          BY <4>1, <5>1, <5>3, <5>4 DEF FocusAfter
      <4>6. QED
        BY <4>2, <4>4, <4>5 DEF FocusAfter
    <3>4. QED
      BY <3>2, <3>3
  <2>3. QED
    BY <1>2, <2>1, <2>2 DEF FocusAfter
<1>3. ASSUME NEW i \in 1..Len(r), r[i].type = "kenter", r[i].window # NoWindow
      PROVE  FocusAfter(r, i - 1, Left(from), NoWindow)
  <2>1. q[i].type = "kenter" /\ q[i].window # NoWindow /\ i - 1 \in 0..Len(q)
    BY <1>1, <1>3
  <2>2. FocusAfter(q, i - 1, from, NoWindow)
    BY <2>1 DEF FocusFollows
  <2>3. FocusAfter(r, i - 1, Left(from), Left(NoWindow))
    BY <1>2, <2>1, <2>2
  <2>4. QED
    BY <2>3
<1>4. CASE FocusAfter(q, Len(q), from, to)
  <2>1. FocusAfter(r, Len(r), Left(from), Left(to))
    BY <1>2, <1>4
  <2>2. QED
    BY <1>3, <2>1 DEF FocusFollows
<1>5. ASSUME to = NoWindow, NEW i \in 1..Len(q), q[i].type = "caps", ~q[i].keyboard,
             \A k \in (i + 1)..Len(q) : ~Moves(q[k])
      PROVE  FocusFollows(r, Left(from), Left(to))
  <2>1. r[i].type = "caps" /\ ~r[i].keyboard /\ i \in 1..Len(r)
    BY <1>1, <1>5
  <2>2. \A k \in (i + 1)..Len(r) : ~Moves(r[k])
    BY <1>1, <1>5
  <2>3. Left(to) = NoWindow
    BY <1>5
  <2>4. QED
    BY <1>3, <2>1, <2>2, <2>3 DEF FocusFollows
<1>6. QED
  BY <1>4, <1>5 DEF FocusFollows

LEMMA FocusFrame ==
  ASSUME NEW q, NEW r, NEW from, NEW to,
         Len(q) \in Nat, Len(r) = Len(q),
         \A i \in 1..Len(q) :
              /\ r[i].type = q[i].type
              /\ ~OfFocus(q[i]) \/ q[i].type \in {"kenter", "kleave"} => r[i] = q[i],
         FocusFollows(q, from, to)
  PROVE  FocusFollows(r, from, to)
<1>1. ASSUME NEW i \in 1..Len(q)
      PROVE  /\ Moves(r[i]) <=> Moves(q[i])
             /\ Moves(r[i]) => MovesTo(r[i]) = MovesTo(q[i])
             /\ r[i].type = "kenter" => r[i] = q[i]
             /\ r[i].type = "caps" => r[i] = q[i]
             /\ r[i].type = q[i].type
  BY DEF OfFocus, Moves, MovesTo
<1>2. ASSUME NEW i \in 0..Len(q), NEW v, FocusAfter(q, i, from, v)
      PROVE  FocusAfter(r, i, from, v)
  <2>1. \A k \in 1..i : k \in 1..Len(q)
    OBVIOUS
  <2>2. \A j \in 1..i : \A k \in (j + 1)..i : k \in 1..Len(q)
    OBVIOUS
  <2>3. QED
    BY <1>1, <1>2, <2>1, <2>2 DEF FocusAfter
<1>3. \A i \in 1..Len(q) : i - 1 \in 0..Len(q)
  OBVIOUS
<1>4. \A i \in 1..Len(q) : \A k \in (i + 1)..Len(q) : k \in 1..Len(q)
  OBVIOUS
<1>5. \A i \in 1..Len(r) :
          r[i].type = "kenter" /\ r[i].window # NoWindow
            => FocusAfter(r, i - 1, from, NoWindow)
  BY <1>1, <1>2, <1>3 DEF FocusFollows
<1>6. CASE FocusAfter(q, Len(q), from, to)
  <2>1. FocusAfter(r, Len(r), from, to)
    BY <1>2, <1>6
  <2>2. QED
    BY <1>5, <2>1 DEF FocusFollows
<1>7. ASSUME to = NoWindow, NEW i \in 1..Len(q), q[i].type = "caps", ~q[i].keyboard,
             \A k \in (i + 1)..Len(q) : ~Moves(q[k])
      PROVE  FocusFollows(r, from, to)
  <2>1. r[i].type = "caps" /\ ~r[i].keyboard /\ i \in 1..Len(r)
    BY <1>1, <1>7
  <2>2. \A k \in (i + 1)..Len(r) : ~Moves(r[k])
    BY <1>1, <1>4, <1>7
  <2>3. QED
    BY <1>5, <1>7, <2>1, <2>2 DEF FocusFollows
<1>8. QED
  BY <1>6, <1>7 DEF FocusFollows

LEMMA ListsTail ==
  ASSUME NEW q, NEW r, NEW open, NEW bound,
         Len(q) \in Nat, Len(q) >= 1, Len(r) = Len(q) - 1,
         \A i \in 1..Len(r) : r[i] = q[i + 1]
  PROVE  /\ NamesOpenWindows(q, open) => NamesOpenWindows(r, open)
         /\ EntersAfterDevices(q) => EntersAfterDevices(r)
         /\ PointerIsBound(q, bound) => PointerIsBound(r, bound)
         /\ EntersAfterDevices(q) /\ q[1].type = "caps" => PointerIsBound(r, FALSE)
<1>1. \A i \in 1..Len(r) : i + 1 \in 1..Len(q) /\ 1 \in 1..Len(q) /\ 1 < i + 1
  OBVIOUS
<1>2. NamesOpenWindows(q, open) => NamesOpenWindows(r, open)
  BY <1>1 DEF NamesOpenWindows
<1>3. EntersAfterDevices(q) => EntersAfterDevices(r)
  <2> SUFFICES ASSUME EntersAfterDevices(q), NEW i \in 1..Len(r), NEW j \in 1..Len(r),
                      i < j, r[i].type = "caps"
               PROVE  r[j].type # "penter"
    BY DEF EntersAfterDevices
  <2>1. i + 1 \in 1..Len(q) /\ j + 1 \in 1..Len(q) /\ i + 1 < j + 1
    BY <1>1
  <2>2. QED
    BY <2>1 DEF EntersAfterDevices
<1>4. PointerIsBound(q, bound) => PointerIsBound(r, bound)
  BY <1>1 DEF PointerIsBound
<1>5. EntersAfterDevices(q) /\ q[1].type = "caps" => PointerIsBound(r, FALSE)
  BY <1>1 DEF EntersAfterDevices, PointerIsBound
<1>6. QED
  BY <1>2, <1>3, <1>4, <1>5

--------------------------------------------------------------------------------
(* Each event keeps the invariant.                                         *)

Takes(e) ==
    /\ queue # <<>> /\ e = Head(queue) /\ queue' = Tail(queue)
    /\ UNCHANGED <<wire, seat, failed>>
    /\ loop.phase # "poll" /\ loop' \in LoopRecord /\ loop'.phase # "poll"

LEMMA KeyboardEventKeeps ==
  ASSUME SeatInv, NEW e, Takes(e),
         \/ S!KeyboardHandleEnter(e) \/ S!KeyboardHandleLeave(e) \/ S!KeyboardHandleKey(e)
         \/ e.type = "done" /\ UNCHANGED <<keyboard, pressed, told, strayed>>,
         UNCHANGED <<pointer, win, over>>
  PROVE  SeatInv'
<1> USE SeatIsASeat DEF S!SeatAssumption
<1> DEFINE q == Coming
<1>1. /\ Plain /\ FocusIsOpen /\ KeyboardInv /\ PointerInv /\ NamesOpenWindows(q, Open)
      /\ Len(q) \in Nat /\ Len(q) >= 1 /\ e = q[1] /\ e \in S!Event
      /\ Len(q') = Len(q) - 1 /\ \A i \in 1..Len(q') : q'[i] = q[i + 1]
      /\ queue' \in Seq(S!Event) /\ wire' \in Seq(S!Event)
      /\ Len(wire') + Len(queue') <= S!MaxEvents
  BY TailOfComing DEF SeatInv, Takes
<1>2. /\ NamesOpenWindows(q', Open) /\ EntersAfterDevices(q')
      /\ PointerIsBound(q', pointer.bound)
  BY <1>1, ListsTail DEF PointerInv
<1> HIDE DEF q
<1>3. keyboard \in KeyboardRecord /\ strayed \in SUBSET SeatKey
      /\ pressed \in [Window -> SUBSET SeatKey] /\ told \in [Window -> SUBSET SeatKey]
  BY <1>1 DEF Plain
<1>4. e.type \in {"kenter", "kleave"} => e.window \in Open \union {NoWindow}
  BY <1>1 DEF NamesOpenWindows, OfFocus
<1>5. e.type = "key" => e.key \in SeatKey /\ e.pressed \in BOOLEAN
  BY <1>1 DEF S!Event, S!KeyEvent, S!CapsEvent, S!FocusEvent
<1>6. keyboard.focus \in Open \union {NoWindow} /\ NoWindow \notin Window /\ Open \subseteq Window
  BY <1>1 DEF FocusIsOpen, Open
<1>7. strayed # SeatKey /\ Moves(e) /\ e.type = "kenter" => keyboard.focus = NoWindow
  <2>1. SUFFICES ASSUME strayed # SeatKey, Moves(e), e.type = "kenter"
                 PROVE  keyboard.focus = NoWindow
    OBVIOUS
  <2>2. FocusFollows(q, keyboard.focus, seat.focus) /\ 1 \in 1..Len(q) /\ 1 - 1 = 0
    BY <1>1, <2>1 DEF KeyboardInv, q
  <2>3. FocusAfter(q, 0, keyboard.focus, NoWindow)
    BY <1>1, <2>1, <2>2 DEF FocusFollows, Moves
  <2>4. QED
    BY <2>3 DEF FocusAfter
<1>8. /\ keyboard' \in KeyboardRecord /\ strayed' = strayed
      /\ pressed' \in [Window -> SUBSET SeatKey] /\ told' \in [Window -> SUBSET SeatKey]
      /\ keyboard'.focus = IF Moves(e) \/ (e.type = "kleave") THEN MovesTo(e) ELSE keyboard.focus
      /\ S!PressedIsDown' /\ RepeatsPressed'
  <2>1. CASE S!KeyboardHandleEnter(e) /\ e.window = NoWindow
    <3>1. keyboard' = keyboard /\ pressed' = pressed /\ told' = told /\ strayed' = strayed
          /\ e.type = "kenter"
      BY <2>1 DEF S!KeyboardHandleEnter
    <3>2. QED
      BY <1>1, <1>3, <2>1, <3>1 DEF Moves, KeyboardInv, S!PressedIsDown, RepeatsPressed
  <2>2. CASE S!KeyboardHandleEnter(e) /\ e.window # NoWindow
    <3>1. /\ keyboard' = [keyboard EXCEPT !.focus = e.window]
          /\ pressed' = pressed /\ told' = told /\ strayed' = strayed
          /\ e.type = "kenter" /\ Moves(e) /\ MovesTo(e) = e.window
      BY <2>2 DEF S!KeyboardHandleEnter, Moves, MovesTo
    <3>2. /\ keyboard' \in KeyboardRecord /\ keyboard'.focus = e.window
          /\ keyboard'.armed = keyboard.armed /\ keyboard'.expired = keyboard.expired
          /\ keyboard'.scancode = keyboard.scancode
      BY <1>3, <1>4, <1>6, <3>1 DEF KeyboardRecord
    <3>3. keyboard.armed => keyboard.scancode \in strayed
      <4>1. keyboard.focus \in Window => told[keyboard.focus] \subseteq SeatKey
        BY <1>3
      <4>2. QED
        BY <1>1, <1>3, <1>6, <1>7, <3>1, <4>1 DEF KeyboardInv, RepeatsPressed
    <3>4. S!PressedIsDown' /\ RepeatsPressed'
      BY <1>1, <3>1, <3>2, <3>3 DEF KeyboardInv, S!PressedIsDown, RepeatsPressed
    <3>5. QED
      BY <1>3, <3>1, <3>2, <3>4
  <2>3. CASE S!KeyboardHandleLeave(e) /\ keyboard.focus = NoWindow
    <3>1. keyboard' = keyboard /\ pressed' = pressed /\ told' = told /\ strayed' = strayed
          /\ e.type = "kleave" /\ MovesTo(e) = NoWindow
      BY <2>3 DEF S!KeyboardHandleLeave, S!KeyboardSide, MovesTo
    <3>2. QED
      BY <1>1, <1>3, <2>3, <3>1 DEF KeyboardInv, S!PressedIsDown, RepeatsPressed
  <2>4. CASE S!KeyboardHandleLeave(e) /\ keyboard.focus # NoWindow
    <3> DEFINE w == keyboard.focus
    <3>1. /\ keyboard' = [keyboard EXCEPT !.focus = NoWindow, !.armed = FALSE,
                                          !.expired = FALSE]
          /\ pressed' = [pressed EXCEPT ![w] = {}] /\ told' = [told EXCEPT ![w] = {}]
          /\ strayed' = strayed /\ e.type = "kleave" /\ MovesTo(e) = NoWindow
      BY <2>4 DEF S!KeyboardHandleLeave, MovesTo
    <3>2. /\ keyboard' \in KeyboardRecord /\ keyboard'.focus = NoWindow
          /\ ~keyboard'.armed /\ ~keyboard'.expired
      BY <1>3, <3>1 DEF KeyboardRecord
    <3>3. pressed' \in [Window -> SUBSET SeatKey] /\ told' \in [Window -> SUBSET SeatKey]
          /\ \A v \in Window : pressed'[v] \subseteq told'[v] \union strayed
      BY <1>1, <1>3, <3>1 DEF KeyboardInv, S!PressedIsDown
    <3>4. QED
      BY <3>1, <3>2, <3>3 DEF S!PressedIsDown, RepeatsPressed
  <2>5. CASE S!KeyboardHandleKey(e) /\ keyboard.focus = NoWindow
    <3>1. keyboard' = keyboard /\ pressed' = pressed /\ told' = told /\ strayed' = strayed
          /\ e.type = "key" /\ ~Moves(e)
      BY <2>5 DEF S!KeyboardHandleKey, S!KeyboardSide, Moves
    <3>2. QED
      BY <1>1, <1>3, <3>1 DEF KeyboardInv, S!PressedIsDown, RepeatsPressed
  <2>6. CASE S!KeyboardHandleKey(e) /\ keyboard.focus # NoWindow
    <3> DEFINE w == keyboard.focus
    <3>1. PICK repeats \in BOOLEAN : keyboard' = S!Armed(e, repeats)
      BY <2>6 DEF S!KeyboardHandleKey
    <3>2. e.type = "key" /\ ~Moves(e) /\ strayed' = strayed /\ w \in Window
      BY <1>6, <2>6 DEF S!KeyboardHandleKey, Moves
    <3>3. /\ keyboard' \in KeyboardRecord /\ keyboard'.focus = w
          /\ keyboard'.armed => e.pressed /\ keyboard'.scancode = e.key
          /\ ~keyboard'.expired
      BY <1>3, <1>5, <3>1, <3>2 DEF S!Armed, KeyboardRecord
    <3>4. CASE e.pressed
      <4>1. /\ pressed' = [pressed EXCEPT ![w] = @ \union {e.key}]
            /\ told' = [told EXCEPT ![w] = @ \union {e.key}]
        BY <2>6, <3>4 DEF S!KeyboardHandleKey, S!PressKey
      <4>2. pressed' \in [Window -> SUBSET SeatKey] /\ told' \in [Window -> SUBSET SeatKey]
            /\ \A v \in Window : pressed'[v] \subseteq told'[v] \union strayed
            /\ e.key \in told'[w]
        BY <1>1, <1>3, <1>5, <3>2, <4>1 DEF KeyboardInv, S!PressedIsDown
      <4>3. QED
        BY <2>6, <3>2, <3>3, <4>2 DEF S!PressedIsDown, RepeatsPressed
    <3>5. CASE ~e.pressed
      <4>1. /\ pressed' = [pressed EXCEPT ![w] = @ \ {e.key}]
            /\ told' = [told EXCEPT ![w] = @ \ {e.key}]
        BY <2>6, <3>5 DEF S!KeyboardHandleKey
      <4>2. pressed' \in [Window -> SUBSET SeatKey] /\ told' \in [Window -> SUBSET SeatKey]
            /\ \A v \in Window : pressed'[v] \subseteq told'[v] \union strayed
        BY <1>1, <1>3, <1>5, <3>2, <4>1 DEF KeyboardInv, S!PressedIsDown
      <4>3. QED
        BY <3>2, <3>3, <3>5, <4>2 DEF S!PressedIsDown, RepeatsPressed
    <3>6. QED
      BY <3>4, <3>5
  <2>7. CASE e.type = "done" /\ UNCHANGED <<keyboard, pressed, told, strayed>>
    BY <1>1, <1>3, <2>7 DEF KeyboardInv, S!PressedIsDown, RepeatsPressed, Moves
  <2>8. QED
    BY <2>1, <2>2, <2>3, <2>4, <2>5, <2>6, <2>7
<1>9. keyboard'.focus \in Open \union {NoWindow}
      /\ keyboard'.focus = IF Moves(e) THEN MovesTo(e) ELSE keyboard.focus
  BY <1>4, <1>6, <1>8 DEF Moves, MovesTo
<1>10. e.type # "caps"
  <2>1. \/ e.type = "kenter" \/ e.type = "kleave" \/ e.type = "key" \/ e.type = "done"
    BY DEF S!KeyboardHandleEnter, S!KeyboardHandleLeave, S!KeyboardHandleKey
  <2>2. QED
    BY <2>1
<1>11. strayed # SeatKey => FocusFollows(q', keyboard'.focus, seat.focus)
  BY <1>1, <1>9, <1>10, FocusTail DEF KeyboardInv, q
<1>12. Plain'
  BY <1>1, <1>8 DEF Plain, Takes, S!MaxEvents
<1>13. FocusIsOpen'
  BY <1>1, <1>9 DEF FocusIsOpen, Takes, Open
<1>14. KeyboardInv' /\ PointerInv' /\ NamesOpenWindows(Coming, Open)'
  BY <1>1, <1>2, <1>8, <1>11
     DEF KeyboardInv, PointerInv, Takes, q, Open, PointerIsOver, CursorsRemembered
<1>15. QED
  BY <1>12, <1>13, <1>14 DEF SeatInv, Takes

LEMMA ShowImageSets ==
  ASSUME NEW p \in PointerRecord, NEW c \in Cursor \union {NoCursor}
  PROVE  /\ S!ShowImage(p, c) \in PointerRecord
         /\ S!ShowImage(p, c).bound = p.bound /\ S!ShowImage(p, c).focus = p.focus
         /\ S!ShowImage(p, c).shown = c
BY DEF S!ShowImage, PointerRecord, S!Image

LEMMA SetCursorSets ==
  ASSUME Plain, NEW w \in Window, NEW c \in Cursor \union {NoCursor},
         NEW r \in S!WindowRecord, NEW p \in PointerRecord, S!SetCursor(w, c, r, p)
  PROVE  /\ win' \in [Window -> S!WindowRecord] /\ pointer' \in PointerRecord
         /\ \A v \in Window : v # w => win'[v] = win[v]
         /\ win'[w].open = r.open /\ win'[w].mode = r.mode /\ win'[w].cursor = r.cursor
         /\ win'[w].missed = r.missed /\ win'[w].part = r.part
         /\ win'[w].current = IF p.bound THEN c ELSE r.current
         /\ pointer'.bound = p.bound /\ pointer'.focus = p.focus
         /\ IF p.bound /\ w = p.focus /\ r.part = "main"
            THEN /\ win'[w].lock = S!LockOf(r.mode)
                 /\ r.mode \in {"normal", "captured"} => pointer'.shown = c
            ELSE win'[w].lock = r.lock /\ pointer' = p
<1> DEFINE q == S!Remember(r, c, p)
           u == [q EXCEPT !.lock = S!UpdatedLock(q)]
<1>1. /\ q \in S!WindowRecord /\ q.open = r.open /\ q.mode = r.mode /\ q.cursor = r.cursor
      /\ q.missed = r.missed /\ q.part = r.part /\ q.lock = r.lock
      /\ q.current = IF p.bound THEN c ELSE r.current
  BY DEF S!Remember, S!WindowRecord
<1>2. /\ u \in S!WindowRecord /\ u.open = q.open /\ u.mode = q.mode /\ u.cursor = q.cursor
      /\ u.missed = q.missed /\ u.part = q.part /\ u.current = q.current
      /\ u.lock = S!LockOf(q.mode)
  <2>1. S!LockOf(q.mode) \in {"none", "locked", "confined"}
    BY DEF S!LockOf
  <2>2. QED
    BY <1>1, <2>1 DEF S!UpdatedLock, S!WindowRecord
<1>3. S!SetCursor(w, c, r, p) <=>
        IF p.bound /\ w = p.focus /\ r.part = "main"
        THEN win' = [win EXCEPT ![w] = u] /\ pointer' = S!Seen(p, q)
        ELSE win' = [win EXCEPT ![w] = q] /\ pointer' = p
  BY DEF S!SetCursor
<1> HIDE DEF q, u
<1>4. win \in [Window -> S!WindowRecord]
  BY DEF Plain
<1>5. CASE p.bound /\ w = p.focus /\ r.part = "main"
  <2>1. win' = [win EXCEPT ![w] = u] /\ pointer' = S!Seen(p, q)
    BY <1>3, <1>5
  <2>2. win' \in [Window -> S!WindowRecord] /\ win'[w] = u
        /\ \A v \in Window : v # w => win'[v] = win[v]
    BY <1>2, <1>4, <2>1
  <2>3. q.current = c
    BY <1>1, <1>5
  <2>4. CASE r.mode \in {"normal", "captured"}
    <3>1. pointer' = S!ShowImage(p, c)
      BY <1>1, <2>1, <2>3, <2>4 DEF S!Seen
    <3>2. QED
      BY <1>1, <1>2, <1>5, <2>2, <2>4, <3>1, ShowImageSets
  <2>5. CASE r.mode \notin {"normal", "captured"}
    <3>1. pointer' = [p EXCEPT !.shown = "hidden"]
      BY <1>1, <2>1, <2>5 DEF S!Seen
    <3>2. pointer' \in PointerRecord /\ pointer'.bound = p.bound /\ pointer'.focus = p.focus
      BY <3>1 DEF PointerRecord, S!Image
    <3>3. QED
      BY <1>1, <1>2, <1>5, <2>2, <2>5, <3>2
  <2>6. QED
    BY <2>4, <2>5
<1>6. CASE ~(p.bound /\ w = p.focus /\ r.part = "main")
  <2>1. win' = [win EXCEPT ![w] = q] /\ pointer' = p
    BY <1>3, <1>6
  <2>2. win' \in [Window -> S!WindowRecord] /\ win'[w] = q
        /\ \A v \in Window : v # w => win'[v] = win[v]
    BY <1>1, <1>4, <2>1
  <2>3. QED
    BY <1>1, <1>6, <2>1, <2>2
<1>7. QED
  BY <1>5, <1>6

LEMMA PointerEventKeeps ==
  ASSUME SeatInv, NEW e, Takes(e),
         S!PointerHandleEnter(e) \/ S!PointerHandleLeave(e) \/ S!PointerHandleMotion(e),
         UNCHANGED <<keyboard, pressed, told, strayed>>
  PROVE  SeatInv'
<1> USE SeatIsASeat DEF S!SeatAssumption
<1> DEFINE q == Coming
<1>1. /\ Plain /\ FocusIsOpen /\ KeyboardInv /\ PointerInv /\ NamesOpenWindows(q, Open)
      /\ Len(q) \in Nat /\ Len(q) >= 1 /\ e = q[1] /\ e \in S!Event
      /\ Len(q') = Len(q) - 1 /\ \A i \in 1..Len(q') : q'[i] = q[i + 1]
      /\ queue' \in Seq(S!Event) /\ wire' \in Seq(S!Event)
      /\ Len(wire') + Len(queue') <= S!MaxEvents
  BY TailOfComing DEF SeatInv, Takes
<1>2. /\ NamesOpenWindows(q', Open) /\ EntersAfterDevices(q')
      /\ PointerIsBound(q', pointer.bound)
      /\ e.type = "penter" => pointer.bound
  <2>1. PointerIsBound(q, pointer.bound) /\ EntersAfterDevices(q)
    BY <1>1 DEF PointerInv, q
  <2>2. 1 \in 1..Len(q)
    BY <1>1
  <2>3. QED
    BY <1>1, <2>1, <2>2, ListsTail DEF PointerIsBound
<1> HIDE DEF q
<1>3. pointer \in PointerRecord /\ win \in [Window -> S!WindowRecord] /\ over \in S!Place
  BY <1>1 DEF Plain
<1>4. /\ ~Moves(e) /\ e.type # "caps" /\ e.part \in S!Surface /\ OfFocus(e)
      /\ e.window \in Open \union {NoWindow}
  <2>1. e.type \in {"penter", "pleave", "motion"}
    BY DEF S!PointerHandleEnter, S!PointerHandleLeave, S!PointerHandleMotion
  <2>2. ~Moves(e) /\ e.type # "caps" /\ OfFocus(e)
    BY <2>1 DEF Moves, OfFocus
  <2>3. e.part \in S!Surface
    BY <1>1, <2>1 DEF S!Event, S!KeyEvent, S!CapsEvent, S!FocusEvent
  <2>4. 1 \in 1..Len(q)
    BY <1>1
  <2>5. QED
    BY <1>1, <2>2, <2>3, <2>4 DEF NamesOpenWindows
<1>5. strayed # SeatKey => FocusFollows(q', keyboard.focus, seat.focus)
  BY <1>1, <1>4, FocusTail DEF KeyboardInv, q
<1>6. /\ pointer.focus \in Open \union {NoWindow} /\ Open \subseteq Window
      /\ PointerIsOver /\ CursorsRemembered /\ S!Nowhere \in S!Place
      /\ \A w \in Window : ~win[w].open => win[w] = S!NoSuchWindow
  BY <1>1 DEF FocusIsOpen, Open, PointerInv, S!Place
<1>7. /\ pointer' \in PointerRecord /\ win' \in [Window -> S!WindowRecord]
      /\ over' \in S!Place /\ pointer'.bound = pointer.bound
      /\ pointer'.focus \in Open \union {NoWindow}
      /\ \A w \in Window : win'[w].open = win[w].open
      /\ \A w \in Window : ~win'[w].open => win'[w] = S!NoSuchWindow
      /\ PointerIsOver' /\ CursorsRemembered'
  <2>1. CASE S!PointerHandleEnter(e) /\ e.window = NoWindow
    <3>1. pointer' = pointer /\ win' = win /\ over' = over
      BY <2>1 DEF S!PointerHandleEnter, S!PointerSide
    <3>2. QED
      BY <1>3, <1>6, <3>1 DEF PointerIsOver, CursorsRemembered
  <2>2. CASE S!PointerHandleEnter(e) /\ e.window # NoWindow
    <3> DEFINE w == e.window
               r == [win[w] EXCEPT !.part = e.part]
               p == [pointer EXCEPT !.focus = w, !.shown = "undefined"]
    <3>1. S!SetCursor(w, r.current, r, p) /\ over' = [window |-> w, part |-> e.part]
          /\ e.type = "penter"
      BY <2>2 DEF S!PointerHandleEnter
    <3>2. w \in Window /\ win[w].open /\ win[w] \in S!WindowRecord
      BY <1>3, <1>4, <2>2 DEF Open
    <3>3. /\ r \in S!WindowRecord /\ r.open = win[w].open /\ r.mode = win[w].mode
          /\ r.cursor = win[w].cursor /\ r.current = win[w].current
          /\ r.missed = win[w].missed /\ r.part = e.part
          /\ r.current \in Cursor \union {NoCursor}
      BY <1>4, <3>2 DEF S!WindowRecord, S!Surface
    <3>4. p \in PointerRecord /\ p.bound = pointer.bound /\ p.focus = w
      BY <1>3, <3>2 DEF PointerRecord, S!Image
    <3> HIDE DEF w, r, p
    <3>5. /\ win' \in [Window -> S!WindowRecord] /\ pointer' \in PointerRecord
          /\ \A v \in Window : v # w => win'[v] = win[v]
          /\ win'[w].open = r.open /\ win'[w].mode = r.mode /\ win'[w].cursor = r.cursor
          /\ win'[w].missed = r.missed /\ win'[w].part = r.part
          /\ win'[w].current = r.current
          /\ pointer'.bound = p.bound /\ pointer'.focus = p.focus
          /\ p.bound /\ w = p.focus /\ r.part = "main"
               => /\ win'[w].lock = S!LockOf(r.mode)
                  /\ r.mode \in {"normal", "captured"} => pointer'.shown = r.current
      <4> DEFINE c == r.current
      <4>1. Plain /\ w \in Window /\ c \in Cursor \union {NoCursor} /\ S!SetCursor(w, c, r, p)
        BY <1>1, <3>1, <3>2, <3>3
      <4>2. c = r.current
        OBVIOUS
      <4> HIDE DEF c
      <4>3. QED
        BY <4>1, <4>2, <3>3, <3>4, SetCursorSets
    <3>6. over'.window = w /\ over'.part = e.part /\ over' \in S!Place
      BY <1>4, <3>1, <3>2 DEF S!Place
    <3>7. PointerIsOver'
      BY <1>2, <3>1, <3>3, <3>4, <3>5, <3>6 DEF PointerIsOver
    <3>8. CursorsRemembered'
      BY <1>6, <3>3, <3>5 DEF CursorsRemembered
    <3>9. \A v \in Window : win'[v].open = win[v].open
      BY <3>3, <3>5
    <3>10. \A v \in Window : ~win'[v].open => win'[v] = S!NoSuchWindow
      BY <1>6, <3>2, <3>3, <3>5
    <3>11. w \in Open
      BY <3>2 DEF Open
    <3>12. QED
      BY <3>4, <3>5, <3>6, <3>7, <3>8, <3>9, <3>10, <3>11
  <2>3. CASE S!PointerHandleLeave(e)
    <3>1. over' = S!Nowhere /\ win' = win /\ over'.window = NoWindow
      BY <2>3 DEF S!PointerHandleLeave, S!Nowhere
    <3>2. pointer' \in PointerRecord /\ pointer'.bound = pointer.bound
          /\ pointer'.focus \in {pointer.focus, NoWindow}
      BY <1>3, <2>3 DEF S!PointerHandleLeave, PointerRecord, S!Image
    <3>3. QED
      BY <1>3, <1>6, <3>1, <3>2 DEF PointerIsOver, CursorsRemembered
  <2>4. CASE S!PointerHandleMotion(e)
    <3>1. over' = over /\ win' = win
      BY <2>4 DEF S!PointerHandleMotion
    <3>2. \/ pointer' = pointer
          \/ pointer' = [pointer EXCEPT !.named = FALSE]
          \/ /\ pointer.focus # NoWindow /\ win[pointer.focus].part # "main"
             /\ pointer' = [pointer EXCEPT !.named = TRUE, !.shown = "resize"]
      BY <2>4 DEF S!PointerHandleMotion
    <3>3. /\ pointer' \in PointerRecord /\ pointer'.bound = pointer.bound
          /\ pointer'.focus = pointer.focus
          /\ pointer'.shown = pointer.shown
             \/ (pointer.focus # NoWindow /\ win[pointer.focus].part # "main")
      <4>1. CASE pointer' = pointer
        BY <1>3, <4>1
      <4>2. CASE pointer' = [pointer EXCEPT !.named = FALSE]
        BY <1>3, <4>2 DEF PointerRecord
      <4>3. ASSUME pointer.focus # NoWindow, win[pointer.focus].part # "main",
                   pointer' = [pointer EXCEPT !.named = TRUE, !.shown = "resize"]
            PROVE  /\ pointer' \in PointerRecord /\ pointer'.bound = pointer.bound
                   /\ pointer'.focus = pointer.focus
        BY <1>3, <4>3 DEF PointerRecord, S!Image
      <4>4. QED
        BY <3>2, <4>1, <4>2, <4>3
    <3>4. PointerIsOver'
      BY <1>6, <3>1, <3>3 DEF PointerIsOver
    <3>5. QED
      BY <1>3, <1>6, <3>1, <3>3, <3>4 DEF CursorsRemembered
  <2>5. QED
    BY <2>1, <2>2, <2>3, <2>4
<1>8. Open' = Open
  BY <1>7 DEF Open
<1>9. Plain'
  BY <1>1, <1>7 DEF Plain, Takes, S!MaxEvents
<1>10. FocusIsOpen'
  BY <1>1, <1>7, <1>8 DEF FocusIsOpen, Takes
<1>11. KeyboardInv'
  BY <1>1, <1>5 DEF KeyboardInv, Takes, q, S!PressedIsDown, RepeatsPressed
<1>12. PointerInv' /\ NamesOpenWindows(Coming, Open)'
  BY <1>2, <1>7, <1>8 DEF PointerInv, q
<1>13. QED
  BY <1>9, <1>10, <1>11, <1>12 DEF SeatInv, Takes

LEMMA CapabilitiesKeep ==
  ASSUME SeatInv, NEW e, Takes(e), S!HandleCapabilities(e)
  PROVE  SeatInv'
<1> USE SeatIsASeat DEF S!SeatAssumption
<1> DEFINE q == Coming
<1>1. /\ Plain /\ FocusIsOpen /\ KeyboardInv /\ PointerInv /\ NamesOpenWindows(q, Open)
      /\ Len(q) \in Nat /\ Len(q) >= 1 /\ e = q[1] /\ e \in S!Event
      /\ Len(q') = Len(q) - 1 /\ \A i \in 1..Len(q') : q'[i] = q[i + 1]
      /\ queue' \in Seq(S!Event) /\ wire' \in Seq(S!Event)
      /\ Len(wire') + Len(queue') <= S!MaxEvents
  BY TailOfComing DEF SeatInv, Takes
<1>2. e.type = "caps" /\ e.keyboard \in BOOLEAN /\ e.pointer \in BOOLEAN /\ ~Moves(e)
  BY <1>1 DEF S!HandleCapabilities, S!Event, S!KeyEvent, S!CapsEvent, S!FocusEvent, Moves
<1>3. /\ NamesOpenWindows(q', Open) /\ EntersAfterDevices(q')
      /\ PointerIsBound(q', FALSE)
  BY <1>1, <1>2, ListsTail DEF PointerInv
<1> HIDE DEF q
<1>4. /\ keyboard' = [keyboard EXCEPT !.bound = e.keyboard]
      /\ strayed' = IF e.keyboard \/ keyboard.focus = NoWindow THEN strayed ELSE SeatKey
      /\ pointer' = [pointer EXCEPT !.bound = e.pointer,
                                    !.shown = IF e.pointer THEN @ ELSE "undefined"]
      /\ over' = IF e.pointer THEN over ELSE S!Nowhere
      /\ UNCHANGED <<pressed, told, win>>
  BY DEF S!HandleCapabilities
<1>5. /\ keyboard \in KeyboardRecord /\ pointer \in PointerRecord /\ over \in S!Place
      /\ strayed \in SUBSET SeatKey /\ pressed \in [Window -> SUBSET SeatKey]
  BY <1>1 DEF Plain
<1>6. /\ keyboard' \in KeyboardRecord /\ keyboard'.focus = keyboard.focus
      /\ keyboard'.armed = keyboard.armed /\ keyboard'.expired = keyboard.expired
      /\ keyboard'.scancode = keyboard.scancode
  BY <1>2, <1>4, <1>5 DEF KeyboardRecord
<1>7. /\ pointer' \in PointerRecord /\ pointer'.focus = pointer.focus
      /\ pointer'.bound = e.pointer /\ e.pointer => pointer'.shown = pointer.shown
  BY <1>2, <1>4, <1>5 DEF PointerRecord, S!Image
<1>8. over' \in S!Place /\ (~e.pointer => over'.window = NoWindow)
      /\ (e.pointer => over' = over)
  BY <1>4, <1>5 DEF S!Place, S!Nowhere
<1>9. strayed \subseteq strayed' /\ strayed' \in SUBSET SeatKey
  BY <1>4, <1>5
<1>10. strayed' # SeatKey => FocusFollows(q', keyboard'.focus, seat.focus)
  <2>1. SUFFICES ASSUME strayed' # SeatKey
                 PROVE  FocusFollows(q', keyboard'.focus, seat.focus)
    OBVIOUS
  <2>2. strayed # SeatKey /\ (e.keyboard \/ keyboard.focus = NoWindow)
    BY <1>4, <2>1
  <2>3. FocusFollows(q, keyboard.focus, seat.focus)
    BY <1>1, <2>2 DEF KeyboardInv, q
  <2>4. ~q[1].keyboard => keyboard.focus = NoWindow
    BY <1>1, <2>2
  <2>5. keyboard'.focus = IF Moves(q[1]) THEN MovesTo(q[1]) ELSE keyboard.focus
    BY <1>1, <1>2, <1>6
  <2>6. QED
    BY <1>1, <2>3, <2>4, <2>5, FocusTail
<1>11. KeyboardInv'
  <2>1. S!PressedIsDown'
    BY <1>1, <1>4, <1>9 DEF KeyboardInv, S!PressedIsDown
  <2>2. RepeatsPressed'
    BY <1>1, <1>4, <1>6, <1>9 DEF KeyboardInv, RepeatsPressed
  <2>3. QED
    BY <1>10, <2>1, <2>2 DEF KeyboardInv, Takes, q
<1>12. PointerIsBound(q', pointer'.bound)
  BY <1>3, <1>7 DEF PointerIsBound
<1>13. PointerIsOver' /\ CursorsRemembered'
  BY <1>1, <1>2, <1>4, <1>7, <1>8 DEF PointerInv, PointerIsOver, CursorsRemembered
<1>14. Plain'
  BY <1>1, <1>4, <1>6, <1>7, <1>8, <1>9 DEF Plain, Takes, S!MaxEvents
<1>15. FocusIsOpen'
  BY <1>1, <1>4, <1>6, <1>7 DEF FocusIsOpen, Takes, Open
<1>16. PointerInv' /\ NamesOpenWindows(Coming, Open)'
  BY <1>3, <1>4, <1>12, <1>13 DEF PointerInv, q, Open
<1>17. QED
  BY <1>11, <1>14, <1>15, <1>16 DEF SeatInv, Takes

LEMMA DispatchKeeps ==
  ASSUME SeatInv, S!Dispatch, loop.phase # "poll",
         loop' \in LoopRecord, loop'.phase # "poll"
  PROVE  SeatInv'
<1> DEFINE e == Head(queue)
<1>1. Takes(e)
  BY DEF S!Dispatch, Takes
<1>2. CASE /\ S!KeyboardHandleEnter(e) \/ S!KeyboardHandleLeave(e) \/ S!KeyboardHandleKey(e)
           /\ UNCHANGED <<pointer, win, over>>
  BY <1>1, <1>2, KeyboardEventKeeps
<1>3. CASE /\ S!PointerHandleEnter(e) \/ S!PointerHandleLeave(e) \/ S!PointerHandleMotion(e)
           /\ UNCHANGED <<keyboard, pressed, told, strayed>>
  BY <1>1, <1>3, PointerEventKeeps
<1>4. CASE S!HandleCapabilities(e)
  BY <1>1, <1>4, CapabilitiesKeep
<1>5. CASE e.type = "done" /\ UNCHANGED <<keyboard, pressed, told, strayed>>
           /\ UNCHANGED <<pointer, win, over>>
  BY <1>1, <1>5, KeyboardEventKeeps
<1>6. QED
  BY <1>2, <1>3, <1>4, <1>5 DEF S!Dispatch, S!PointerSide, S!KeyboardSide

--------------------------------------------------------------------------------
(* The other steps.                                                        *)

LEMMA LoopStepKeeps ==
  ASSUME SeatInv,
         UNCHANGED <<keyboard, pressed, told, strayed, pointer, win, over, seat>>,
         failed' \in BOOLEAN, loop' \in LoopRecord, loop'.phase = "poll" => queue' = <<>>,
         wire' \in Seq(S!Event), queue' \in Seq(S!Event), Coming' = Coming,
         Len(wire') + Len(queue') = Len(wire) + Len(queue)
  PROVE  SeatInv'
<1>1. Plain'
  BY DEF SeatInv, Plain, S!MaxEvents
<1>2. FocusIsOpen' /\ NamesOpenWindows(Coming, Open)'
  BY DEF SeatInv, FocusIsOpen, Open
<1>3. KeyboardInv' /\ PointerInv'
  BY DEF SeatInv, KeyboardInv, PointerInv, S!PressedIsDown, RepeatsPressed, PointerIsOver,
         CursorsRemembered
<1>4. QED
  BY <1>1, <1>2, <1>3 DEF SeatInv

LEMMA KeyboardStepKeeps ==
  ASSUME SeatInv, UNCHANGED <<told, strayed, pointer, win, over, wire, queue, seat>>,
         failed' \in BOOLEAN, loop' \in LoopRecord, loop'.phase = "poll" => loop.phase = "poll",
         keyboard' \in KeyboardRecord, keyboard'.focus = keyboard.focus,
         pressed' \in [Window -> SUBSET SeatKey],
         S!PressedIsDown', RepeatsPressed'
  PROVE  SeatInv'
<1>1. Plain'
  BY DEF SeatInv, Plain, S!MaxEvents
<1>2. Coming' = Coming
  BY DEF Coming
<1>3. FocusIsOpen' /\ NamesOpenWindows(Coming, Open)'
  BY <1>2 DEF SeatInv, FocusIsOpen, Open
<1>4. KeyboardInv' /\ PointerInv'
  BY <1>2 DEF SeatInv, KeyboardInv, PointerInv, PointerIsOver, CursorsRemembered
<1>5. QED
  BY <1>1, <1>3, <1>4 DEF SeatInv

LEMMA PointerStepKeeps ==
  ASSUME SeatInv, UNCHANGED <<keyboard, pressed, told, strayed, over, wire, queue, seat>>,
         failed' \in BOOLEAN, loop' \in LoopRecord, loop'.phase = "poll" => loop.phase = "poll",
         pointer' \in PointerRecord, pointer'.focus = pointer.focus,
         pointer'.bound = pointer.bound, win' \in [Window -> S!WindowRecord],
         \A w \in Window : /\ win'[w].open = win[w].open
                           /\ ~win'[w].open => win'[w] = win[w],
         PointerIsOver', CursorsRemembered'
  PROVE  SeatInv'
<1>1. Plain'
  BY DEF SeatInv, Plain, S!MaxEvents
<1>2. Coming' = Coming /\ Open' = Open
  BY DEF Coming, Open
<1>3. FocusIsOpen' /\ NamesOpenWindows(Coming, Open)'
  BY <1>2 DEF SeatInv, FocusIsOpen
<1>4. KeyboardInv' /\ PointerInv'
  BY <1>2 DEF SeatInv, KeyboardInv, PointerInv, S!PressedIsDown, RepeatsPressed
<1>5. QED
  BY <1>1, <1>3, <1>4 DEF SeatInv

LEMMA LoopKeeps ==
  ASSUME SeatInv, S!Loop
  PROVE  SeatInv'
<1>1. Plain /\ loop \in LoopRecord /\ queue \in Seq(S!Event) /\ wire \in Seq(S!Event)
      /\ failed \in BOOLEAN
  BY DEF SeatInv, Plain
<1>2. /\ S!Idle \in LoopRecord /\ S!Idle.phase # "poll"
      /\ \A phase \in S!Phase : /\ [loop EXCEPT !.phase = phase] \in LoopRecord
                                /\ [loop EXCEPT !.phase = phase].phase = phase
      /\ [loop EXCEPT !.phase = "dispatch", !.ready = S!Expired] \in LoopRecord
      /\ [loop EXCEPT !.phase = "dispatch", !.ready = S!Expired].phase = "dispatch"
      /\ [loop EXCEPT !.phase = "pending", !.ready = {}] \in LoopRecord
      /\ [loop EXCEPT !.phase = "pending", !.ready = {}].phase = "pending"
      /\ [loop EXCEPT !.event = TRUE] \in LoopRecord
      /\ [loop EXCEPT !.event = TRUE].phase = loop.phase
      /\ [loop EXCEPT !.phase = "animate", !.event = TRUE] \in LoopRecord
      /\ [loop EXCEPT !.phase = "animate", !.event = TRUE].phase = "animate"
  <2>1. S!Expired \in SUBSET S!Timer
    BY DEF S!Expired, S!Timer
  <2>2. QED
    BY <1>1, <2>1 DEF S!Idle, LoopRecord, S!Phase, S!Timer
<1>3. Coming \in Seq(S!Event) /\ (queue = <<>> => wire \o <<>> = Coming)
      /\ <<>> \in Seq(S!Event) /\ Len(<<>>) = 0 /\ Len(wire) \in Nat /\ Len(queue) \in Nat
  BY <1>1 DEF Coming
<1>4. ASSUME UNCHANGED <<S!Input, wire, queue, seat, failed>>, loop' \in LoopRecord,
             loop'.phase = "poll" => queue = <<>>
      PROVE  SeatInv'
  <2>1. UNCHANGED <<keyboard, pressed, told, strayed, pointer, win, over, seat>>
    BY <1>4 DEF S!Input, S!KeyboardSide, S!PointerSide
  <2>2. Coming' = Coming
    BY <1>4 DEF Coming
  <2>3. QED
    BY <1>1, <1>4, <2>1, <2>2, LoopStepKeeps
<1>5. CASE S!HandleEvents \/ S!Prepared \/ S!FlushFails \/ S!TimesOut \/ S!Drained
           \/ S!NoRepeat \/ S!NoAdvance
  <2>1. UNCHANGED <<S!Input, wire, queue, seat, failed>>
    BY <1>5 DEF S!HandleEvents, S!Prepared, S!FlushFails, S!TimesOut, S!Drained, S!NoRepeat,
                S!NoAdvance
  <2>2. loop' \in LoopRecord /\ (loop'.phase = "poll" => queue = <<>>)
    BY <1>2, <1>5
       DEF S!HandleEvents, S!Prepared, S!FlushFails, S!TimesOut, S!Drained, S!NoRepeat,
           S!NoAdvance, S!GoesTo, S!Returns, S!Again, S!Phase
  <2>3. QED
    BY <1>4, <2>1, <2>2
<1>6. CASE S!DispatchPending \/ S!DispatchRead
  <2>1. S!Dispatch /\ loop.phase # "poll" /\ loop' \in LoopRecord /\ loop'.phase # "poll"
    BY <1>1, <1>2, <1>6 DEF S!DispatchPending, S!DispatchRead, S!InLoop
  <2>2. QED
    BY <2>1, DispatchKeeps
<1>7. CASE S!Wake
  <2>1. /\ loop.phase = "poll" /\ queue' = wire /\ wire' = <<>>
        /\ loop' = [loop EXCEPT !.phase = "dispatch", !.ready = S!Expired]
        /\ UNCHANGED <<keyboard, pressed, told, strayed, pointer, win, over, seat>>
        /\ UNCHANGED failed
    BY <1>7 DEF S!Wake, S!InLoop, S!Input, S!KeyboardSide, S!PointerSide
  <2>2. queue = <<>>
    BY <2>1 DEF SeatInv
  <2>3. Coming' = wire \o <<>>
    BY <2>1 DEF Coming
  <2>4. QED
    BY <1>1, <1>2, <1>3, <2>1, <2>2, <2>3, LoopStepKeeps
<1>8. CASE S!KeyRepeats
  <2>1. keyboard.expired /\ loop.phase # "poll" /\ UNCHANGED <<wire, queue, seat>>
    BY <1>8 DEF S!KeyRepeats, S!Repeats, S!InLoop
  <2>2. CASE keyboard.focus = NoWindow
    <3>1. failed' = TRUE /\ loop' = loop
          /\ UNCHANGED <<keyboard, pressed, told, strayed, pointer, win, over>>
      BY <1>8, <2>2 DEF S!KeyRepeats, S!Input, S!KeyboardSide, S!PointerSide
    <3>2. Coming' = Coming
      BY <2>1 DEF Coming
    <3>3. failed' \in BOOLEAN
      BY <3>1
    <3>4. QED
      BY <1>1, <2>1, <3>1, <3>2, <3>3, LoopStepKeeps
  <2>3. CASE keyboard.focus # NoWindow
    <3> DEFINE w == keyboard.focus
               k == keyboard.scancode
    <3>1. /\ pressed' = [pressed EXCEPT ![w] = @ \union {k}]
          /\ keyboard' = [keyboard EXCEPT !.expired = FALSE]
          /\ loop' = [loop EXCEPT !.phase = "animate", !.event = TRUE]
          /\ UNCHANGED <<told, strayed, pointer, win, over, failed>>
      BY <1>8, <2>3 DEF S!KeyRepeats, S!PressKey, S!PointerSide
    <3>2. /\ keyboard \in KeyboardRecord /\ S!PressedIsDown /\ RepeatsPressed
          /\ pressed \in [Window -> SUBSET SeatKey] /\ told \in [Window -> SUBSET SeatKey]
          /\ strayed \in SUBSET SeatKey
      BY DEF SeatInv, Plain, KeyboardInv
    <3>3. /\ keyboard' \in KeyboardRecord /\ keyboard'.focus = w /\ keyboard'.scancode = k
          /\ keyboard'.armed = keyboard.armed /\ ~keyboard'.expired
      BY <3>1, <3>2 DEF KeyboardRecord
    <3>4. w \in Window /\ (k \in strayed \/ k \in told[w]) /\ k \in SeatKey
      BY <2>1, <2>3, <3>2 DEF KeyboardRecord, RepeatsPressed
    <3>5. pressed' \in [Window -> SUBSET SeatKey]
          /\ \A v \in Window : pressed'[v] \subseteq told[v] \union strayed
      BY <3>1, <3>2, <3>4 DEF S!PressedIsDown
    <3>6. S!PressedIsDown' /\ RepeatsPressed'
      BY <3>1, <3>2, <3>3, <3>5 DEF S!PressedIsDown, RepeatsPressed
    <3>7. loop' \in LoopRecord /\ loop'.phase # "poll"
      BY <1>2, <3>1
    <3>8. QED
      BY <1>1, <2>1, <3>1, <3>3, <3>5, <3>6, <3>7, KeyboardStepKeeps
  <2>4. QED
    BY <2>2, <2>3
<1>9. CASE S!CursorAdvances
  <2> DEFINE w == pointer.focus
             p == [pointer EXCEPT !.expired = FALSE]
             animated == w # NoWindow /\ win[w].part = "main" /\ win[w].current # NoCursor
  <2>1. /\ loop' = S!Idle
        /\ pointer' = IF animated THEN S!ShowImage(p, win[w].current) ELSE p
        /\ UNCHANGED <<keyboard, pressed, told, strayed, win, over, wire, queue, seat>>
    BY <1>9 DEF S!CursorAdvances, S!Returns, S!KeyboardSide
  <2>2. failed' = (animated /\ ~pointer.bound)
    BY <1>9 DEF S!CursorAdvances
  <2>3. pointer \in PointerRecord /\ win \in [Window -> S!WindowRecord] /\ FocusIsOpen
        /\ PointerIsOver /\ CursorsRemembered
    BY DEF SeatInv, Plain, PointerInv
  <2>4. p \in PointerRecord /\ p.bound = pointer.bound /\ p.focus = pointer.focus
        /\ p.shown = pointer.shown
    BY <2>3 DEF PointerRecord
  <2>5. animated => w \in Window /\ win[w].current \in Cursor \union {NoCursor}
    BY <2>3 DEF PointerRecord, S!WindowRecord
  <2> HIDE DEF p
  <2>6. /\ pointer' \in PointerRecord /\ pointer'.bound = pointer.bound
        /\ pointer'.focus = pointer.focus
        /\ pointer'.shown = pointer.shown \/ (animated /\ pointer'.shown = win[w].current)
    BY <2>1, <2>4, <2>5, ShowImageSets
  <2>7. PointerIsOver' /\ CursorsRemembered'
    BY <2>1, <2>3, <2>6 DEF PointerIsOver, CursorsRemembered
  <2>8. failed' \in BOOLEAN /\ loop' \in LoopRecord /\ loop'.phase # "poll"
    BY <1>2, <2>1, <2>2
  <2>9. QED
    BY <2>1, <2>3, <2>6, <2>7, <2>8, PointerStepKeeps
<1>10. QED
  BY <1>5, <1>6, <1>7, <1>8, <1>9 DEF S!Loop

LEMMA TimersKeep ==
  ASSUME SeatInv, S!RepeatTimer \/ S!CursorTimer \/ S!OtherReader
  PROVE  SeatInv'
<1>1. /\ loop \in LoopRecord /\ queue \in Seq(S!Event) /\ wire \in Seq(S!Event)
      /\ failed \in BOOLEAN /\ keyboard \in KeyboardRecord /\ pointer \in PointerRecord
      /\ pressed \in [Window -> SUBSET SeatKey] /\ win \in [Window -> S!WindowRecord]
      /\ KeyboardInv /\ PointerInv
  BY DEF SeatInv, Plain
<1>2. CASE S!RepeatTimer
  <2>1. /\ keyboard.armed /\ keyboard' = [keyboard EXCEPT !.expired = TRUE]
        /\ UNCHANGED <<pressed, told, strayed, pointer, win, over, wire, queue, seat>>
        /\ UNCHANGED <<loop, failed>>
    BY <1>2 DEF S!RepeatTimer, S!PointerSide
  <2>2. /\ keyboard' \in KeyboardRecord /\ keyboard'.focus = keyboard.focus
        /\ keyboard'.scancode = keyboard.scancode /\ keyboard'.armed
    BY <1>1, <2>1 DEF KeyboardRecord
  <2>3. S!PressedIsDown' /\ RepeatsPressed'
    BY <1>1, <2>1, <2>2 DEF KeyboardInv, S!PressedIsDown, RepeatsPressed
  <2>4. QED
    BY <1>1, <2>1, <2>2, <2>3, KeyboardStepKeeps
<1>3. CASE S!CursorTimer
  <2>1. /\ pointer' = [pointer EXCEPT !.timer = FALSE, !.expired = TRUE]
        /\ UNCHANGED <<keyboard, pressed, told, strayed, win, over, wire, queue, seat>>
        /\ UNCHANGED <<loop, failed>>
    BY <1>3 DEF S!CursorTimer, S!KeyboardSide
  <2>2. /\ pointer' \in PointerRecord /\ pointer'.focus = pointer.focus
        /\ pointer'.bound = pointer.bound /\ pointer'.shown = pointer.shown
    BY <1>1, <2>1 DEF PointerRecord
  <2>3. PointerIsOver' /\ CursorsRemembered'
    BY <1>1, <2>1, <2>2 DEF PointerInv, PointerIsOver, CursorsRemembered
  <2>4. QED
    BY <1>1, <2>1, <2>2, <2>3, PointerStepKeeps
<1>4. CASE S!OtherReader
  <2>1. /\ loop.phase = "app" /\ queue' = queue \o wire /\ wire' = <<>>
        /\ UNCHANGED <<keyboard, pressed, told, strayed, pointer, win, over, seat>>
        /\ UNCHANGED <<loop, failed>>
    BY <1>4 DEF S!OtherReader, S!InLoop, S!Input, S!KeyboardSide, S!PointerSide
  <2>2. /\ Coming' = Coming /\ queue' \in Seq(S!Event) /\ wire' \in Seq(S!Event)
        /\ Len(wire') + Len(queue') = Len(wire) + Len(queue)
    BY <1>1, <2>1 DEF Coming
  <2>3. QED
    BY <1>1, <2>1, <2>2, LoopStepKeeps
<1>5. QED
  BY <1>2, <1>3, <1>4

LEMMA CreateWindowKeeps ==
  ASSUME SeatInv, NEW w \in Window, S!CreateWindow(w)
  PROVE  SeatInv'
<1> USE SeatIsASeat DEF S!SeatAssumption
<1>1. /\ win' = [win EXCEPT ![w] = S!NewWindow] /\ ~win[w].open
      /\ UNCHANGED <<keyboard, pressed, told, strayed, pointer, over, wire, queue, seat>>
      /\ UNCHANGED <<loop, failed>>
  BY DEF S!CreateWindow, S!KeyboardSide
<1>2. /\ Plain /\ FocusIsOpen /\ NamesOpenWindows(Coming, Open) /\ KeyboardInv /\ PointerInv
      /\ win \in [Window -> S!WindowRecord] /\ (loop.phase = "poll" => queue = <<>>)
  BY DEF SeatInv, Plain
<1>3. /\ S!NewWindow \in S!WindowRecord /\ S!NewWindow.open
      /\ S!NewWindow.current = S!NewWindow.cursor
  BY DEF S!NewWindow, S!WindowRecord, S!Mode, S!Surface
<1>4. /\ win' \in [Window -> S!WindowRecord] /\ win'[w] = S!NewWindow
      /\ \A v \in Window : v # w => win'[v] = win[v]
  BY <1>1, <1>2, <1>3
<1>5. Open' = Open \union {w} /\ w \notin Open
  BY <1>1, <1>3, <1>4 DEF Open
<1>6. Coming' = Coming
  BY <1>1 DEF Coming
<1>7. Plain'
  BY <1>1, <1>2, <1>4 DEF Plain, S!MaxEvents
<1>8. FocusIsOpen'
  BY <1>1, <1>2, <1>3, <1>4, <1>5 DEF FocusIsOpen
<1>9. NamesOpenWindows(Coming, Open)'
  BY <1>2, <1>5, <1>6 DEF NamesOpenWindows
<1>10. KeyboardInv'
  BY <1>1, <1>2, <1>6 DEF KeyboardInv, S!PressedIsDown, RepeatsPressed
<1>11. PointerIsOver'
  <2>1. SUFFICES ASSUME over.window # NoWindow
                 PROVE  PointerIsOver'
    BY <1>1 DEF PointerIsOver
  <2>2. over.window \in Open /\ over.window \in Window /\ over.window # w
    BY <1>2, <1>5, <2>1 DEF PointerInv, PointerIsOver, FocusIsOpen, Open
  <2>3. QED
    BY <1>1, <1>2, <1>4, <2>1, <2>2 DEF PointerInv, PointerIsOver
<1>12. PointerInv'
  BY <1>1, <1>2, <1>3, <1>4, <1>6, <1>11 DEF PointerInv, CursorsRemembered
<1>13. QED
  BY <1>1, <1>2, <1>7, <1>8, <1>9, <1>10, <1>12 DEF SeatInv

LEMMA DestroyWindowKeeps ==
  ASSUME SeatInv, NEW w \in Window, S!DestroyWindow(w)
  PROVE  SeatInv'
<1> USE SeatIsASeat DEF S!SeatAssumption
<1> DEFINE q == Coming
<1>1. /\ win' = [win EXCEPT ![w] = S!NoSuchWindow]
      /\ keyboard' = [keyboard EXCEPT !.focus = S!Unfocused(@, w)]
      /\ strayed' = IF keyboard.focus = w THEN strayed \union S!Repeating ELSE strayed
      /\ pointer' = [pointer EXCEPT !.focus = S!Unfocused(@, w)]
      /\ pressed' = [pressed EXCEPT ![w] = {}] /\ told' = [told EXCEPT ![w] = {}]
      /\ over' = IF over.window = w THEN S!Nowhere ELSE over
      /\ wire' = WithoutWindow(wire, w) /\ queue' = WithoutWindow(queue, w)
      /\ seat' = [seat EXCEPT !.focus = IF @ = w THEN NoWindow ELSE @,
                              !.at = IF @.window = w THEN S!Nowhere ELSE @]
      /\ UNCHANGED <<loop, failed>> /\ loop.phase = "app"
  <2>1. wire' = WithoutWindow(wire, w) /\ queue' = WithoutWindow(queue, w)
    BY DEF S!DestroyWindow, S!Orphaned, WithoutWindow
  <2>2. QED
    BY <2>1 DEF S!DestroyWindow, S!InLoop
<1>2. /\ Plain /\ FocusIsOpen /\ NamesOpenWindows(q, Open) /\ KeyboardInv /\ PointerInv
      /\ w # NoWindow
  BY DEF SeatInv
<1>3. /\ keyboard \in KeyboardRecord /\ pointer \in PointerRecord /\ seat \in SeatRecord
      /\ pressed \in [Window -> SUBSET SeatKey] /\ told \in [Window -> SUBSET SeatKey]
      /\ win \in [Window -> S!WindowRecord] /\ over \in S!Place
      /\ strayed \in SUBSET SeatKey /\ wire \in Seq(S!Event) /\ queue \in Seq(S!Event)
      /\ Len(wire) + Len(queue) <= S!MaxEvents
  BY <1>2 DEF Plain
<1>4. /\ wire' \in Seq(S!Event) /\ Len(wire') = Len(wire)
      /\ \A i \in 1..Len(wire) :
           /\ wire'[i].type = wire[i].type
           /\ ~OfFocus(wire[i]) => wire'[i] = wire[i]
           /\ OfFocus(wire[i]) =>
                wire'[i].window = IF wire[i].window = w THEN NoWindow ELSE wire[i].window
  BY <1>1, <1>3, OrphansWindow
<1>5. /\ queue' \in Seq(S!Event) /\ Len(queue') = Len(queue)
      /\ \A i \in 1..Len(queue) :
           /\ queue'[i].type = queue[i].type
           /\ ~OfFocus(queue[i]) => queue'[i] = queue[i]
           /\ OfFocus(queue[i]) =>
                queue'[i].window = IF queue[i].window = w THEN NoWindow ELSE queue[i].window
  BY <1>1, <1>3, OrphansWindow
<1>6. /\ Len(q') = Len(q) /\ Len(q) \in Nat
      /\ \A i \in 1..Len(q) :
           \/ \E j \in 1..Len(queue) : q[i] = queue[j] /\ q'[i] = queue'[j]
           \/ \E j \in 1..Len(wire) : q[i] = wire[j] /\ q'[i] = wire'[j]
  BY <1>2, <1>4, <1>5, ComingElementwise
<1> HIDE DEF q
<1>7. \A i \in 1..Len(q) :
         /\ q'[i].type = q[i].type
         /\ ~OfFocus(q[i]) => q'[i] = q[i]
         /\ OfFocus(q[i]) =>
              q'[i].window = IF q[i].window = w THEN NoWindow ELSE q[i].window
  <2> SUFFICES ASSUME NEW i \in 1..Len(q)
               PROVE  /\ q'[i].type = q[i].type
                      /\ ~OfFocus(q[i]) => q'[i] = q[i]
                      /\ OfFocus(q[i]) =>
                           q'[i].window = IF q[i].window = w THEN NoWindow ELSE q[i].window
    OBVIOUS
  <2>1. ASSUME NEW j \in 1..Len(queue), q[i] = queue[j], q'[i] = queue'[j]
        PROVE  /\ q'[i].type = q[i].type
               /\ ~OfFocus(q[i]) => q'[i] = q[i]
               /\ OfFocus(q[i]) =>
                    q'[i].window = IF q[i].window = w THEN NoWindow ELSE q[i].window
    BY <1>5, <2>1
  <2>2. ASSUME NEW j \in 1..Len(wire), q[i] = wire[j], q'[i] = wire'[j]
        PROVE  /\ q'[i].type = q[i].type
               /\ ~OfFocus(q[i]) => q'[i] = q[i]
               /\ OfFocus(q[i]) =>
                    q'[i].window = IF q[i].window = w THEN NoWindow ELSE q[i].window
    BY <1>4, <2>2
  <2>3. QED
    BY <1>6, <2>1, <2>2
<1>8. /\ keyboard' \in KeyboardRecord
      /\ keyboard'.focus = IF keyboard.focus = w THEN NoWindow ELSE keyboard.focus
      /\ keyboard'.armed = keyboard.armed /\ keyboard'.expired = keyboard.expired
      /\ keyboard'.scancode = keyboard.scancode
  BY <1>1, <1>3 DEF KeyboardRecord, S!Unfocused
<1>9. /\ pointer' \in PointerRecord
      /\ pointer'.focus = IF pointer.focus = w THEN NoWindow ELSE pointer.focus
      /\ pointer'.bound = pointer.bound /\ pointer'.shown = pointer.shown
  BY <1>1, <1>3 DEF PointerRecord, S!Unfocused
<1>10. S!Nowhere \in S!Place /\ S!Nowhere.window = NoWindow
  BY DEF S!Place, S!Nowhere
<1>11. /\ seat' \in SeatRecord
       /\ seat'.focus = IF seat.focus = w THEN NoWindow ELSE seat.focus
       /\ seat'.at = IF seat.at.window = w THEN S!Nowhere ELSE seat.at
       /\ seat'.devices = seat.devices
  BY <1>1, <1>3, <1>10 DEF SeatRecord
<1>12. /\ S!NoSuchWindow \in S!WindowRecord /\ ~S!NoSuchWindow.open
       /\ S!NoSuchWindow.current = S!NoSuchWindow.cursor
  BY DEF S!NoSuchWindow, S!NewWindow, S!WindowRecord, S!Mode, S!Surface
<1>13. /\ win' \in [Window -> S!WindowRecord] /\ win'[w] = S!NoSuchWindow
       /\ \A v \in Window : v # w => win'[v] = win[v]
  BY <1>1, <1>3, <1>12
<1>14. Open' = Open \ {w}
  BY <1>12, <1>13 DEF Open
<1>15. /\ pressed' \in [Window -> SUBSET SeatKey] /\ told' \in [Window -> SUBSET SeatKey]
       /\ pressed'[w] = {} /\ told'[w] = {}
       /\ \A v \in Window : v # w => pressed'[v] = pressed[v] /\ told'[v] = told[v]
  BY <1>1, <1>3
<1>16. strayed \subseteq strayed' /\ strayed' \in SUBSET SeatKey
       /\ (keyboard.armed /\ keyboard.focus = w => keyboard.scancode \in strayed')
  <2>1. keyboard.armed /\ keyboard.focus = w => keyboard.scancode \in SeatKey
    BY <1>2, <1>3 DEF KeyboardInv, RepeatsPressed
  <2>2. QED
    BY <1>1, <1>3, <2>1 DEF S!Repeating
<1>17. S!PressedIsDown'
  BY <1>2, <1>15, <1>16 DEF KeyboardInv, S!PressedIsDown
<1>18. RepeatsPressed'
  BY <1>2, <1>3, <1>8, <1>15, <1>16 DEF KeyboardInv, RepeatsPressed, KeyboardRecord
<1>19. strayed' # SeatKey => FocusFollows(q', keyboard'.focus, seat'.focus)
  <2>1. SUFFICES ASSUME strayed' # SeatKey
                 PROVE  FocusFollows(q', keyboard'.focus, seat'.focus)
    OBVIOUS
  <2>2. FocusFollows(q, keyboard.focus, seat.focus)
    BY <1>2, <1>16, <2>1 DEF KeyboardInv, q
  <2>3. FocusFollows(q', IF keyboard.focus = w THEN NoWindow ELSE keyboard.focus,
                         IF seat.focus = w THEN NoWindow ELSE seat.focus)
    BY <1>2, <1>6, <1>7, <2>2, FocusOrphans
  <2>4. QED
    BY <1>8, <1>11, <2>3
<1>20. EntersAfterDevices(q') /\ PointerIsBound(q', pointer'.bound)
  BY <1>2, <1>6, <1>7, <1>9 DEF PointerInv, EntersAfterDevices, PointerIsBound, q
<1>21. NamesOpenWindows(q', Open')
  BY <1>2, <1>6, <1>7, <1>14 DEF NamesOpenWindows, OfFocus
<1>22. over' \in S!Place /\ over' = IF over.window = w THEN S!Nowhere ELSE over
  BY <1>1, <1>3, <1>10
<1>23. PointerIsOver'
  <2>1. CASE over.window = w \/ over.window = NoWindow
    BY <1>10, <1>22, <2>1 DEF PointerIsOver
  <2>2. CASE over.window # w /\ over.window # NoWindow
    <3>1. over.window \in Window
      BY <1>3, <2>2 DEF S!Place, S!Nowhere
    <3>2. QED
      BY <1>2, <1>9, <1>13, <1>22, <2>2, <3>1 DEF PointerInv, PointerIsOver
  <2>3. QED
    BY <2>1, <2>2
<1>24. CursorsRemembered'
  BY <1>2, <1>12, <1>13 DEF PointerInv, CursorsRemembered
<1>25. Plain'
  BY <1>1, <1>2, <1>3, <1>4, <1>5, <1>8, <1>9, <1>11, <1>13, <1>15, <1>16, <1>22
     DEF Plain, S!MaxEvents
<1>26. FocusIsOpen'
  <2>1. {keyboard'.focus, pointer'.focus, seat'.focus, seat'.at.window}
          \subseteq Open' \union {NoWindow}
    BY <1>2, <1>8, <1>9, <1>10, <1>11, <1>14 DEF FocusIsOpen
  <2>2. QED
    BY <1>2, <1>12, <1>13, <2>1 DEF FocusIsOpen
<1>27. KeyboardInv' /\ PointerInv'
  BY <1>17, <1>18, <1>19, <1>20, <1>23, <1>24 DEF KeyboardInv, PointerInv, q
<1>28. QED
  BY <1>1, <1>21, <1>25, <1>26, <1>27 DEF SeatInv, q

LEMMA DestroyFrameKeeps ==
  ASSUME SeatInv, NEW w \in Window, S!DestroyFrame(w)
  PROVE  SeatInv'
<1> USE SeatIsASeat DEF S!SeatAssumption
<1> DEFINE q == Coming
           frame == [window |-> w, part |-> "frame"]
<1>1. /\ wire' = WithoutFrame(wire, w) /\ queue' = WithoutFrame(queue, w)
      /\ over' = IF over = frame THEN S!Nowhere ELSE over
      /\ seat' = [seat EXCEPT !.at = IF @ = frame THEN S!Nowhere ELSE @]
      /\ UNCHANGED <<keyboard, pressed, told, strayed, pointer, win, loop, failed>>
      /\ loop.phase # "poll"
  <2>1. wire' = WithoutFrame(wire, w) /\ queue' = WithoutFrame(queue, w)
    BY DEF S!DestroyFrame, S!Orphaned, WithoutFrame
  <2>2. QED
    BY <2>1 DEF S!DestroyFrame, S!Awake, S!KeyboardSide
<1>2. /\ Plain /\ FocusIsOpen /\ NamesOpenWindows(q, Open) /\ KeyboardInv /\ PointerInv
      /\ w # NoWindow
  BY DEF SeatInv
<1>3. /\ seat \in SeatRecord /\ over \in S!Place
      /\ wire \in Seq(S!Event) /\ queue \in Seq(S!Event)
  BY <1>2 DEF Plain
<1>4. /\ wire' \in Seq(S!Event) /\ Len(wire') = Len(wire)
      /\ \A i \in 1..Len(wire) :
           /\ wire'[i].type = wire[i].type
           /\ ~OfFocus(wire[i]) \/ wire[i].type \in {"kenter", "kleave"} => wire'[i] = wire[i]
           /\ OfFocus(wire[i]) =>
                wire'[i].window = NoWindow \/ wire'[i].window = wire[i].window
  BY <1>1, <1>3, OrphansFrame
<1>5. /\ queue' \in Seq(S!Event) /\ Len(queue') = Len(queue)
      /\ \A i \in 1..Len(queue) :
           /\ queue'[i].type = queue[i].type
           /\ ~OfFocus(queue[i]) \/ queue[i].type \in {"kenter", "kleave"}
                => queue'[i] = queue[i]
           /\ OfFocus(queue[i]) =>
                queue'[i].window = NoWindow \/ queue'[i].window = queue[i].window
  BY <1>1, <1>3, OrphansFrame
<1>6. /\ Len(q') = Len(q) /\ Len(q) \in Nat
      /\ \A i \in 1..Len(q) :
           \/ \E j \in 1..Len(queue) : q[i] = queue[j] /\ q'[i] = queue'[j]
           \/ \E j \in 1..Len(wire) : q[i] = wire[j] /\ q'[i] = wire'[j]
  BY <1>2, <1>4, <1>5, ComingElementwise
<1> HIDE DEF q, frame
<1>7. \A i \in 1..Len(q) :
         /\ q'[i].type = q[i].type
         /\ ~OfFocus(q[i]) \/ q[i].type \in {"kenter", "kleave"} => q'[i] = q[i]
         /\ OfFocus(q[i]) => q'[i].window = NoWindow \/ q'[i].window = q[i].window
  <2> SUFFICES ASSUME NEW i \in 1..Len(q)
               PROVE  /\ q'[i].type = q[i].type
                      /\ ~OfFocus(q[i]) \/ q[i].type \in {"kenter", "kleave"}
                           => q'[i] = q[i]
                      /\ OfFocus(q[i]) =>
                           q'[i].window = NoWindow \/ q'[i].window = q[i].window
    OBVIOUS
  <2>1. ASSUME NEW j \in 1..Len(queue), q[i] = queue[j], q'[i] = queue'[j]
        PROVE  /\ q'[i].type = q[i].type
               /\ ~OfFocus(q[i]) \/ q[i].type \in {"kenter", "kleave"} => q'[i] = q[i]
               /\ OfFocus(q[i]) => q'[i].window = NoWindow \/ q'[i].window = q[i].window
    BY <1>5, <2>1
  <2>2. ASSUME NEW j \in 1..Len(wire), q[i] = wire[j], q'[i] = wire'[j]
        PROVE  /\ q'[i].type = q[i].type
               /\ ~OfFocus(q[i]) \/ q[i].type \in {"kenter", "kleave"} => q'[i] = q[i]
               /\ OfFocus(q[i]) => q'[i].window = NoWindow \/ q'[i].window = q[i].window
    BY <1>4, <2>2
  <2>3. QED
    BY <1>6, <2>1, <2>2
<1>8. S!Nowhere \in S!Place /\ S!Nowhere.window = NoWindow
  BY DEF S!Place, S!Nowhere
<1>9. /\ seat' \in SeatRecord /\ seat'.focus = seat.focus /\ seat'.devices = seat.devices
      /\ seat'.at.window \in {seat.at.window, NoWindow}
  BY <1>1, <1>3, <1>8 DEF SeatRecord
<1>10. Open' = Open
  BY <1>1 DEF Open
<1>11. strayed # SeatKey => FocusFollows(q', keyboard.focus, seat.focus)
  BY <1>2, <1>6, <1>7, FocusFrame DEF KeyboardInv, q
<1>12. KeyboardInv'
  <2>1. S!PressedIsDown' /\ RepeatsPressed'
    BY <1>1, <1>2 DEF KeyboardInv, S!PressedIsDown, RepeatsPressed
  <2>2. QED
    BY <1>1, <1>9, <1>11, <2>1 DEF KeyboardInv, q
<1>13. EntersAfterDevices(q') /\ PointerIsBound(q', pointer.bound)
  BY <1>2, <1>6, <1>7 DEF PointerInv, EntersAfterDevices, PointerIsBound, q
<1>14. NamesOpenWindows(q', Open)
  BY <1>2, <1>6, <1>7 DEF NamesOpenWindows, OfFocus
<1>15. PointerInv'
  BY <1>1, <1>2, <1>8, <1>13
     DEF PointerInv, PointerIsOver, CursorsRemembered, q
<1>16. over' \in S!Place
  BY <1>1, <1>3, <1>8
<1>17. Plain'
  BY <1>1, <1>2, <1>4, <1>5, <1>9, <1>16 DEF Plain, S!MaxEvents
<1>18. FocusIsOpen'
  BY <1>1, <1>2, <1>9, <1>10 DEF FocusIsOpen
<1>19. QED
  BY <1>1, <1>10, <1>12, <1>14, <1>15, <1>17, <1>18 DEF SeatInv, q

LEMMA SetCursorKeeps ==
  ASSUME SeatInv, NEW w \in Window, NEW c \in Cursor \union {NoCursor},
         NEW r \in S!WindowRecord, S!SetCursor(w, c, r, pointer),
         win[w].open, r.open, r.part = win[w].part, r.lock = win[w].lock,
         r.current = win[w].current,
         ~r.missed => IF pointer.bound THEN c = r.cursor ELSE r.current = r.cursor,
         UNCHANGED <<keyboard, pressed, told, strayed, over, loop, wire, queue, seat, failed>>
  PROVE  SeatInv'
<1>1. Plain /\ PointerInv /\ pointer \in PointerRecord /\ loop \in LoopRecord
      /\ failed \in BOOLEAN /\ FocusIsOpen /\ over \in S!Place
  BY DEF SeatInv, Plain
<1>2. /\ win' \in [Window -> S!WindowRecord] /\ pointer' \in PointerRecord
      /\ \A v \in Window : v # w => win'[v] = win[v]
      /\ win'[w].open = r.open /\ win'[w].mode = r.mode /\ win'[w].cursor = r.cursor
      /\ win'[w].missed = r.missed /\ win'[w].part = r.part
      /\ win'[w].current = IF pointer.bound THEN c ELSE r.current
      /\ pointer'.bound = pointer.bound /\ pointer'.focus = pointer.focus
      /\ IF pointer.bound /\ w = pointer.focus /\ r.part = "main"
         THEN /\ win'[w].lock = S!LockOf(r.mode)
              /\ r.mode \in {"normal", "captured"} => pointer'.shown = c
         ELSE win'[w].lock = r.lock /\ pointer' = pointer
  BY <1>1, SetCursorSets
<1>3. \A v \in Window : /\ win'[v].open = win[v].open
                        /\ ~win'[v].open => win'[v] = win[v]
  BY <1>2
<1>4. CursorsRemembered'
  BY <1>1, <1>2 DEF PointerInv, CursorsRemembered
<1>5. PointerIsOver'
  <2>1. SUFFICES ASSUME over.window # NoWindow
                 PROVE  PointerIsOver'
    BY DEF PointerIsOver
  <2>2. /\ pointer.bound /\ pointer.focus = over.window
        /\ win[over.window].part = over.part
        /\ over.part = "main" => win[over.window].lock = S!LockOf(win[over.window].mode)
        /\ over.part = "main" /\ win[over.window].mode \in {"normal", "captured"}
             => pointer.shown = win[over.window].current
    BY <1>1, <2>1 DEF PointerInv, PointerIsOver
  <2>3. CASE over.window = w
    BY <1>2, <2>2, <2>3 DEF PointerIsOver
  <2>4. CASE over.window # w
    <3>1. over.window \in Window
      BY <1>1, <2>1 DEF S!Place, S!Nowhere
    <3>2. win'[over.window] = win[over.window] /\ pointer' = pointer
      BY <1>2, <2>2, <2>4, <3>1
    <3>3. QED
      BY <2>2, <3>2 DEF PointerIsOver
  <2>5. QED
    BY <2>3, <2>4
<1>6. QED
  BY <1>1, <1>2, <1>3, <1>4, <1>5, PointerStepKeeps

LEMMA ApplicationKeeps ==
  ASSUME SeatInv, S!Application
  PROVE  SeatInv'
<1>1. win \in [Window -> S!WindowRecord] /\ pointer \in PointerRecord /\ CursorsRemembered
  BY DEF SeatInv, Plain, PointerInv
<1>2. ASSUME NEW w \in Window, NEW mode \in S!Mode, S!SetCursorMode(w, mode)
      PROVE  SeatInv'
  <2> DEFINE r == [win[w] EXCEPT !.mode = mode]
             c == win[w].current
  <2>1. /\ S!SetCursor(w, c, r, pointer) /\ win[w].open
        /\ UNCHANGED <<keyboard, pressed, told, strayed, over, loop, wire, queue, seat>>
        /\ UNCHANGED failed
    BY <1>2 DEF S!SetCursorMode, S!SetsCursor, S!KeyboardSide
  <2>2. /\ r \in S!WindowRecord /\ r.open = win[w].open /\ r.part = win[w].part
        /\ r.lock = win[w].lock /\ r.current = win[w].current /\ r.cursor = win[w].cursor
        /\ r.missed = win[w].missed /\ c \in Cursor \union {NoCursor}
    BY <1>1 DEF S!WindowRecord
  <2>3. c = r.current /\ (~r.missed => c = r.cursor)
    BY <1>1, <2>2 DEF CursorsRemembered
  <2> HIDE DEF r, c
  <2>4. QED
    BY <2>1, <2>2, <2>3, SetCursorKeeps
<1>3. ASSUME NEW w \in Window, NEW c \in Cursor \union {NoCursor}, S!SetWindowCursor(w, c)
      PROVE  SeatInv'
  <2> DEFINE m == ~pointer.bound /\ c # win[w].current
             r == [win[w] EXCEPT !.cursor = c, !.missed = m]
  <2>1. /\ S!SetCursor(w, c, r, pointer) /\ win[w].open
        /\ UNCHANGED <<keyboard, pressed, told, strayed, over, loop, wire, queue, seat>>
        /\ UNCHANGED failed
    BY <1>3 DEF S!SetWindowCursor, S!SetsCursor, S!KeyboardSide
  <2>2. m \in BOOLEAN /\ (m <=> ~pointer.bound /\ c # win[w].current)
    OBVIOUS
  <2> HIDE DEF m
  <2>3. /\ r \in S!WindowRecord /\ r.open = win[w].open /\ r.part = win[w].part
        /\ r.lock = win[w].lock /\ r.current = win[w].current /\ r.cursor = c
        /\ r.mode = win[w].mode
    BY <1>1, <2>2 DEF S!WindowRecord
  <2>4. r.missed = m
    BY <1>1 DEF S!WindowRecord
  <2>5. ~r.missed => IF pointer.bound THEN c = r.cursor ELSE r.current = r.cursor
    BY <2>2, <2>3, <2>4
  <2> HIDE DEF r
  <2>6. QED
    BY <2>1, <2>3, <2>5, SetCursorKeeps
<1>4. QED
  BY <1>2, <1>3, CreateWindowKeeps, DestroyWindowKeeps, DestroyFrameKeeps DEF S!Application

LEMMA NoCapsComing ==
  ASSUME Plain, S!NoCapsPending
  PROVE  \A i \in 1..Len(Coming) : Coming[i].type # "caps"
<1>1. /\ Len(Coming) = Len(queue) + Len(wire) /\ Len(queue) \in Nat /\ Len(wire) \in Nat
      /\ \A i \in 1..Len(Coming) :
           Coming[i] = IF i <= Len(queue) THEN queue[i] ELSE wire[i - Len(queue)]
      /\ wire \in Seq(S!Event) /\ queue \in Seq(S!Event)
  BY ComingIs DEF Plain
<1>2. /\ \A i \in 1..Len(queue) : queue[i].type # "caps"
      /\ \A i \in 1..Len(wire) : wire[i].type # "caps"
  BY <1>1 DEF S!NoCapsPending
<1>3. ASSUME NEW i \in 1..Len(Coming)
      PROVE  Coming[i].type # "caps"
  <2>1. CASE i <= Len(queue)
    BY <1>1, <1>2, <2>1
  <2>2. CASE ~(i <= Len(queue))
    <3>1. i - Len(queue) \in 1..Len(wire) /\ Coming[i] = wire[i - Len(queue)]
      BY <1>1, <2>2
    <3>2. QED
      BY <1>2, <3>1
  <2>3. QED
    BY <2>1, <2>2
<1>4. QED
  BY <1>3

LEMMA SendKeeps ==
  ASSUME SeatInv, NEW e \in S!Event, S!Send(e), S!Elsewhere,
         seat' \in SeatRecord, seat'.devices = seat.devices,
         seat'.focus \in Open \union {NoWindow}, seat'.at.window \in Open \union {NoWindow},
         OfFocus(e) => e.window \in Open \union {NoWindow},
         e.type = "penter" => pointer.bound /\ S!NoCapsPending,
         IF Moves(e)
         THEN /\ MovesTo(e) = seat'.focus
              /\ e.type = "kenter" => seat.focus = NoWindow /\ S!NoCapsPending
         ELSE \/ seat'.focus = seat.focus
              \/ seat'.focus = NoWindow /\ e.type = "caps" /\ ~e.keyboard
  PROVE  SeatInv'
<1> DEFINE q == Coming
           n == Len(q)
<1>1. /\ Plain /\ FocusIsOpen /\ NamesOpenWindows(q, Open) /\ KeyboardInv /\ PointerInv
      /\ (loop.phase = "poll" => queue = <<>>)
  BY DEF SeatInv
<1>2. UNCHANGED <<keyboard, pressed, told, strayed, pointer, win, over, loop, queue, failed>>
  BY DEF S!Elsewhere, S!Input, S!KeyboardSide, S!PointerSide
<1>3. /\ Len(q') = n + 1 /\ n \in Nat /\ \A i \in 1..n : q'[i] = q[i]
      /\ q'[n + 1] = e
      /\ wire' \in Seq(S!Event) /\ queue' \in Seq(S!Event)
      /\ Len(wire') + Len(queue') <= S!MaxEvents
  BY <1>1, <1>2, AppendToComing
<1>4. S!NoCapsPending => \A i \in 1..n : q[i].type # "caps"
  BY <1>1, NoCapsComing
<1> HIDE DEF q
<1>5. q'[Len(q')] = e /\ \A i \in 1..Len(q') : i \in 1..n \/ i = n + 1
  BY <1>3
<1>6. strayed # SeatKey => FocusFollows(q', keyboard.focus, seat'.focus)
  <2>1. SUFFICES ASSUME strayed # SeatKey
                 PROVE  FocusFollows(q', keyboard.focus, seat'.focus)
    OBVIOUS
  <2>2. FocusFollows(q, keyboard.focus, seat.focus)
    BY <1>1, <2>1 DEF KeyboardInv, q
  <2>3. LET f == q'[Len(q')]
        IN IF Moves(f)
           THEN /\ MovesTo(f) = seat'.focus
                /\ f.type = "kenter" =>
                     seat.focus = NoWindow /\ \A i \in 1..Len(q) : q[i].type # "caps"
           ELSE seat'.focus = seat.focus
                \/ (seat'.focus = NoWindow /\ f.type = "caps" /\ ~f.keyboard)
    BY <1>4, <1>5
  <2>4. QED
    BY <1>3, <2>2, <2>3, FocusAppend
<1>7. EntersAfterDevices(q')
  <2> SUFFICES ASSUME NEW i \in 1..Len(q'), NEW j \in 1..Len(q'), i < j,
                      q'[i].type = "caps", q'[j].type = "penter"
               PROVE  FALSE
    BY DEF EntersAfterDevices
  <2>1. i \in 1..n /\ q'[i] = q[i]
    BY <1>3
  <2>2. CASE j \in 1..n
    BY <1>1, <1>3, <2>1, <2>2 DEF PointerInv, EntersAfterDevices, q
  <2>3. CASE j = n + 1
    BY <1>3, <1>4, <2>1, <2>3
  <2>4. QED
    BY <1>5, <2>2, <2>3
<1>8. PointerIsBound(q', pointer.bound)
  BY <1>1, <1>3, <1>5 DEF PointerInv, PointerIsBound, q
<1>9. NamesOpenWindows(q', Open)
  BY <1>1, <1>3, <1>5 DEF NamesOpenWindows
<1>10. Open' = Open
  BY <1>2 DEF Open
<1>11. Plain'
  BY <1>1, <1>2, <1>3 DEF Plain, S!MaxEvents
<1>12. FocusIsOpen'
  BY <1>1, <1>2, <1>10 DEF FocusIsOpen
<1>13. KeyboardInv'
  <2>1. S!PressedIsDown' /\ RepeatsPressed'
    BY <1>1, <1>2 DEF KeyboardInv, S!PressedIsDown, RepeatsPressed
  <2>2. QED
    BY <1>2, <1>6, <2>1 DEF KeyboardInv, q
<1>14. PointerInv'
  BY <1>1, <1>2, <1>7, <1>8 DEF PointerInv, PointerIsOver, CursorsRemembered, q
<1>15. QED
  BY <1>1, <1>2, <1>9, <1>10, <1>11, <1>12, <1>13, <1>14 DEF SeatInv, q

LEMMA EnvironmentKeeps ==
  ASSUME SeatInv, S!Environment
  PROVE  SeatInv'
<1> USE SeatIsASeat DEF S!SeatAssumption
<1>1. /\ Plain /\ seat \in SeatRecord /\ FocusIsOpen /\ Open \subseteq Window
      /\ seat.focus \in Open \union {NoWindow} /\ seat.at.window \in Open \union {NoWindow}
      /\ S!Nowhere \in S!Place /\ S!Nowhere.window = NoWindow /\ seat.at \in S!Place
  BY DEF SeatInv, Plain, FocusIsOpen, Open, SeatRecord, S!Place, S!Nowhere
<1>2. ASSUME NEW w \in Window, S!SendKeyboardEnter(w)
      PROVE  SeatInv'
  <2> DEFINE e == [type |-> "kenter", window |-> w]
  <2>1. S!Send(e) /\ S!Elsewhere /\ seat' = [seat EXCEPT !.focus = w] /\ w \in Open
        /\ seat.focus = NoWindow /\ S!NoCapsPending
    BY <1>2 DEF S!SendKeyboardEnter, Open
  <2>2. e \in S!Event /\ e.type = "kenter" /\ e.window = w
    BY DEF S!Event, S!FocusEvent
  <2>3. /\ seat' \in SeatRecord /\ seat'.devices = seat.devices /\ seat'.focus = w
        /\ seat'.at = seat.at
    BY <1>1, <2>1 DEF SeatRecord
  <2> HIDE DEF e
  <2>4. Moves(e) /\ MovesTo(e) = w
    BY <2>2 DEF Moves, MovesTo
  <2>5. QED
    BY <1>1, <2>1, <2>2, <2>3, <2>4, SendKeeps
<1>3. ASSUME NEW w \in Window, NEW part \in S!Surface, S!SendPointerEnter(w, part)
      PROVE  SeatInv'
  <2> DEFINE e == [type |-> "penter", window |-> w, part |-> part]
             place == [window |-> w, part |-> part]
  <2>1. S!Send(e) /\ S!Elsewhere /\ seat' = [seat EXCEPT !.at = place] /\ w \in Open
        /\ pointer.bound /\ S!NoCapsPending
    BY <1>3 DEF S!SendPointerEnter, Open
  <2>2. e \in S!Event /\ e.type = "penter" /\ e.window = w
    BY DEF S!Event, S!FocusEvent
  <2>3. place \in S!Place /\ place.window = w
    BY DEF S!Place
  <2> HIDE DEF place
  <2>4. /\ seat' \in SeatRecord /\ seat'.devices = seat.devices /\ seat'.focus = seat.focus
        /\ seat'.at = place
    BY <1>1, <2>1, <2>3 DEF SeatRecord
  <2> HIDE DEF e
  <2>5. ~Moves(e)
    BY <2>2 DEF Moves
  <2>6. QED
    BY <1>1, <2>1, <2>2, <2>3, <2>4, <2>5, SendKeeps
<1>4. CASE S!SendKeyboardLeave
  <2> DEFINE e == [type |-> "kleave", window |-> seat.focus]
  <2>1. S!Send(e) /\ S!Elsewhere /\ seat' = [seat EXCEPT !.focus = NoWindow]
    BY <1>4 DEF S!SendKeyboardLeave
  <2>2. e \in S!Event /\ e.type = "kleave" /\ e.window = seat.focus
    BY <1>1 DEF S!Event, S!FocusEvent
  <2>3. /\ seat' \in SeatRecord /\ seat'.devices = seat.devices /\ seat'.focus = NoWindow
        /\ seat'.at = seat.at
    BY <1>1, <2>1 DEF SeatRecord
  <2> HIDE DEF e
  <2>4. Moves(e) /\ MovesTo(e) = NoWindow
    BY <2>2 DEF Moves, MovesTo
  <2>5. QED
    BY <1>1, <2>1, <2>2, <2>3, <2>4, SendKeeps
<1>5. ASSUME NEW k \in SeatKey, S!ChangeKey(k)
      PROVE  SeatInv'
  <2> DEFINE pushed == k \notin seat.held
             e == [type |-> "key", key |-> k, pressed |-> pushed]
             held == IF k \in seat.held THEN seat.held \ {k} ELSE seat.held \union {k}
  <2>1. /\ S!Elsewhere /\ seat' = [seat EXCEPT !.held = held]
        /\ IF seat.focus = NoWindow THEN UNCHANGED wire ELSE S!Send(e)
    BY <1>5 DEF S!ChangeKey
  <2>2. pushed \in BOOLEAN
    OBVIOUS
  <2> HIDE DEF pushed
  <2>3. e \in S!Event /\ e.type = "key"
    BY <2>2 DEF S!Event, S!KeyEvent
  <2>4. held \in SUBSET SeatKey
    BY <1>1 DEF SeatRecord
  <2> HIDE DEF held, e
  <2>5. /\ seat' \in SeatRecord /\ seat'.devices = seat.devices /\ seat'.focus = seat.focus
        /\ seat'.at = seat.at
    BY <1>1, <2>1, <2>4 DEF SeatRecord
  <2>6. CASE seat.focus # NoWindow
    <3>1. ~Moves(e) /\ ~OfFocus(e)
      BY <2>3 DEF Moves, OfFocus
    <3>2. QED
      BY <1>1, <2>1, <2>3, <2>5, <2>6, <3>1, SendKeeps
  <2>7. CASE seat.focus = NoWindow
    <3>1. UNCHANGED <<keyboard, pressed, told, strayed, pointer, win, over, loop, queue, wire>>
          /\ UNCHANGED failed
      BY <2>1, <2>7 DEF S!Elsewhere, S!Input, S!KeyboardSide, S!PointerSide
    <3>2. Coming' = Coming /\ Open' = Open
      BY <3>1 DEF Coming, Open
    <3>3. Plain'
      BY <1>1, <2>5, <3>1 DEF Plain, S!MaxEvents
    <3>4. FocusIsOpen' /\ NamesOpenWindows(Coming, Open)'
      BY <2>5, <3>1, <3>2 DEF SeatInv, FocusIsOpen
    <3>5. KeyboardInv' /\ PointerInv'
      BY <2>5, <3>1, <3>2
         DEF SeatInv, KeyboardInv, PointerInv, S!PressedIsDown, RepeatsPressed,
             PointerIsOver, CursorsRemembered
    <3>6. QED
      BY <3>1, <3>3, <3>4, <3>5 DEF SeatInv
  <2>8. QED
    BY <2>6, <2>7
<1>6. ASSUME NEW type, S!SendPointer(type)
      PROVE  SeatInv'
  <2> DEFINE e == [type |-> type, window |-> seat.at.window, part |-> seat.at.part]
  <2>1. /\ S!Send(e) /\ S!Elsewhere /\ type \in {"pleave", "motion"}
        /\ seat' = IF type = "pleave" THEN [seat EXCEPT !.at = S!Nowhere] ELSE seat
    BY <1>6 DEF S!SendPointer
  <2>2. seat.at.window \in Window \union {NoWindow} /\ seat.at.part \in S!Surface
    BY <1>1 DEF S!Place, S!Surface, S!Nowhere
  <2>3. e \in S!Event /\ e.type = type /\ e.window = seat.at.window
    BY <2>1, <2>2 DEF S!Event, S!FocusEvent
  <2>4. /\ seat' \in SeatRecord /\ seat'.devices = seat.devices /\ seat'.focus = seat.focus
        /\ seat'.at.window \in {seat.at.window, NoWindow}
    BY <1>1, <2>1 DEF SeatRecord
  <2> HIDE DEF e
  <2>5. ~Moves(e)
    BY <2>1, <2>3 DEF Moves
  <2>6. QED
    BY <1>1, <2>1, <2>3, <2>4, <2>5, SendKeeps
<1>7. ASSUME NEW k \in BOOLEAN, NEW p \in BOOLEAN, S!SendCapabilities(k, p)
      PROVE  SeatInv'
  <2> DEFINE e == [type |-> "caps", keyboard |-> k, pointer |-> p]
             focus == IF k THEN seat.focus ELSE NoWindow
             held == IF k THEN seat.held ELSE {}
             place == IF p THEN seat.at ELSE S!Nowhere
  <2>1. /\ S!Send(e) /\ S!Elsewhere
        /\ seat' = [seat EXCEPT !.keyboard = k, !.pointer = p, !.focus = focus,
                                !.held = held, !.at = place]
    BY <1>7 DEF S!SendCapabilities
  <2>2. e \in S!Event /\ e.type = "caps" /\ e.keyboard = k
    BY DEF S!Event, S!CapsEvent
  <2>3. /\ focus \in Open \union {NoWindow} /\ held \in SUBSET SeatKey /\ place \in S!Place
        /\ place.window \in Open \union {NoWindow}
        /\ focus = seat.focus \/ (focus = NoWindow /\ ~k)
    BY <1>1 DEF SeatRecord
  <2> HIDE DEF e, focus, held, place
  <2>4. /\ seat' \in SeatRecord /\ seat'.devices = seat.devices /\ seat'.focus = focus
        /\ seat'.at = place
    BY <1>1, <2>1, <2>3 DEF SeatRecord
  <2>5. ~Moves(e) /\ ~OfFocus(e)
    BY <2>2 DEF Moves, OfFocus
  <2>6. QED
    BY <1>1, <2>1, <2>2, <2>3, <2>4, <2>5, SendKeeps
<1>8. CASE S!PostEmptyEvent
  <2> DEFINE e == [type |-> "done"]
  <2>1. S!Send(e) /\ S!Elsewhere /\ seat' = seat
    BY <1>8 DEF S!PostEmptyEvent
  <2>2. e \in S!Event /\ e.type = "done"
    BY DEF S!Event
  <2> HIDE DEF e
  <2>3. ~Moves(e) /\ ~OfFocus(e)
    BY <2>2 DEF Moves, OfFocus
  <2>4. QED
    BY <1>1, <2>1, <2>2, <2>3, SendKeeps
<1>9. QED
  BY <1>2, <1>3, <1>4, <1>5, <1>6, <1>7, <1>8, TimersKeep DEF S!Environment

\* A key is pressed only while it is down, and the pointer has the lock and the image
\* of the window that it is over, on any number of windows and keys and however many
\* events are on their way (the handlers and handleEvents of wl_window.cpp).
THEOREM SeatAgreesAlways == DevicesSpec => []SeatAgrees
<1> DEFINE Inv == subject = "seat" => SeatInv
<1>1. DevicesInit => Inv
  BY SeatInit DEF DevicesInit
<1>2. Inv /\ [DevicesNext]_<<subject, vars, controllers, seatVars>> => Inv'
  <2> SUFFICES ASSUME Inv, [DevicesNext]_<<subject, vars, controllers, seatVars>>,
                      subject' = "seat"
               PROVE  SeatInv'
    OBVIOUS
  <2>1. CASE subject = "seat" /\ S!Next
    <3>1. SeatInv
      BY <2>1
    <3>2. S!Loop \/ S!Application \/ S!Environment
      BY <2>1 DEF S!Next
    <3>3. QED
      BY <3>1, <3>2, LoopKeeps, ApplicationKeeps, EnvironmentKeeps
  <2>2. CASE UNCHANGED seatVars /\ UNCHANGED subject
    <3>1. SeatInv
      BY <2>2
    <3>2. UNCHANGED <<keyboard, pressed, told, strayed, pointer, win, over, seat, failed>>
          /\ UNCHANGED <<loop, wire, queue>>
      BY <2>2 DEF seatVars
    <3>3. Coming' = Coming /\ Plain
      BY <3>1, <3>2 DEF Coming, SeatInv
    <3>4. QED
      BY <3>1, <3>2, <3>3, LoopStepKeeps DEF SeatInv, Plain
  <2>3. QED
    BY <2>1, <2>2 DEF DevicesNext
<1>3. Inv => SeatAgrees
  <2>1. SeatInv => SeatAgrees
    BY SeatInvAgrees
  <2>2. subject # "seat" => SeatAgrees
    BY DEF SeatAgrees
  <2>3. QED
    BY <2>1, <2>2
<1>4. QED
  BY <1>1, <1>2, <1>3, PTL DEF DevicesSpec

--------------------------------------------------------------------------------
(* Joysticks on Win32 and macOS: the inductive invariant.  s is the sequence of *)
(* the calls in progress, k a slot, d a device.                                 *)

JoystickType ==
    [allocated : BOOLEAN, connected : BOOLEAN, xinput : BOOLEAN, index : J!Index,
     device : J!Device \union {NoDevice}, lost : BOOLEAN, axis : Nat \X Nat,
     button : {0, 1}, hat : SUBSET J!Direction, low : 0..2, high : 0..2, stale : BOOLEAN]

NoticeType == [what : {"arrival", "removal"}, device : J!Device]

SlotsTyped ==
    /\ driver \in Driver /\ xinput \in BOOLEAN /\ (driver = "cocoa" => ~xinput)
    /\ plugged \subseteq J!Device /\ IsFiniteSet(plugged)
    /\ index \in [Pad -> J!Index]
    /\ at \in [J!Device -> PadPosition]
    /\ notices \in Seq(NoticeType)
    /\ initialized \in BOOLEAN
    /\ js \in [J!Slot -> JoystickType]
    /\ stack \in Seq(J!Call)
    /\ crash \in {"none", "no slot", "freed arrays", "opposite directions"}
    /\ skipped \subseteq plugged
    /\ plugs \in 0..MaxPlugs /\ moves \in 0..MaxMoves /\ failures \in 0..MaxFailures

\* Only XInput has a pad say that it points in opposite directions; no two pads
\* have one index.
PadsOK ==
    /\ \A d \in J!Device : at[d].hat = J!Direction => xinput
    /\ \A p, q \in plugged \intersect Pad : index[p] = index[q] => p = q

\* A slot that is in use is of one device or index; a device that is gone has
\* been lost, which the next poll sees.
SlotOK(k) ==
    /\ js[k].connected => js[k].allocated
    /\ ~js[k].allocated => js[k] = J!Free
    /\ js[k].axis[1] <= js[k].axis[2]
    /\ js[k].xinput => xinput /\ js[k].device = NoDevice
    /\ js[k].allocated /\ ~js[k].xinput =>
         js[k].device \in J!Device /\ (driver = "win32" => js[k].device \in Stick)
    /\ ~js[k].stale => ~js[k].lost
    /\ js[k].connected /\ ~js[k].xinput /\ js[k].device \notin plugged => js[k].lost
SlotsOK == \A k \in J!Slot : SlotOK(k)

Alike(k, l) ==
    /\ js[k].connected /\ js[l].connected /\ (js[k].xinput <=> js[l].xinput)
    /\ js[k].xinput => js[k].index = js[l].index
    /\ ~js[k].xinput => js[k].device = js[l].device
SlotsApart == \A k, l \in J!Slot : Alike(k, l) => k = l

\* Calls are in each other as the code has them.
Starting(s) == s # <<>> /\ s[1].fn = "init"
Closing(k) == js[k].allocated /\ ~js[k].connected
CallOK(s, i) ==
    /\ i > 1 => s[i].fn \in {"poll", "close", "app"}
    /\ i > 1 /\ Starting(s) => s[i].fn = "close" /\ driver = "cocoa"
    /\ s[i].fn \in {"detect", "presence"} => driver = "win32"
    /\ s[i].fn \in {"presence", "pollAll"} => s[i].next <= NumSlots
    /\ s[i].fn \in {"init", "detect"} => s[i].next <= NumIndices
    /\ s[i].xinput \/ s[i].seen.hat = J!Direction => xinput
    /\ s[i].fn = "close" => Closing(s[i].slot)
CallsOK(s) == \A i \in DOMAIN s : CallOK(s, i)

\* Each slot that is being closed is closed once.
Closes(s, i, k) == s[i].fn = "close" /\ s[i].slot = k
ClosingOK(s) ==
    /\ \A k \in J!Slot : Closing(k) => \E i \in DOMAIN s : Closes(s, i, k)
    /\ \A k \in J!Slot : \A i, j \in DOMAIN s : Closes(s, i, k) /\ Closes(s, j, k) => i = j

Started(s) == initialized \/ Starting(s)
StartOK(s) ==
    /\ Starting(s) => ~initialized
    /\ ~Started(s) => /\ s = <<>> /\ skipped = {} /\ \A k \in J!Slot : js[k] = J!Free
                      /\ driver = "cocoa" => notices = <<>>

\* Win32: a device that is gone, or has been, is looked at before its arrival.
ArrivalAfter(i) == \E j \in DOMAIN notices : j > i /\ notices[j].what = "arrival"
Presence(s, k) == s # <<>> /\ s[1].fn = "presence" /\ s[1].next <= k
Detection(s) == s # <<>> /\ s[1].fn \in {"init", "detect"}
GoesOn(s, k, d) ==
    \/ Presence(s, k) /\ (d \in plugged => ArrivalAfter(0))
    \/ \E i \in DOMAIN notices :
         notices[i].what = "removal" /\ (d \in plugged => ArrivalAfter(i))
Has(k, d) == js[k].connected /\ ~js[k].xinput /\ js[k].device = d
HasSlot(d) == \E k \in J!Slot : Has(k, d)
IsListed(i) == \E k \in J!Slot : js[k].connected /\ js[k].xinput /\ js[k].index = i
IsEmpty(i) == \A p \in plugged \intersect Pad : index[p] # i

DueOK(s) ==
    \A k \in J!Slot : js[k].connected =>
      /\ js[k].xinput /\ IsEmpty(js[k].index) => GoesOn(s, k, NoDevice)
      /\ ~js[k].xinput /\ js[k].lost => GoesOn(s, k, js[k].device)
ListedOK(s) ==
    Started(s) =>
      /\ \A d \in (plugged \intersect Stick) \ skipped :
           HasSlot(d) \/ ArrivalAfter(0) \/ (Detection(s) /\ d \notin s[1].tried)
      /\ \A p \in (plugged \intersect Pad) \ skipped :
           xinput => \/ IsListed(index[p]) \/ ArrivalAfter(0)
                     \/ Detection(s) /\ s[1].next <= index[p]
SkippedOK ==
    /\ \A d \in skipped \intersect Stick : ~HasSlot(d)
    /\ \A p \in skipped \intersect Pad : ~IsListed(index[p]) /\ xinput
Win32OK(s) == driver = "win32" => DueOK(s) /\ ListedOK(s) /\ SkippedOK

\* macOS: the last notice of a device says whether it is there, and a slot that is
\* not as its device is has a notice coming.
Comes(d, what, i) ==
    \E j \in DOMAIN notices : j > i /\ notices[j].what = what /\ notices[j].device = d
NoticesOK ==
    \A i \in DOMAIN notices :
      /\ notices[i].what = "arrival" =>
           notices[i].device \in plugged \/ Comes(notices[i].device, "removal", i)
      /\ notices[i].what = "removal" =>
           notices[i].device \notin plugged \/ Comes(notices[i].device, "arrival", i)
MatchedOK(s) ==
    Started(s) => \A d \in J!Device :
      /\ d \in plugged => HasSlot(d) \/ Comes(d, "arrival", 0)
      /\ HasSlot(d) => d \in plugged \/ Comes(d, "removal", 0)
CocoaOK(s) == driver = "cocoa" => NoticesOK /\ MatchedOK(s) /\ skipped = {}

\* What a slot says of a device that has not moved is so, or a poll is about to read
\* it; and all polls have seen the same.
AxisAgrees(k, d) ==
    J!Same(js[k].axis, J!AxisValue(<<js[k].low, js[k].high>>, at[d].axis))
IsToRead(s, k, e) ==
    \E i \in DOMAIN s : s[i].fn = "poll" /\ s[i].slot = k /\ s[i].next <= e /\ e <= s[i].last
HaveSeen(s, k, p) == \A i \in DOMAIN s : s[i].fn = "poll" /\ s[i].slot = k => s[i].seen = p
ReportOK(s, k, d) ==
    /\ AxisAgrees(k, d) \/ IsToRead(s, k, 0)
    /\ js[k].button = at[d].button \/ IsToRead(s, k, 1)
    /\ js[k].hat = at[d].hat \/ IsToRead(s, k, 2)
    /\ driver = "win32" => HaveSeen(s, k, at[d])
ReportsOK(s) ==
    \A k \in J!Slot, d \in plugged : J!Reads(k, d) /\ ~js[k].stale => ReportOK(s, k, d)

CrashOK == crash # "none" => xinput \/ (driver = "cocoa" /\ ~J!HasSlot)

RunOK(s) ==
    /\ PadsOK /\ SlotsOK /\ SlotsApart /\ CallsOK(s) /\ ClosingOK(s) /\ StartOK(s)
    /\ Win32OK(s) /\ CocoaOK(s) /\ ReportsOK(s)
SlotsInv == SlotsTyped /\ CrashOK /\ (J!Alive => RunOK(stack))

--------------------------------------------------------------------------------
(* What the constants and the constructors are *)

LEMMA SlotsAre ==
  /\ NumSlots \in Nat \ {0} /\ NumIndices \in Nat \ {0}
  /\ J!Slot = 0..(NumSlots - 1) /\ J!Index = 0..(NumIndices - 1)
  /\ 0 \in J!Slot /\ J!Device = Pad \union Stick /\ NoDevice \notin J!Device
  /\ \A d : d \in Pad => d \notin Stick
  /\ Driver \subseteq {"win32", "cocoa"}
BY JoysticksAssumption DEF J!ControllersAssumption, J!Slot, J!Index, J!Device

LEMMA BoundsAre ==
  MaxPlugs \in Nat /\ MaxMoves \in Nat /\ MaxFailures \in Nat
BY JoysticksAssumption DEF J!ControllersAssumption

LEMMA PositionsAre ==
  /\ J!Rest \in PadPosition /\ J!Rest.hat = {} /\ J!Direction = {"up", "down"}
  /\ \A p \in PadPosition : p.axis \in 0..2 /\ p.button \in {0, 1} /\ p.hat \subseteq J!Direction
<1>1. J!Rest \in PadPosition
  BY JoysticksAssumption DEF J!ControllersAssumption
<1>2. \A p \in PadPosition : p.axis \in 0..2 /\ p.button \in {0, 1} /\ p.hat \subseteq J!Direction
  BY JoysticksAssumption DEF J!ControllersAssumption
<1>3. QED
  BY <1>1, <1>2 DEF J!Rest, J!Direction

CallName == {"init", "detect", "presence", "pollAll", "poll", "close", "app"}

LEMMA CallIs ==
  ASSUME NEW fn \in CallName, NEW k \in J!Slot, NEW f, f = J!CallOf(fn, k)
  PROVE  /\ f \in J!Call /\ f.fn = fn /\ f.slot = k /\ ~f.xinput /\ f.next = 0
         /\ f.last = 0 /\ f.tried = {} /\ f.seen = J!Rest
BY PositionsAre DEF J!CallOf, J!Call, CallName

LEMMA CallHas ==
  ASSUME NEW f \in J!Call
  PROVE  /\ f.fn \in CallName /\ f.slot \in J!Slot /\ f.xinput \in BOOLEAN /\ f.next \in Nat
         /\ f.last \in Nat /\ f.tried \subseteq J!Device /\ f.seen \in PadPosition
BY DEF J!Call, CallName

LEMMA FreeIs ==
  /\ J!Free \in JoystickType
  /\ J!Free.allocated = FALSE /\ J!Free.connected = FALSE /\ J!Free.xinput = FALSE
  /\ J!Free.device = NoDevice /\ J!Free.lost = FALSE /\ J!Free.axis = <<1, 2>>
  /\ J!Free.stale = TRUE /\ J!Free.index = 0
BY SlotsAre DEF J!Free, JoystickType, J!Direction

LEMMA JoystickHas ==
  ASSUME NEW j \in JoystickType
  PROVE  /\ j.allocated \in BOOLEAN /\ j.connected \in BOOLEAN /\ j.xinput \in BOOLEAN
         /\ j.index \in J!Index /\ j.device \in J!Device \union {NoDevice}
         /\ j.lost \in BOOLEAN /\ j.axis \in Nat \X Nat /\ j.button \in {0, 1}
         /\ j.hat \subseteq J!Direction /\ j.low \in 0..2 /\ j.high \in 0..2
         /\ j.stale \in BOOLEAN
BY DEF JoystickType

LEMMA PushedCall ==
  ASSUME NEW s \in Seq(J!Call), NEW f \in J!Call, NEW t, t = Append(s, f)
  PROVE  /\ t \in Seq(J!Call) /\ Len(t) = Len(s) + 1 /\ Len(s) \in Nat /\ t # <<>>
         /\ DOMAIN s = 1..Len(s) /\ DOMAIN t = 1..(Len(s) + 1)
         /\ \A i \in DOMAIN s : t[i] = s[i] /\ i # Len(s) + 1
         /\ t[Len(s) + 1] = f
OBVIOUS

LEMMA StackHas ==
  ASSUME NEW s \in Seq(J!Call)
  PROVE  /\ Len(s) \in Nat /\ DOMAIN s = 1..Len(s) /\ \A i \in DOMAIN s : s[i] \in J!Call
         /\ s # <<>> <=> Len(s) # 0
OBVIOUS

LEMMA BelowCalls ==
  ASSUME SlotsTyped, stack # <<>>, NEW s, s = J!Below, NEW f, f = J!Top
  PROVE  /\ s \in Seq(J!Call) /\ Len(s) + 1 = Len(stack) /\ Len(s) \in Nat
         /\ DOMAIN s = 1..Len(s) /\ DOMAIN stack = 1..Len(stack)
         /\ \A i \in DOMAIN s : s[i] = stack[i] /\ i # Len(stack) /\ i \in DOMAIN stack
         /\ \A i \in DOMAIN stack : i = Len(stack) \/ i \in DOMAIN s
         /\ f = stack[Len(stack)] /\ f \in J!Call /\ Len(stack) \in DOMAIN stack
<1>1. stack \in Seq(J!Call)
  BY DEF SlotsTyped
<1>2. stack \in Seq(J!Call) /\ Len(stack) \in Nat \ {0} /\ DOMAIN stack = 1..Len(stack)
  BY <1>1
<1>3. /\ s \in Seq(J!Call) /\ Len(s) = Len(stack) - 1 /\ DOMAIN s = 1..(Len(stack) - 1)
      /\ \A i \in 1..(Len(stack) - 1) : s[i] = stack[i]
  BY <1>2 DEF J!Below
<1>4. f = stack[Len(stack)] /\ f \in J!Call
  BY <1>2 DEF J!Top
<1>5. QED
  BY <1>2, <1>3, <1>4

--------------------------------------------------------------------------------
(* Calls that begin and end above the first one *)

\* s and t have the same initialization, detection or check of presence under way.
SameWork(s, t) ==
    /\ Starting(s) <=> Starting(t)
    /\ Detection(s) <=> Detection(t)
    /\ \A k \in J!Slot : Presence(s, k) <=> Presence(t, k)
    /\ Detection(s) => s[1].tried = t[1].tried /\ s[1].next = t[1].next

NoWork(s) == s = <<>> \/ s[1].fn \notin {"init", "detect", "presence"}

LEMMA FirstIsSame ==
  ASSUME NEW s, NEW t, \/ s # <<>> /\ t # <<>> /\ s[1] = t[1]
                       \/ NoWork(s) /\ NoWork(t)
  PROVE  SameWork(s, t)
BY DEF SameWork, NoWork, Starting, Detection, Presence

\* The parts that are about the work under way.
LEMMA WorkKept ==
  ASSUME NEW s, NEW t, SameWork(s, t), SlotsTyped,
         StartOK(s)', Win32OK(s)', CocoaOK(s)', Started(s)' \/ t = <<>>
  PROVE  StartOK(t)' /\ Win32OK(t)' /\ CocoaOK(t)' /\ (Started(s)' <=> Started(t)')
<1>1. /\ Starting(s) <=> Starting(t)
      /\ Starting(s)' <=> Starting(t)'
      /\ Detection(s)' <=> Detection(t)'
      /\ \A k \in J!Slot : Presence(s, k)' <=> Presence(t, k)'
      /\ Detection(s)' => s[1].tried = t[1].tried /\ s[1].next = t[1].next
  BY DEF SameWork, Starting, Detection, Presence
<1>2. Started(s)' <=> Started(t)'
  BY <1>1 DEF Started
<1>3. StartOK(t)'
  BY <1>1, <1>2 DEF StartOK
<1>4. \A k \in J!Slot : \A d : GoesOn(s, k, d)' <=> GoesOn(t, k, d)'
  BY <1>1 DEF GoesOn
<1>5. Win32OK(t)'
  <2>1. DueOK(s)' => DueOK(t)'
    BY <1>4 DEF DueOK
  <2>2. ListedOK(s)' => ListedOK(t)'
    BY <1>1, <1>2 DEF ListedOK
  <2>3. QED
    BY <2>1, <2>2 DEF Win32OK
<1>6. CocoaOK(t)'
  BY <1>2 DEF CocoaOK, MatchedOK
<1>7. QED
  BY <1>2, <1>3, <1>5, <1>6

\* A call is pushed: its own frame is right, and so are the others.
LEMMA CallsPushed ==
  ASSUME NEW s \in Seq(J!Call), NEW f \in J!Call, NEW t, t = Append(s, f),
         CallsOK(s)', CallOK(t, Len(s) + 1)', Starting(s) <=> Starting(t)
  PROVE  CallsOK(t)'
<1>1. /\ DOMAIN s = 1..Len(s) /\ DOMAIN t = 1..(Len(s) + 1) /\ Len(s) \in Nat
      /\ \A i \in DOMAIN s : t[i] = s[i]
  BY PushedCall
<1>2. Starting(s)' <=> Starting(t)'
  BY DEF Starting
<1>3. ASSUME NEW i \in DOMAIN s
      PROVE  CallOK(t, i)'
  <2>1. CallOK(s, i)' /\ t[i] = s[i]
    BY <1>1 DEF CallsOK
  <2>2. QED
    BY <1>2, <2>1 DEF CallOK, Closing
<1>4. \A i \in DOMAIN t : i \in DOMAIN s \/ i = Len(s) + 1
  BY <1>1
<1>5. QED
  BY <1>3, <1>4 DEF CallsOK

LEMMA AppIs ==
  ASSUME NEW f, f = J!CallOf("app", 0)
  PROVE  f \in J!Call /\ f.fn = "app" /\ ~f.xinput /\ f.seen.hat = {}
<1>1. "app" \in CallName
  BY DEF CallName
<1>2. 0 \in J!Slot
  BY SlotsAre
<1>3. f \in J!Call /\ f.fn = "app" /\ ~f.xinput /\ f.seen = J!Rest
  BY <1>1, <1>2, CallIs
<1>4. QED
  BY <1>3, PositionsAre

\* Begin a callback.
LEMMA AppPushed ==
  ASSUME NEW s \in Seq(J!Call), SlotsTyped, RunOK(s)', ~Starting(s), Started(s)',
         NEW t, t = Append(s, J!CallOf("app", 0))
  PROVE  RunOK(t)' /\ t \in Seq(J!Call)
<1>1. PICK f : f = J!CallOf("app", 0)
  OBVIOUS
<1>2. /\ f \in J!Call /\ f.fn = "app" /\ ~f.xinput /\ f.seen.hat = {}
  BY <1>1, AppIs
<1>3. t = Append(s, f)
  BY <1>1
<1>4. /\ t \in Seq(J!Call) /\ t # <<>> /\ Len(s) \in Nat /\ t[Len(s) + 1] = f
      /\ DOMAIN s = 1..Len(s) /\ DOMAIN t = 1..(Len(s) + 1)
      /\ \A i \in DOMAIN s : t[i] = s[i] /\ i # Len(s) + 1
  BY <1>2, <1>3, PushedCall
<1>5. SameWork(s, t)
  <2>1. CASE s = <<>>
    <3>1. t[1] = f
      BY <1>4, <2>1
    <3>2. QED
      BY <1>2, <2>1, <3>1, FirstIsSame DEF NoWork
  <2>2. CASE s # <<>>
    <3>1. t[1] = s[1]
      BY <1>4, <2>2
    <3>2. QED
      BY <1>4, <2>2, <3>1, FirstIsSame
  <2>3. QED
    BY <2>1, <2>2
<1>6. /\ StartOK(s)' /\ Win32OK(s)' /\ CocoaOK(s)' /\ CallsOK(s)' /\ ClosingOK(s)'
      /\ ReportsOK(s)' /\ PadsOK' /\ SlotsOK' /\ SlotsApart'
  BY DEF RunOK
<1>7. StartOK(t)' /\ Win32OK(t)' /\ CocoaOK(t)'
  BY <1>5, <1>6, WorkKept
<1>8. CallsOK(t)'
  <2>1. ~Starting(t) /\ (Starting(s) <=> Starting(t))
    BY <1>5 DEF SameWork
  <2>2. CallOK(t, Len(s) + 1)'
    BY <1>2, <1>4, <2>1, PositionsAre DEF CallOK, Starting
  <2>3. QED
    BY <1>2, <1>3, <1>6, <2>1, <2>2, CallsPushed
<1>9. ClosingOK(t)'
  <2>1. \A k \in J!Slot, i \in DOMAIN t :
          Closes(t, i, k)' <=> i \in DOMAIN s /\ Closes(s, i, k)'
    BY <1>2, <1>4 DEF Closes
  <2>2. \A i \in DOMAIN s : i \in DOMAIN t
    BY <1>4
  <2>3. QED
    BY <1>6, <2>1, <2>2 DEF ClosingOK
<1>10. ReportsOK(t)'
  <2>1. \A i \in DOMAIN t : t[i].fn = "poll" => i \in DOMAIN s /\ t[i] = s[i]
    BY <1>2, <1>4
  <2>2. \A k, e : IsToRead(s, k, e)' => IsToRead(t, k, e)'
    BY <1>4 DEF IsToRead
  <2>3. \A k, p : HaveSeen(s, k, p) => HaveSeen(t, k, p)
    BY <2>1 DEF HaveSeen
  <2>4. QED
    BY <1>6, <2>2, <2>3 DEF ReportsOK, ReportOK
<1>11. QED
  BY <1>4, <1>6, <1>7, <1>8, <1>9, <1>10 DEF RunOK

--------------------------------------------------------------------------------
(* What a step changes *)

\* Who has the slots stays, and none loses its device.
HoldersSame ==
    \A k \in J!Slot :
      /\ js'[k].connected <=> js[k].connected
      /\ js[k].connected => /\ js'[k].xinput <=> js[k].xinput
                            /\ js'[k].index = js[k].index
                            /\ js'[k].device = js[k].device
                            /\ js'[k].lost => js[k].lost
ClosingSame == \A k \in J!Slot : Closing(k)' <=> Closing(k)

NothingElse ==
    /\ driver' = driver /\ (xinput' <=> xinput) /\ plugged' = plugged /\ index' = index
    /\ at' = at /\ notices' = notices /\ (initialized' <=> initialized) /\ skipped' = skipped

LEMMA HeldKept ==
  ASSUME NEW s \in Seq(J!Call), HoldersSame, NothingElse
  PROVE  /\ PadsOK => PadsOK'
         /\ SlotsApart => SlotsApart'
         /\ ClosingSame /\ CallsOK(s) => CallsOK(s)'
         /\ ClosingSame /\ ClosingOK(s) => ClosingOK(s)'
         /\ Win32OK(s) => Win32OK(s)'
         /\ CocoaOK(s) => CocoaOK(s)'
         /\ Started(s)' <=> Started(s)
<1>1. \A i : IsListed(i)' <=> IsListed(i)
  BY DEF HoldersSame, IsListed
<1>2. \A d : HasSlot(d)' <=> HasSlot(d)
  BY DEF HoldersSame, HasSlot, Has
<1>3. Started(s)' <=> Started(s)
  BY DEF Started, NothingElse, Starting
<1>4. PadsOK => PadsOK'
  BY DEF PadsOK, NothingElse
<1>5. SlotsApart => SlotsApart'
  BY DEF SlotsApart, Alike, HoldersSame
<1>6. ClosingSame /\ CallsOK(s) => CallsOK(s)'
  <2> SUFFICES ASSUME ClosingSame, CallsOK(s), NEW i \in DOMAIN s
               PROVE  CallOK(s, i)'
    BY DEF CallsOK
  <2>1. CallOK(s, i)
    BY DEF CallsOK
  <2>2. s[i].fn = "close" => Closing(s[i].slot)'
    <3>1. s[i].slot \in J!Slot
      BY StackHas, CallHas
    <3>2. QED
      BY <2>1, <3>1 DEF CallOK, ClosingSame
  <2>3. QED
    BY <2>1, <2>2 DEF CallOK, NothingElse, Starting
<1>7. ClosingSame /\ ClosingOK(s) => ClosingOK(s)'
  BY DEF ClosingOK, Closes, ClosingSame
<1>8. Win32OK(s) => Win32OK(s)'
  <2>1. \A k, d : GoesOn(s, k, d)' <=> GoesOn(s, k, d)
    BY DEF GoesOn, Presence, ArrivalAfter, NothingElse
  <2>2. \A i : IsEmpty(i)' <=> IsEmpty(i)
    BY DEF IsEmpty, NothingElse
  <2>3. DueOK(s) => DueOK(s)'
    BY <2>1, <2>2 DEF DueOK, HoldersSame
  <2>4. ListedOK(s) => ListedOK(s)'
    BY <1>1, <1>2, <1>3 DEF ListedOK, ArrivalAfter, Detection, NothingElse
  <2>5. SkippedOK => SkippedOK'
    BY <1>1, <1>2 DEF SkippedOK, NothingElse
  <2>6. QED
    BY <2>3, <2>4, <2>5 DEF Win32OK, NothingElse
<1>9. CocoaOK(s) => CocoaOK(s)'
  <2>1. NoticesOK => NoticesOK'
    BY DEF NoticesOK, Comes, NothingElse
  <2>2. MatchedOK(s) => MatchedOK(s)'
    BY <1>2, <1>3 DEF MatchedOK, Comes, NothingElse
  <2>3. QED
    BY <2>1, <2>2 DEF CocoaOK, NothingElse
<1>10. QED
  BY <1>3, <1>4, <1>5, <1>6, <1>7, <1>8, <1>9

\* Calls other than closing ones are not made while GRWL starts.
LEMMA AfterStart ==
  ASSUME CallsOK(stack), StartOK(stack), NEW i \in DOMAIN stack, DOMAIN stack = 1..Len(stack),
         Len(stack) \in Nat, stack[i].fn \in CallName \ {"init", "close"}
  PROVE  ~Starting(stack) /\ Started(stack) /\ initialized
<1>1. CallOK(stack, i) /\ stack # <<>>
  BY DEF CallsOK
<1>2. ~Starting(stack)
  <2>1. CASE i = 1
    BY <2>1 DEF Starting
  <2>2. CASE i # 1
    <3>1. i > 1
      BY <2>2
    <3>2. QED
      BY <1>1, <3>1 DEF CallOK
  <2>3. QED
    BY <2>1, <2>2
<1>3. QED
  BY <1>1, <1>2 DEF StartOK, Started

\* The last call goes on to the next element, slot or index.
LEMMA TopAdvanced ==
  ASSUME SlotsTyped, CallsOK(stack), ClosingOK(stack), stack # <<>>,
         NEW f, f = J!Top, NEW g, g = J!Advance, f.fn # "close",
         f.fn \in {"presence", "pollAll"} => f.next < NumSlots,
         f.fn \in {"init", "detect"} => f.next < NumIndices
  PROVE  /\ g \in Seq(J!Call) /\ g # <<>> /\ DOMAIN g = DOMAIN stack
         /\ \A i \in DOMAIN g : i # Len(stack) => g[i] = stack[i]
         /\ f = stack[Len(stack)] /\ f \in J!Call /\ Len(stack) \in DOMAIN stack
         /\ g[Len(stack)].fn = f.fn /\ g[Len(stack)].slot = f.slot
         /\ g[Len(stack)].next = f.next + 1 /\ g[Len(stack)].last = f.last
         /\ g[Len(stack)].seen = f.seen /\ g[Len(stack)].tried = f.tried
         /\ (Starting(g) <=> Starting(stack)) /\ CallsOK(g) /\ ClosingOK(g)
<1>1. PICK s, h : s = J!Below /\ h = [f EXCEPT !.next = @ + 1]
  OBVIOUS
<1>2. g = Append(s, h)
  BY <1>1 DEF J!Advance
<1>3. /\ s \in Seq(J!Call) /\ Len(s) + 1 = Len(stack) /\ Len(s) \in Nat
      /\ DOMAIN s = 1..Len(s) /\ DOMAIN stack = 1..Len(stack)
      /\ \A i \in DOMAIN s : s[i] = stack[i] /\ i # Len(stack) /\ i \in DOMAIN stack
      /\ \A i \in DOMAIN stack : i = Len(stack) \/ i \in DOMAIN s
      /\ f = stack[Len(stack)] /\ f \in J!Call /\ Len(stack) \in DOMAIN stack
  BY <1>1, BelowCalls
<1>4. /\ h \in J!Call /\ h.fn = f.fn /\ h.slot = f.slot /\ h.next = f.next + 1
      /\ h.last = f.last /\ h.seen = f.seen /\ h.tried = f.tried /\ h.xinput = f.xinput
  <2>1. f \in J!Call
    BY <1>3
  <2>2. h \in J!Call
    BY <1>1, <2>1 DEF J!Call
  <2>3. h.fn = f.fn /\ h.slot = f.slot /\ h.next = f.next + 1 /\ h.last = f.last
    BY <1>1, <2>1 DEF J!Call
  <2>4. h.seen = f.seen /\ h.tried = f.tried
    BY <1>1, <2>1 DEF J!Call
  <2>5. h.xinput = f.xinput
    BY <1>1, <2>1 DEF J!Call
  <2>6. QED
    BY <2>2, <2>3, <2>4, <2>5
<1>5. /\ g \in Seq(J!Call) /\ Len(g) = Len(stack) /\ g # <<>> /\ DOMAIN g = DOMAIN stack
      /\ \A i \in DOMAIN g : i # Len(stack) => g[i] = stack[i]
      /\ g[Len(stack)] = h
  <2>1. /\ g \in Seq(J!Call) /\ Len(g) = Len(s) + 1 /\ g # <<>> /\ DOMAIN g = 1..(Len(s) + 1)
        /\ \A i \in DOMAIN s : g[i] = s[i] /\ i # Len(s) + 1
        /\ g[Len(s) + 1] = h
    BY <1>2, <1>3, <1>4, PushedCall
  <2>2. QED
    BY <1>3, <2>1
<1>6. Starting(g) <=> Starting(stack)
  <2>1. 1 \in DOMAIN stack /\ g[1].fn = stack[1].fn
    BY <1>3, <1>4, <1>5
  <2>2. QED
    BY <1>5, <2>1 DEF Starting
<1>7. CallsOK(g)
  <2>1. ASSUME NEW i \in DOMAIN stack, i # Len(stack)
        PROVE  CallOK(g, i)
    <3>1. CallOK(stack, i) /\ g[i] = stack[i]
      BY <1>5, <2>1 DEF CallsOK
    <3>2. QED
      BY <1>6, <3>1 DEF CallOK
  <2>2. CallOK(g, Len(stack))
    <3>1. CallOK(stack, Len(stack))
      BY <1>3 DEF CallsOK
    <3>2. f.next \in Nat /\ NumSlots \in Nat /\ NumIndices \in Nat
      BY <1>3, CallHas, SlotsAre
    <3>3. QED
      BY <1>3, <1>4, <1>5, <1>6, <3>1, <3>2 DEF CallOK
  <2>3. QED
    BY <1>5, <2>1, <2>2 DEF CallsOK
<1>8. ClosingOK(g)
  <2>1. \A i \in DOMAIN stack : \A k : Closes(g, i, k) <=> Closes(stack, i, k)
    BY <1>3, <1>4, <1>5 DEF Closes
  <2>2. QED
    BY <1>5, <2>1 DEF ClosingOK
<1>9. QED
  BY <1>3, <1>4, <1>5, <1>6, <1>7, <1>8

--------------------------------------------------------------------------------
(* From the parts of a step to the invariant *)

\* What holds of the calls that a step leaves holds of the stack.
LEMMA StackIs ==
  ASSUME NEW t, t = stack', RunOK(t)'
  PROVE  RunOK(stack)'
<1>1. /\ PadsOK' /\ SlotsOK' /\ SlotsApart' /\ CallsOK(t)' /\ ClosingOK(t)' /\ StartOK(t)'
      /\ Win32OK(t)' /\ CocoaOK(t)' /\ ReportsOK(t)'
  BY DEF RunOK
<1>2. CallsOK(stack)'
  BY <1>1 DEF CallsOK, CallOK, Starting
<1>3. ClosingOK(stack)'
  BY <1>1 DEF ClosingOK, Closes
<1>4. StartOK(stack)'
  BY <1>1 DEF StartOK, Started, Starting
<1>5. Win32OK(stack)'
  <2>1. DueOK(t)' => DueOK(stack)'
    BY DEF DueOK, GoesOn, Presence
  <2>2. ListedOK(t)' => ListedOK(stack)'
    BY DEF ListedOK, Started, Starting, Detection
  <2>3. QED
    BY <1>1, <2>1, <2>2 DEF Win32OK
<1>6. CocoaOK(stack)'
  BY <1>1 DEF CocoaOK, MatchedOK, Started, Starting
<1>7. ReportsOK(stack)'
  BY <1>1 DEF ReportsOK, ReportOK, IsToRead, HaveSeen
<1>8. QED
  BY <1>1, <1>2, <1>3, <1>4, <1>5, <1>6, <1>7 DEF RunOK

\* A step that leaves the devices alone, and that does not crash.
LEMMA NoticedIsSafe ==
  ASSUME SlotsTyped, J!Alive, UNCHANGED J!system, crash' = crash, notices' \in Seq(NoticeType),
         initialized' \in BOOLEAN, js' \in [J!Slot -> JoystickType],
         skipped' \subseteq plugged, failures' \in 0..MaxFailures,
         NEW t \in Seq(J!Call), t = stack', RunOK(t)'
  PROVE  SlotsInv'
<1>1. RunOK(stack)'
  BY StackIs
<1>2. SlotsTyped'
  BY DEF SlotsTyped, J!system
<1>3. CrashOK'
  BY DEF CrashOK, J!Alive
<1>4. QED
  BY <1>1, <1>2, <1>3 DEF SlotsInv

\* One that leaves their notices alone too.
LEMMA StepIsSafe ==
  ASSUME SlotsTyped, J!Alive, UNCHANGED J!system, UNCHANGED <<notices, crash>>,
         initialized' \in BOOLEAN, js' \in [J!Slot -> JoystickType],
         skipped' \subseteq plugged, failures' \in 0..MaxFailures,
         NEW t \in Seq(J!Call), t = stack', RunOK(t)'
  PROVE  SlotsInv'
<1>1. notices' \in Seq(NoticeType)
  BY DEF SlotsTyped
<1>2. QED
  BY <1>1, NoticedIsSafe

LEMMA OthersStay ==
  ASSUME UNCHANGED J!system, UNCHANGED <<notices, initialized, skipped>>
  PROVE  NothingElse
BY DEF NothingElse, J!system

\* Pushing a call of these leaves the work under way alone.
LEMMA PushedWork ==
  ASSUME NEW s \in Seq(J!Call), NEW f \in J!Call, f.fn \in {"poll", "close", "app"},
         NEW t, t = Append(s, f)
  PROVE  SameWork(s, t)
<1>1. /\ t \in Seq(J!Call) /\ t # <<>> /\ Len(s) \in Nat /\ t[Len(s) + 1] = f
      /\ DOMAIN s = 1..Len(s) /\ \A i \in DOMAIN s : t[i] = s[i]
  BY PushedCall
<1>2. CASE s = <<>>
  <2>1. t[1] = f
    BY <1>1, <1>2
  <2>2. QED
    BY <1>2, <2>1, FirstIsSame DEF NoWork
<1>3. CASE s # <<>>
  <2>1. t[1] = s[1]
    BY <1>1, <1>3
  <2>2. QED
    BY <1>1, <1>3, <2>1, FirstIsSame
<1>4. QED
  BY <1>2, <1>3

\* So does the end of one.
LEMMA PoppedWork ==
  ASSUME SlotsTyped, stack # <<>>, NEW s, s = J!Below, J!Top.fn \in {"poll", "close", "app"}
  PROVE  SameWork(stack, s)
<1>1. PICK f : f = J!Top
  OBVIOUS
<1>2. /\ s \in Seq(J!Call) /\ Len(s) + 1 = Len(stack) /\ Len(s) \in Nat
      /\ DOMAIN s = 1..Len(s) /\ \A i \in DOMAIN s : s[i] = stack[i]
      /\ f = stack[Len(stack)] /\ f.fn \in {"poll", "close", "app"}
  BY <1>1, BelowCalls
<1>3. CASE s = <<>>
  <2>1. Len(stack) = 1
    <3>1. Len(s) = 0
      BY <1>3
    <3>2. QED
      BY <1>2, <3>1
  <2>2. stack[1] = f
    BY <1>2, <2>1
  <2>3. QED
    BY <1>2, <1>3, <2>2, FirstIsSame DEF NoWork
<1>4. CASE s # <<>>
  <2>1. stack[1] = s[1]
    BY <1>2, <1>4
  <2>2. QED
    BY <1>4, <2>1, FirstIsSame
<1>5. QED
  BY <1>3, <1>4

\* Nothing but the stack changes.
LEMMA StillRunOK ==
  ASSUME SlotsTyped, RunOK(stack), NothingElse, js' = js, NEW u, u = stack
  PROVE  RunOK(u)'
<1>1. u \in Seq(J!Call)
  BY DEF SlotsTyped
<1>2. HoldersSame /\ ClosingSame
  BY DEF HoldersSame, ClosingSame, Closing
<1>3. /\ PadsOK /\ SlotsOK /\ SlotsApart /\ CallsOK(u) /\ ClosingOK(u) /\ StartOK(u)
      /\ Win32OK(u) /\ CocoaOK(u) /\ ReportsOK(u)
  BY DEF RunOK
<1>4. /\ PadsOK' /\ SlotsApart' /\ CallsOK(u)' /\ ClosingOK(u)' /\ Win32OK(u)'
      /\ CocoaOK(u)'
  BY <1>1, <1>2, <1>3, HeldKept
<1>5. SlotsOK'
  BY <1>3 DEF SlotsOK, SlotOK, NothingElse
<1>6. StartOK(u)'
  BY <1>3 DEF StartOK, Started, Starting, NothingElse
<1>7. ReportsOK(u)'
  BY <1>3 DEF ReportsOK, ReportOK, NothingElse, AxisAgrees, IsToRead, HaveSeen, J!Reads,
     J!Same, J!AxisValue
<1>8. QED
  BY <1>4, <1>5, <1>6, <1>7 DEF RunOK

\* A call other than closing a slot ends: a poll that has nothing to read any more or
\* whose slot has been freed, a callback, a loop.
LEMMA PoppedOK ==
  ASSUME SlotsTyped, J!Alive, RunOK(stack), stack # <<>>, NothingElse, js' = js,
         NEW s, s = J!Below, NEW f, f = J!Top, f.fn # "close",
         SameWork(stack, s), f.fn = "poll" => f.next > f.last \/ ~js[f.slot].connected
  PROVE  RunOK(s)' /\ s \in Seq(J!Call)
<1>1. PICK u : u = stack
  OBVIOUS
<1>2. /\ s \in Seq(J!Call) /\ Len(s) + 1 = Len(u) /\ Len(s) \in Nat
      /\ DOMAIN s = 1..Len(s) /\ DOMAIN u = 1..Len(u)
      /\ \A i \in DOMAIN s : s[i] = u[i] /\ i # Len(u) /\ i \in DOMAIN u
      /\ \A i \in DOMAIN u : i = Len(u) \/ i \in DOMAIN s
      /\ f = u[Len(u)] /\ f \in J!Call /\ Len(u) \in DOMAIN u
  BY <1>1, BelowCalls
<1>3. RunOK(u)'
  BY <1>1, StillRunOK
<1>4. /\ PadsOK' /\ SlotsOK' /\ SlotsApart' /\ CallsOK(u)' /\ ClosingOK(u)' /\ StartOK(u)'
      /\ Win32OK(u)' /\ CocoaOK(u)' /\ ReportsOK(u)'
  BY <1>3 DEF RunOK
<1>5. SameWork(u, s)
  BY <1>1 DEF SameWork
<1>6. Started(u)'
  BY <1>1, <1>4 DEF StartOK
<1>7. StartOK(s)' /\ Win32OK(s)' /\ CocoaOK(s)'
  BY <1>4, <1>5, <1>6, WorkKept
<1>8. CallsOK(s)'
  <2> SUFFICES ASSUME NEW i \in DOMAIN s
               PROVE  CallOK(s, i)'
    BY DEF CallsOK
  <2>1. CallOK(u, i)' /\ s[i] = u[i]
    BY <1>2, <1>4 DEF CallsOK
  <2>2. Starting(s)' <=> Starting(u)'
    BY <1>5 DEF SameWork, Starting
  <2>3. QED
    BY <2>1, <2>2 DEF CallOK, Closing
<1>9. ClosingOK(s)'
  <2>1. \A k \in J!Slot, i \in DOMAIN u :
          Closes(u, i, k)' <=> i \in DOMAIN s /\ Closes(s, i, k)'
    BY <1>2 DEF Closes
  <2>2. QED
    BY <1>2, <1>4, <2>1 DEF ClosingOK
<1>10. ReportsOK(s)'
  <2> SUFFICES ASSUME NEW k \in J!Slot, NEW d \in plugged', J!Reads(k, d)', (~js[k].stale)'
               PROVE  ReportOK(s, k, d)'
    BY DEF ReportsOK
  <2>1. ReportOK(u, k, d)'
    BY <1>4 DEF ReportsOK
  <2>2. js[k].connected
    BY DEF J!Reads
  <2>3. ASSUME NEW e, IsToRead(u, k, e)', e \in 0..2
        PROVE  IsToRead(s, k, e)'
    <3>1. PICK i \in DOMAIN u : u[i].fn = "poll" /\ u[i].slot = k /\ u[i].next <= e /\ e <= u[i].last
      BY <2>3 DEF IsToRead
    <3>2. f.next \in Nat /\ f.last \in Nat
      BY <1>2, CallHas
    <3>3. i # Len(u)
      BY <1>2, <2>2, <2>3, <3>1, <3>2
    <3>4. QED
      BY <1>2, <3>1, <3>3 DEF IsToRead
  <2>4. \A p : HaveSeen(u, k, p) => HaveSeen(s, k, p)
    BY <1>2 DEF HaveSeen
  <2>5. QED
    BY <2>1, <2>3, <2>4 DEF ReportOK
<1>11. QED
  BY <1>2, <1>4, <1>7, <1>8, <1>9, <1>10 DEF RunOK

LEMMA PollDoneIsSafe ==
  ASSUME SlotsInv, J!PollDone \/ J!CallbackReturns
  PROVE  SlotsInv'
<1>1. PICK s, f : s = J!Below /\ f = J!Top
  OBVIOUS
<1>2. /\ J!Alive /\ stack # <<>> /\ f.fn \in {"poll", "app"} /\ stack' = s
      /\ f.fn = "poll" => f.next > f.last
      /\ UNCHANGED J!system /\ UNCHANGED <<notices, initialized, js, crash, skipped, failures>>
  BY <1>1 DEF J!PollDone, J!CallbackReturns, J!Running, J!OnlyStack
<1>3. SlotsTyped /\ RunOK(stack)
  BY <1>2 DEF SlotsInv
<1>4. NothingElse
  BY <1>2, OthersStay
<1>5. RunOK(s)' /\ s \in Seq(J!Call)
  <2>1. SameWork(stack, s)
    BY <1>1, <1>2, <1>3, PoppedWork
  <2>2. QED
    BY <1>1, <1>2, <1>3, <1>4, <2>1, PoppedOK
<1>6. js' \in [J!Slot -> JoystickType] /\ skipped' \subseteq plugged
      /\ failures' \in 0..MaxFailures /\ initialized' \in BOOLEAN
  BY <1>2, <1>3 DEF SlotsTyped
<1>7. QED
  BY <1>2, <1>3, <1>5, <1>6, StepIsSafe

--------------------------------------------------------------------------------
(* Reading the elements *)

\* A step that returns to g, by way of a callback or not.
LEMMA ReturnIsSafe ==
  ASSUME SlotsTyped, J!Alive, UNCHANGED J!system, crash' = crash, notices' \in Seq(NoticeType),
         initialized' \in BOOLEAN, js' \in [J!Slot -> JoystickType],
         skipped' \subseteq plugged, failures' \in 0..MaxFailures,
         NEW something \in BOOLEAN, NEW g \in Seq(J!Call), J!Tell(something, g),
         (Starting(stack) <=> Starting(g)) \/ ~Starting(g), RunOK(g)', Started(g)'
  PROVE  SlotsInv'
<1>1. CASE stack' = g
  BY <1>1, NoticedIsSafe
<1>2. CASE stack' = Append(g, J!CallOf("app", 0)) /\ ~Starting(g)
  <2>1. PICK t : t = Append(g, J!CallOf("app", 0))
    OBVIOUS
  <2>2. RunOK(t)' /\ t \in Seq(J!Call)
    BY <1>2, <2>1, AppPushed
  <2>3. QED
    BY <1>2, <2>1, <2>2, NoticedIsSafe
<1>3. QED
  BY <1>1, <1>2 DEF J!Tell, J!Quiet, Starting

LEMMA ToldIsSafe ==
  ASSUME SlotsTyped, J!Alive, UNCHANGED J!system, UNCHANGED <<notices, crash>>,
         initialized' \in BOOLEAN, js' \in [J!Slot -> JoystickType],
         skipped' \subseteq plugged, failures' \in 0..MaxFailures,
         NEW something \in BOOLEAN, NEW g \in Seq(J!Call), J!Tell(something, g),
         (Starting(stack) <=> Starting(g)) \/ ~Starting(g), RunOK(g)', Started(g)'
  PROVE  SlotsInv'
<1>1. notices' \in Seq(NoticeType)
  BY DEF SlotsTyped
<1>2. QED
  BY <1>1, ReturnIsSafe

\* The calls while an element is read.
LEMMA ReadingCalls ==
  ASSUME SlotsTyped, CallsOK(stack), ClosingOK(stack), StartOK(stack), J!Running("poll"),
         NEW f, f = J!Top, NEW g, g = J!Advance
  PROVE  /\ g \in Seq(J!Call) /\ CallsOK(g) /\ ClosingOK(g) /\ SameWork(stack, g)
         /\ ~Starting(g) /\ ~Starting(stack) /\ Started(stack) /\ initialized
         /\ DOMAIN g = DOMAIN stack /\ Len(stack) \in DOMAIN stack
         /\ \A i \in DOMAIN g : i # Len(stack) => g[i] = stack[i]
         /\ f = stack[Len(stack)] /\ f \in J!Call /\ f.fn = "poll"
         /\ g[Len(stack)].fn = "poll" /\ g[Len(stack)].slot = f.slot
         /\ g[Len(stack)].next = f.next + 1 /\ g[Len(stack)].last = f.last
         /\ g[Len(stack)].seen = f.seen
<1>1. stack # <<>> /\ f.fn = "poll"
  BY DEF J!Running
<1>2. /\ g \in Seq(J!Call) /\ g # <<>> /\ DOMAIN g = DOMAIN stack
      /\ \A i \in DOMAIN g : i # Len(stack) => g[i] = stack[i]
      /\ f = stack[Len(stack)] /\ f \in J!Call /\ Len(stack) \in DOMAIN stack
      /\ g[Len(stack)].fn = f.fn /\ g[Len(stack)].slot = f.slot
      /\ g[Len(stack)].next = f.next + 1 /\ g[Len(stack)].last = f.last
      /\ g[Len(stack)].seen = f.seen
      /\ (Starting(g) <=> Starting(stack)) /\ CallsOK(g) /\ ClosingOK(g)
  BY <1>1, TopAdvanced
<1>3. /\ DOMAIN stack = 1..Len(stack) /\ Len(stack) \in Nat
      /\ Len(stack) \in DOMAIN stack /\ f = stack[Len(stack)] /\ f \in J!Call
  <2>1. stack \in Seq(J!Call)
    BY DEF SlotsTyped
  <2>2. QED
    BY <1>2, <2>1, StackHas
<1>4. ~Starting(stack) /\ Started(stack) /\ initialized
  BY <1>1, <1>3, AfterStart DEF CallName
<1>5. SameWork(stack, g)
  <2>1. CASE Len(stack) = 1
    BY <1>1, <1>2, <1>3, <2>1, FirstIsSame DEF NoWork
  <2>2. CASE Len(stack) # 1
    <3>1. 1 \in DOMAIN g /\ g[1] = stack[1]
      BY <1>2, <1>3, <2>2
    <3>2. QED
      BY <1>1, <1>2, <3>1, FirstIsSame
  <2>3. QED
    BY <2>1, <2>2
<1>6. QED
  BY <1>1, <1>2, <1>3, <1>4, <1>5

\* x is what slot k says after element e is read.
ReadAs(e, k, x) ==
    /\ x.allocated = js[k].allocated /\ x.connected = js[k].connected
    /\ x.xinput = js[k].xinput /\ x.index = js[k].index /\ x.device = js[k].device
    /\ x.lost = js[k].lost /\ x.stale = js[k].stale /\ x.axis[1] <= x.axis[2]
    /\ \A d \in plugged : J!Reads(k, d) /\ ~js[k].stale =>
         /\ \/ J!Same(x.axis, J!AxisValue(<<x.low, x.high>>, at[d].axis))
            \/ /\ e # 0 /\ x.axis = js[k].axis
               /\ x.low = js[k].low /\ x.high = js[k].high
         /\ x.button = at[d].button \/ (e # 1 /\ x.button = js[k].button)
         /\ x.hat = at[d].hat \/ (e # 2 /\ x.hat = js[k].hat)

\* An element of a slot that is in use has been read.
LEMMA ElementRead ==
  ASSUME SlotsTyped, J!Alive, RunOK(stack), NothingElse, J!Running("poll"),
         NEW f, f = J!Top, f.next <= f.last, NEW k, k = f.slot, js[k].allocated,
         js' \in [J!Slot -> JoystickType], \A l \in J!Slot : l # k => js'[l] = js[l],
         NEW x, x = js'[k], ReadAs(f.next, k, x),
         NEW g, g = J!Advance
  PROVE  g \in Seq(J!Call) /\ RunOK(g)' /\ ~Starting(g) /\ Started(g)'
<1>1. PICK u : u = stack
  OBVIOUS
<1>2. /\ PadsOK /\ SlotsOK /\ SlotsApart /\ CallsOK(u) /\ ClosingOK(u) /\ StartOK(u)
      /\ Win32OK(u) /\ CocoaOK(u) /\ ReportsOK(u)
  BY <1>1 DEF RunOK
<1>3. /\ g \in Seq(J!Call) /\ CallsOK(g) /\ ClosingOK(g) /\ SameWork(u, g)
      /\ ~Starting(g) /\ Started(u) /\ initialized
      /\ DOMAIN g = DOMAIN u /\ Len(u) \in DOMAIN u
      /\ \A i \in DOMAIN g : i # Len(u) => g[i] = u[i]
      /\ f = u[Len(u)] /\ f \in J!Call /\ f.fn = "poll"
      /\ g[Len(u)].fn = "poll" /\ g[Len(u)].slot = f.slot
      /\ g[Len(u)].next = f.next + 1 /\ g[Len(u)].last = f.last /\ g[Len(u)].seen = f.seen
  BY <1>1, <1>2, ReadingCalls
<1>4. k \in J!Slot /\ f.next \in Nat /\ f.last \in Nat
  BY <1>3, CallHas
<1>5. /\ js \in [J!Slot -> JoystickType] /\ js'[k] = x
      /\ \A l \in J!Slot : l # k => js'[l] = js[l]
  BY DEF SlotsTyped
<1>6. HoldersSame /\ ClosingSame
  BY <1>5 DEF HoldersSame, ClosingSame, Closing, ReadAs
<1>7. /\ PadsOK' /\ SlotsApart' /\ CallsOK(g)' /\ ClosingOK(g)' /\ Win32OK(u)' /\ CocoaOK(u)'
      /\ Started(u)'
  <2>1. u \in Seq(J!Call)
    BY <1>1 DEF SlotsTyped
  <2>2. QED
    BY <1>2, <1>3, <1>6, <2>1, HeldKept
<1>8. SlotsOK'
  <2> SUFFICES ASSUME NEW l \in J!Slot
               PROVE  SlotOK(l)'
    BY DEF SlotsOK
  <2>1. SlotOK(l)
    BY <1>2 DEF SlotsOK
  <2>2. CASE l = k
    BY <1>5, <2>1, <2>2 DEF SlotOK, NothingElse, ReadAs
  <2>3. CASE l # k
    BY <1>5, <2>1, <2>3 DEF SlotOK, NothingElse
  <2>4. QED
    BY <2>2, <2>3
<1>9. StartOK(u)'
  BY <1>2, <1>7 DEF StartOK, NothingElse, Starting
<1>10. StartOK(g)' /\ Win32OK(g)' /\ CocoaOK(g)' /\ Started(g)'
  BY <1>3, <1>7, <1>9, WorkKept
<1>11. ReportsOK(g)'
  <2> SUFFICES ASSUME NEW l \in J!Slot, NEW d \in plugged', J!Reads(l, d)', (~js[l].stale)'
               PROVE  ReportOK(g, l, d)'
    BY DEF ReportsOK
  <2>1. J!Reads(l, d) /\ ~js[l].stale /\ d \in plugged /\ at' = at
    BY <1>5 DEF J!Reads, NothingElse, ReadAs
  <2>2. ReportOK(u, l, d)
    BY <1>2, <2>1 DEF ReportsOK
  <2>3. HaveSeen(u, l, at[d]) => HaveSeen(g, l, at[d])
    BY <1>3 DEF HaveSeen
  <2>4. driver' = "win32" => HaveSeen(g, l, at'[d])
    BY <2>1, <2>2, <2>3 DEF ReportOK, NothingElse
  <2>5. \A e \in Nat : IsToRead(u, l, e) /\ (l # k \/ e # f.next) => IsToRead(g, l, e)
    <3> SUFFICES ASSUME NEW e \in Nat, IsToRead(u, l, e), l # k \/ e # f.next
                 PROVE  IsToRead(g, l, e)
      OBVIOUS
    <3>1. PICK i \in DOMAIN u : u[i].fn = "poll" /\ u[i].slot = l /\ u[i].next <= e /\ e <= u[i].last
      BY DEF IsToRead
    <3>2. CASE i = Len(u)
      BY <1>3, <1>4, <3>1, <3>2 DEF IsToRead
    <3>3. CASE i # Len(u)
      BY <1>3, <3>1, <3>3 DEF IsToRead
    <3>4. QED
      BY <3>2, <3>3
  <2>6. CASE l = k
    <3>1. AxisAgrees(l, d)' \/ IsToRead(g, l, 0)
      BY <1>5, <2>1, <2>2, <2>5, <2>6 DEF ReportOK, AxisAgrees, ReadAs
    <3>2. js'[l].button = at'[d].button \/ IsToRead(g, l, 1)
      BY <1>5, <2>1, <2>2, <2>5, <2>6 DEF ReportOK, ReadAs
    <3>3. js'[l].hat = at'[d].hat \/ IsToRead(g, l, 2)
      BY <1>5, <2>1, <2>2, <2>5, <2>6 DEF ReportOK, ReadAs
    <3>4. QED
      BY <2>4, <3>1, <3>2, <3>3 DEF ReportOK, IsToRead, HaveSeen
  <2>7. CASE l # k
    <3>1. AxisAgrees(l, d)' \/ IsToRead(g, l, 0)
      BY <1>5, <2>1, <2>2, <2>5, <2>7 DEF ReportOK, AxisAgrees, J!Same, J!AxisValue
    <3>2. js'[l].button = at'[d].button \/ IsToRead(g, l, 1)
      BY <1>5, <2>1, <2>2, <2>5, <2>7 DEF ReportOK
    <3>3. js'[l].hat = at'[d].hat \/ IsToRead(g, l, 2)
      BY <1>5, <2>1, <2>2, <2>5, <2>7 DEF ReportOK
    <3>4. QED
      BY <2>4, <3>1, <3>2, <3>3 DEF ReportOK, IsToRead, HaveSeen
  <2>8. QED
    BY <2>6, <2>7
<1>12. QED
  BY <1>3, <1>7, <1>8, <1>10, <1>11 DEF RunOK

\* What is read is what the device is at, if it has not moved.
LEMMA RawIs ==
  ASSUME SlotsTyped, RunOK(stack), J!Running("poll"), NEW f, f = J!Top,
         NEW k, k = f.slot, js[k].allocated, NEW r, r = J!Raw
  PROVE  /\ r.axis \in 0..2 /\ r.button \in {0, 1} /\ r.hat \subseteq J!Direction
         /\ \A d \in plugged : J!Reads(k, d) /\ ~js[k].stale =>
              r.axis = at[d].axis /\ r.button = at[d].button /\ r.hat = at[d].hat
<1>1. stack \in Seq(J!Call) /\ stack # <<>> /\ f.fn = "poll"
  BY DEF SlotsTyped, J!Running
<1>2. f = stack[Len(stack)] /\ Len(stack) \in DOMAIN stack /\ f \in J!Call
  BY <1>1 DEF J!Top
<1>3. k \in J!Slot /\ f.seen \in PadPosition
  BY <1>2, CallHas
<1>4. SlotOK(k) /\ ReportsOK(stack)
  BY <1>3 DEF RunOK, SlotsOK
<1>5. at \in [J!Device -> PadPosition] /\ plugged \subseteq J!Device
  BY DEF SlotsTyped
<1>6. CASE driver = "win32"
  <2>1. r = f.seen
    BY <1>6 DEF J!Raw
  <2>2. ASSUME NEW d \in plugged, J!Reads(k, d), ~js[k].stale
        PROVE  r = at[d]
    <3>1. HaveSeen(stack, k, at[d])
      BY <1>3, <1>4, <1>6, <2>2 DEF ReportsOK, ReportOK
    <3>2. QED
      BY <1>1, <1>2, <2>1, <3>1 DEF HaveSeen
  <2>3. QED
    BY <1>3, <2>1, <2>2, PositionsAre
<1>7. CASE driver = "cocoa"
  <2>1. ~js[k].xinput /\ js[k].device \in J!Device
    BY <1>4, <1>7 DEF SlotOK, SlotsTyped
  <2>2. CASE js[k].lost
    <3>1. r = [axis |-> 0, button |-> 0, hat |-> {"up"}]
      BY <1>7, <2>2 DEF J!Raw
    <3>2. r.axis = 0 /\ r.button = 0 /\ r.hat = {"up"}
      BY <3>1
    <3>3. js[k].stale
      BY <1>4, <2>2 DEF SlotOK
    <3>4. QED
      BY <3>2, <3>3, PositionsAre
  <2>3. CASE ~js[k].lost
    <3>1. r = at[js[k].device]
      BY <1>7, <2>3 DEF J!Raw
    <3>2. r \in PadPosition
      BY <1>5, <2>1, <3>1
    <3>3. \A d \in plugged : J!Reads(k, d) => r = at[d]
      BY <2>1, <3>1 DEF J!Reads
    <3>4. QED
      BY <3>2, <3>3, PositionsAre
  <2>4. QED
    BY <2>2, <2>3
<1>8. QED
  BY <1>6, <1>7, SlotsAre DEF SlotsTyped

\* The arrays are gone.
LEMMA FreedIsSafe ==
  ASSUME SlotsInv, J!Running("poll"), ~js[J!Top.slot].allocated, J!AfterFree,
         UNCHANGED J!system, UNCHANGED <<notices, initialized, js, skipped, failures>>
  PROVE  SlotsInv'
<1>1. PICK s, f : s = J!Below /\ f = J!Top
  OBVIOUS
<1>2. SlotsTyped /\ RunOK(stack) /\ J!Alive /\ stack # <<>> /\ f.fn = "poll"
  BY <1>1 DEF SlotsInv, J!Running
<1>3. f = stack[Len(stack)] /\ Len(stack) \in DOMAIN stack /\ f \in J!Call
  BY <1>1, <1>2, BelowCalls
<1>4. CASE f.xinput
  <2>1. crash' = "freed arrays" /\ UNCHANGED stack
    BY <1>1, <1>4 DEF J!AfterFree
  <2>2. CallOK(stack, Len(stack))
    BY <1>2, <1>3 DEF RunOK, CallsOK
  <2>3. xinput
    BY <1>3, <1>4, <2>2 DEF CallOK
  <2>4. SlotsTyped'
    BY <1>2, <2>1 DEF SlotsTyped, J!system
  <2>5. xinput' /\ ~J!Alive'
    BY <2>1, <2>3 DEF J!system, J!Alive
  <2>6. QED
    BY <2>4, <2>5 DEF SlotsInv, CrashOK
<1>5. CASE ~f.xinput
  <2>1. stack' = s /\ UNCHANGED crash
    BY <1>1, <1>5 DEF J!AfterFree
  <2>2. NothingElse
    BY OthersStay
  <2>3. ~js[f.slot].connected
    <3>1. f.slot \in J!Slot /\ ~js[f.slot].allocated
      BY <1>1, <1>3, CallHas
    <3>2. SlotOK(f.slot)
      BY <1>2, <3>1 DEF RunOK, SlotsOK
    <3>3. QED
      BY <3>1, <3>2 DEF SlotOK
  <2>4. RunOK(s)' /\ s \in Seq(J!Call)
    <3>1. SameWork(stack, s)
      BY <1>1, <1>2, PoppedWork
    <3>2. QED
      BY <1>1, <1>2, <2>2, <2>3, <3>1, PoppedOK
  <2>5. js' \in [J!Slot -> JoystickType] /\ skipped' \subseteq plugged
        /\ failures' \in 0..MaxFailures /\ initialized' \in BOOLEAN
    BY <1>2 DEF SlotsTyped
  <2>6. QED
    BY <1>2, <2>1, <2>4, <2>5, StepIsSafe
<1>6. QED
  BY <1>4, <1>5

\* The slot after an element is read, and then the callback.
LEMMA ReadIsSafe ==
  ASSUME SlotsInv, J!Running("poll"), NEW f, f = J!Top, f.next <= f.last, NEW k, k = f.slot,
         js[k].allocated, UNCHANGED J!system,
         UNCHANGED <<notices, initialized, crash, skipped, failures>>,
         js' \in [J!Slot -> JoystickType], \A l \in J!Slot : l # k => js'[l] = js[l],
         NEW x, x = js'[k], ReadAs(f.next, k, x),
         NEW something \in BOOLEAN, J!Tell(something, J!Advance)
  PROVE  SlotsInv'
<1>1. PICK g : g = J!Advance
  OBVIOUS
<1>2. SlotsTyped /\ RunOK(stack) /\ J!Alive
  BY DEF SlotsInv, J!Running
<1>3. NothingElse
  BY OthersStay
<1>4. g \in Seq(J!Call) /\ RunOK(g)' /\ ~Starting(g) /\ Started(g)'
  BY <1>1, <1>2, <1>3, ElementRead
<1>5. J!Tell(something, g)
  BY <1>1 DEF J!Tell
<1>6. skipped' \subseteq plugged /\ failures' \in 0..MaxFailures /\ initialized' \in BOOLEAN
  BY <1>2 DEF SlotsTyped
<1>7. QED
  BY <1>2, <1>4, <1>5, <1>6, ToldIsSafe

LEMMA PollTop ==
  ASSUME SlotsInv, J!Running("poll"), NEW f, f = J!Top, NEW k, k = f.slot
  PROVE  SlotsTyped /\ RunOK(stack) /\ f \in J!Call /\ k \in J!Slot
<1>1. SlotsTyped /\ RunOK(stack) /\ stack # <<>>
  BY DEF SlotsInv, J!Running
<1>2. f \in J!Call
  <2>1. PICK s : s = J!Below
    OBVIOUS
  <2>2. QED
    BY <1>1, <2>1, BelowCalls
<1>3. QED
  BY <1>1, <1>2, CallHas

\* What the axis says is in its range, which what is read is.
LEMMA AxisIs ==
  ASSUME NEW j \in JoystickType, NEW raw \in 0..2, NEW range, range = J!Calibrated(j, raw),
         NEW value, value = J!AxisValue(range, raw)
  PROVE  /\ range[1] \in 0..2 /\ range[2] \in 0..2 /\ range = <<range[1], range[2]>>
         /\ value \in Nat \X Nat /\ value[1] <= value[2]
<1>1. j.low \in 0..2 /\ j.high \in 0..2
  BY JoystickHas
<1>2. /\ range = <<range[1], range[2]>> /\ range[1] \in 0..2 /\ range[2] \in 0..2
      /\ range[1] <= raw /\ raw <= range[2]
  BY <1>1 DEF J!Calibrated
<1>3. value = IF range[1] = range[2] THEN <<1, 2>> ELSE <<raw - range[1], range[2] - range[1]>>
  BY DEF J!AxisValue
<1>4. raw - range[1] \in Nat /\ range[2] - range[1] \in Nat /\ raw - range[1] <= range[2] - range[1]
  BY <1>2
<1>5. QED
  BY <1>2, <1>3, <1>4

LEMMA ReadAxisIsSafe ==
  ASSUME SlotsInv, J!ReadAxis
  PROVE  SlotsInv'
<1>1. PICK f, k, r : f = J!Top /\ k = f.slot /\ r = J!Raw
  OBVIOUS
<1>2. /\ J!Running("poll") /\ f.next = 0 /\ f.next <= f.last
      /\ UNCHANGED J!system /\ UNCHANGED <<notices, initialized, skipped, failures>>
  BY <1>1 DEF J!ReadAxis, J!Reading, J!Element
<1>3. SlotsTyped /\ RunOK(stack) /\ f \in J!Call /\ k \in J!Slot
  BY <1>1, <1>2, PollTop
<1>4. CASE ~js[k].allocated
  <2>1. J!AfterFree /\ UNCHANGED js /\ ~js[J!Top.slot].allocated
    BY <1>1, <1>4 DEF J!ReadAxis
  <2>2. QED
    BY <1>2, <2>1, FreedIsSafe
<1>5. CASE js[k].allocated
  <2>1. /\ r.axis \in 0..2
        /\ \A d \in plugged : J!Reads(k, d) /\ ~js[k].stale =>
             r.axis = at[d].axis /\ r.button = at[d].button /\ r.hat = at[d].hat
    BY <1>1, <1>2, <1>3, <1>5, RawIs
  <2>2. PICK range, value : range = J!Calibrated(js[k], r.axis) /\ value = J!AxisValue(range, r.axis)
    OBVIOUS
  <2>3. js \in [J!Slot -> JoystickType] /\ js[k] \in JoystickType
    BY <1>3 DEF SlotsTyped
  <2>4. /\ range[1] \in 0..2 /\ range[2] \in 0..2 /\ range = <<range[1], range[2]>>
        /\ value \in Nat \X Nat /\ value[1] <= value[2]
    BY <2>1, <2>2, <2>3, AxisIs
  <2>5. /\ js' = [js EXCEPT ![k].low = range[1], ![k].high = range[2], ![k].axis = value]
        /\ J!Tell(~J!Same(value, js[k].axis), J!Advance) /\ UNCHANGED crash
    BY <1>1, <1>5, <2>2 DEF J!ReadAxis
  <2>6. PICK x : x = js'[k]
    OBVIOUS
  <2>7. x = [js[k] EXCEPT !.low = range[1], !.high = range[2], !.axis = value]
    BY <1>3, <2>3, <2>5, <2>6
  <2>8. x \in JoystickType
    BY <2>3, <2>4, <2>7 DEF JoystickType
  <2>9. /\ x.axis = value /\ x.low = range[1] /\ x.high = range[2] /\ x.index = js[k].index
        /\ x.device = js[k].device /\ x.button = js[k].button /\ x.hat = js[k].hat
    BY <2>3, <2>7 DEF JoystickType
  <2>10. x.allocated = js[k].allocated /\ x.connected = js[k].connected
         /\ x.xinput = js[k].xinput
    BY <2>3, <2>7 DEF JoystickType
  <2>11. x.lost = js[k].lost /\ x.stale = js[k].stale
    BY <2>3, <2>7 DEF JoystickType
  <2>12. /\ js' \in [J!Slot -> JoystickType]
         /\ \A l \in J!Slot : l # k => js'[l] = js[l]
    BY <1>3, <2>3, <2>5, <2>6, <2>8
  <2>13. \A d \in plugged : J!Reads(k, d) /\ ~js[k].stale =>
           /\ J!Same(x.axis, J!AxisValue(<<x.low, x.high>>, at[d].axis))
           /\ x.button = at[d].button \/ (f.next # 1 /\ x.button = js[k].button)
           /\ x.hat = at[d].hat \/ (f.next # 2 /\ x.hat = js[k].hat)
    <3>1. \A d \in plugged : J!Reads(k, d) /\ ~js[k].stale =>
            x.axis = J!AxisValue(<<x.low, x.high>>, at[d].axis)
      BY <2>1, <2>2, <2>4, <2>9
    <3>2. QED
      BY <1>2, <2>9, <3>1 DEF J!Same
  <2>14. PICK something \in BOOLEAN : something = ~J!Same(value, js[k].axis)
    BY DEF J!Same
  <2>15. J!Tell(something, J!Advance)
    BY <2>5, <2>14
  <2>16. x.axis[1] <= x.axis[2]
    BY <2>4, <2>9
  <2>17. ReadAs(f.next, k, x)
    BY <2>9, <2>10, <2>11, <2>13, <2>16 DEF ReadAs
  <2>18. QED
    BY <1>1, <1>2, <1>5, <2>5, <2>6, <2>12, <2>15, <2>17, ReadIsSafe
<1>6. QED
  BY <1>4, <1>5

LEMMA ReadButtonIsSafe ==
  ASSUME SlotsInv, J!ReadButton
  PROVE  SlotsInv'
<1>1. PICK f, k, r : f = J!Top /\ k = f.slot /\ r = J!Raw
  OBVIOUS
<1>2. /\ J!Running("poll") /\ f.next = 1 /\ f.next <= f.last
      /\ UNCHANGED J!system /\ UNCHANGED <<notices, initialized, skipped, failures>>
  BY <1>1 DEF J!ReadButton, J!Reading, J!Element
<1>3. SlotsTyped /\ RunOK(stack) /\ f \in J!Call /\ k \in J!Slot
  BY <1>1, <1>2, PollTop
<1>4. CASE ~js[k].allocated
  <2>1. J!AfterFree /\ UNCHANGED js /\ ~js[J!Top.slot].allocated
    BY <1>1, <1>4 DEF J!ReadButton
  <2>2. QED
    BY <1>2, <2>1, FreedIsSafe
<1>5. CASE js[k].allocated
  <2>1. /\ r.button \in {0, 1}
        /\ \A d \in plugged : J!Reads(k, d) /\ ~js[k].stale =>
             r.axis = at[d].axis /\ r.button = at[d].button /\ r.hat = at[d].hat
    BY <1>1, <1>2, <1>3, <1>5, RawIs
  <2>2. js \in [J!Slot -> JoystickType] /\ js[k] \in JoystickType
    BY <1>3 DEF SlotsTyped
  <2>3. /\ js' = [js EXCEPT ![k].button = r.button]
        /\ J!Tell(js[k].button # r.button, J!Advance) /\ UNCHANGED crash
    BY <1>1, <1>5 DEF J!ReadButton
  <2>4. PICK x : x = js'[k]
    OBVIOUS
  <2>5. x = [js[k] EXCEPT !.button = r.button]
    BY <1>3, <2>2, <2>3, <2>4
  <2>6. x \in JoystickType
    BY <2>1, <2>2, <2>5 DEF JoystickType
  <2>7. /\ x.axis = js[k].axis /\ x.low = js[k].low /\ x.high = js[k].high
        /\ x.index = js[k].index /\ x.device = js[k].device /\ x.button = r.button
        /\ x.hat = js[k].hat
    BY <2>2, <2>5 DEF JoystickType
  <2>8. x.allocated = js[k].allocated /\ x.connected = js[k].connected
         /\ x.xinput = js[k].xinput
    BY <2>2, <2>5 DEF JoystickType
  <2>9. x.lost = js[k].lost /\ x.stale = js[k].stale
    BY <2>2, <2>5 DEF JoystickType
  <2>10. /\ js' \in [J!Slot -> JoystickType]
         /\ \A l \in J!Slot : l # k => js'[l] = js[l]
    BY <1>3, <2>2, <2>3, <2>4, <2>6
  <2>11. \A d \in plugged : J!Reads(k, d) /\ ~js[k].stale =>
           /\ f.next # 0 /\ x.axis = js[k].axis /\ x.low = js[k].low /\ x.high = js[k].high
           /\ x.button = at[d].button
           /\ x.hat = at[d].hat \/ (f.next # 2 /\ x.hat = js[k].hat)
    BY <1>2, <2>1, <2>7
  <2>12. PICK something \in BOOLEAN : something = (js[k].button # r.button)
    OBVIOUS
  <2>13. J!Tell(something, J!Advance)
    BY <2>3, <2>12
  <2>14. x.axis[1] <= x.axis[2]
    BY <1>3, <2>7 DEF RunOK, SlotsOK, SlotOK
  <2>15. ReadAs(f.next, k, x)
    BY <2>7, <2>8, <2>9, <2>11, <2>14 DEF ReadAs
  <2>16. QED
    BY <1>1, <1>2, <1>5, <2>3, <2>4, <2>10, <2>13, <2>15, ReadIsSafe
<1>6. QED
  BY <1>4, <1>5

LEMMA ReadHatIsSafe ==
  ASSUME SlotsInv, J!ReadHat
  PROVE  SlotsInv'
<1>1. PICK f, k, r : f = J!Top /\ k = f.slot /\ r = J!Raw
  OBVIOUS
<1>2. /\ J!Running("poll") /\ f.next = 2 /\ f.next <= f.last
      /\ UNCHANGED J!system /\ UNCHANGED <<notices, initialized, skipped, failures>>
  BY <1>1 DEF J!ReadHat, J!Reading, J!Element
<1>3. SlotsTyped /\ RunOK(stack) /\ f \in J!Call /\ k \in J!Slot
  BY <1>1, <1>2, PollTop
<1>4. CASE ~js[k].allocated
  <2>1. J!AfterFree /\ UNCHANGED js /\ ~js[J!Top.slot].allocated
    BY <1>1, <1>4 DEF J!ReadHat
  <2>2. QED
    BY <1>2, <2>1, FreedIsSafe
<1>5. CASE js[k].allocated /\ UNCHANGED crash
  <2>1. /\ r.hat \subseteq J!Direction
        /\ \A d \in plugged : J!Reads(k, d) /\ ~js[k].stale =>
             r.axis = at[d].axis /\ r.button = at[d].button /\ r.hat = at[d].hat
    BY <1>1, <1>2, <1>3, <1>5, RawIs
  <2>2. js \in [J!Slot -> JoystickType] /\ js[k] \in JoystickType
    BY <1>3 DEF SlotsTyped
  <2>3. J!Alive
    BY <1>2 DEF J!Running
  <2>4. /\ js' = [js EXCEPT ![k].hat = r.hat]
        /\ J!Tell(js[k].hat # r.hat, J!Advance)
    BY <1>1, <1>5, <2>3 DEF J!ReadHat, J!Alive
  <2>5. PICK x : x = js'[k]
    OBVIOUS
  <2>6. x = [js[k] EXCEPT !.hat = r.hat]
    BY <1>3, <2>2, <2>4, <2>5
  <2>7. x \in JoystickType
    BY <2>1, <2>2, <2>6 DEF JoystickType
  <2>8. /\ x.axis = js[k].axis /\ x.low = js[k].low /\ x.high = js[k].high
        /\ x.index = js[k].index /\ x.device = js[k].device /\ x.button = js[k].button
        /\ x.hat = r.hat
    BY <2>2, <2>6 DEF JoystickType
  <2>9. x.allocated = js[k].allocated /\ x.connected = js[k].connected
         /\ x.xinput = js[k].xinput
    BY <2>2, <2>6 DEF JoystickType
  <2>10. x.lost = js[k].lost /\ x.stale = js[k].stale
    BY <2>2, <2>6 DEF JoystickType
  <2>11. /\ js' \in [J!Slot -> JoystickType]
         /\ \A l \in J!Slot : l # k => js'[l] = js[l]
    BY <1>3, <2>2, <2>4, <2>5, <2>7
  <2>12. \A d \in plugged : J!Reads(k, d) /\ ~js[k].stale =>
           /\ f.next # 0 /\ x.axis = js[k].axis /\ x.low = js[k].low /\ x.high = js[k].high
           /\ f.next # 1 /\ x.button = js[k].button
           /\ x.hat = at[d].hat
    BY <1>2, <2>1, <2>8
  <2>13. PICK something \in BOOLEAN : something = (js[k].hat # r.hat)
    OBVIOUS
  <2>14. J!Tell(something, J!Advance)
    BY <2>4, <2>13
  <2>15. x.axis[1] <= x.axis[2]
    BY <1>3, <2>8 DEF RunOK, SlotsOK, SlotOK
  <2>16. ReadAs(f.next, k, x)
    BY <2>8, <2>9, <2>10, <2>12, <2>15 DEF ReadAs
  <2>17. QED
    BY <1>1, <1>2, <1>5, <2>4, <2>5, <2>11, <2>14, <2>16, ReadIsSafe
<1>6. CASE js[k].allocated /\ ~(UNCHANGED crash)
  <2>1. r.hat = J!Direction /\ crash' = "opposite directions" /\ UNCHANGED <<js, stack>>
    BY <1>1, <1>6 DEF J!ReadHat
  <2>2. f = stack[Len(stack)] /\ Len(stack) \in DOMAIN stack /\ stack # <<>> /\ f.fn = "poll"
    <3>1. stack # <<>> /\ stack \in Seq(J!Call) /\ f.fn = "poll"
      BY <1>1, <1>2, <1>3 DEF J!Running, SlotsTyped
    <3>2. QED
      BY <1>1, <3>1 DEF J!Top
  <2>3. xinput
    <3>1. CASE driver = "win32"
      <4>1. r = f.seen
        BY <1>1, <3>1 DEF J!Raw
      <4>2. CallOK(stack, Len(stack))
        BY <1>3, <2>2 DEF RunOK, CallsOK
      <4>3. QED
        BY <2>1, <2>2, <4>1, <4>2 DEF CallOK
    <3>2. CASE driver # "win32"
      <4>1. CASE js[k].lost
        <5>1. r = [axis |-> 0, button |-> 0, hat |-> {"up"}]
          BY <1>1, <3>2, <4>1 DEF J!Raw
        <5>2. r.hat = {"up"}
          BY <5>1
        <5>3. "down" \in r.hat
          BY <2>1, PositionsAre
        <5>4. QED
          BY <5>2, <5>3
      <4>2. CASE ~js[k].lost
        <5>1. r = at[js[k].device]
          BY <1>1, <3>2, <4>2 DEF J!Raw
        <5>2. SlotOK(k) /\ PadsOK
          BY <1>3 DEF RunOK, SlotsOK
        <5>3. xinput \/ js[k].device \in J!Device
          BY <1>6, <5>2 DEF SlotOK
        <5>4. QED
          BY <2>1, <5>1, <5>2, <5>3 DEF PadsOK
      <4>3. QED
        BY <4>1, <4>2
    <3>3. QED
      BY <3>1, <3>2
  <2>4. SlotsTyped'
    BY <1>2, <1>3, <2>1 DEF SlotsTyped, J!system
  <2>5. xinput' /\ ~J!Alive'
    BY <1>2, <2>1, <2>3 DEF J!system, J!Alive
  <2>6. QED
    BY <2>4, <2>5 DEF SlotsInv, CrashOK
<1>7. QED
  BY <1>4, <1>5, <1>6

--------------------------------------------------------------------------------
(* Polling a slot *)

\* What the slot is of stays; on Win32 it is not lost any more.
PolledAs(k) ==
    /\ js' \in [J!Slot -> JoystickType]
    /\ \A l \in J!Slot : l # k => js'[l] = js[l]
    /\ js'[k].allocated = js[k].allocated /\ js'[k].connected = js[k].connected
    /\ js'[k].xinput = js[k].xinput /\ js'[k].index = js[k].index
    /\ js'[k].device = js[k].device /\ js'[k].axis = js[k].axis
    /\ js'[k].button = js[k].button /\ js'[k].hat = js[k].hat
    /\ js'[k].low = js[k].low /\ js'[k].high = js[k].high
    /\ js'[k].lost <=> js[k].lost /\ driver = "cocoa"

\* Above t the elements of slot k are going to be read, or none is.
BeginsPoll(k, p, t) ==
    \/ stack' = t /\ js'[k].stale = js[k].stale
    \/ \E e \in J!Call :
         /\ stack' = Append(t, e) /\ e.fn = "poll" /\ e.slot = k /\ e.seen = p
         /\ e.xinput => js[k].xinput
         /\ \/ js'[k].stale = js[k].stale
            \/ J!Nested = 0 /\ e.next = 0 /\ e.last = 2 /\ (js'[k].stale <=> js'[k].lost)

\* The calls of t poll what those of s do.
SamePolls(s, t) ==
    /\ \A k, e : IsToRead(s, k, e) => IsToRead(t, k, e)
    /\ \A k, p : HaveSeen(s, k, p) => HaveSeen(t, k, p)
NoPolls(t) == \A i \in DOMAIN t : t[i].fn # "poll"

LEMMA ElementsAre ==
  ASSUME SlotsTyped, NEW k \in J!Slot, NEW p \in PadPosition, NEW first \in 0..2,
         NEW last \in 0..2, NEW e, e = J!Elements(k, first, last, p)
  PROVE  /\ e \in J!Call /\ e.fn = "poll" /\ e.slot = k /\ e.seen = p
         /\ e.xinput = js[k].xinput
         /\ first = 0 /\ last = 2 => e.next = 0 /\ e.last = 2
<1>1. PICK f : f = J!CallOf("poll", k)
  OBVIOUS
<1>2. f \in J!Call /\ f.fn = "poll" /\ f.slot = k
  BY <1>1, CallIs DEF CallName
<1>3. PICK n, m : /\ n = (IF driver = "win32" THEN 0 ELSE first)
                  /\ m = (IF driver = "win32" THEN 2 ELSE last)
  OBVIOUS
<1>4. n \in Nat /\ m \in Nat
  BY <1>3
<1>5. PICK b : b = js[k].xinput
  OBVIOUS
<1>6. b \in BOOLEAN
  <2>1. js[k] \in JoystickType
    BY DEF SlotsTyped
  <2>2. QED
    BY <1>5, <2>1, JoystickHas
<1>7. e = [f EXCEPT !.xinput = b, !.seen = p, !.next = n, !.last = m]
  BY <1>1, <1>3, <1>5 DEF J!Elements, J!Element
<1>8. e \in J!Call
  BY <1>2, <1>4, <1>6, <1>7 DEF J!Call
<1>9. e.fn = "poll" /\ e.slot = k /\ e.seen = p /\ e.next = n /\ e.last = m
  BY <1>2, <1>7 DEF J!Call
<1>10. e.xinput = b
  BY <1>2, <1>6, <1>7 DEF J!Call
<1>11. QED
  BY <1>3, <1>5, <1>8, <1>9, <1>10

LEMMA SlotPolled ==
  ASSUME SlotsTyped, NEW k \in J!Slot, NEW b \in BOOLEAN, NEW c \in BOOLEAN,
         b <=> js[k].lost /\ driver = "cocoa",
         \/ js' = [js EXCEPT ![k].lost = b, ![k].stale = c]
         \/ js' = [js EXCEPT ![k].lost = b] /\ c = js[k].stale
  PROVE  PolledAs(k) /\ js'[k].stale = c
<1>1. js \in [J!Slot -> JoystickType] /\ js[k] \in JoystickType
  BY DEF SlotsTyped
<1>2. PICK x : x = js'[k]
  OBVIOUS
<1>3. /\ \/ x = [js[k] EXCEPT !.lost = b, !.stale = c]
         \/ x = [js[k] EXCEPT !.lost = b] /\ c = js[k].stale
      /\ \A l \in J!Slot : l # k => js'[l] = js[l]
  BY <1>1, <1>2
<1>4. x \in JoystickType
  BY <1>1, <1>3 DEF JoystickType
<1>5. /\ x.axis = js[k].axis /\ x.low = js[k].low /\ x.high = js[k].high
      /\ x.index = js[k].index /\ x.device = js[k].device /\ x.button = js[k].button
      /\ x.hat = js[k].hat
  BY <1>1, <1>3 DEF JoystickType
<1>6. x.allocated = js[k].allocated /\ x.connected = js[k].connected
  BY <1>1, <1>3 DEF JoystickType
<1>7. x.xinput = js[k].xinput
  BY <1>1, <1>3 DEF JoystickType
<1>8. x.lost = b /\ x.stale = c
  BY <1>1, <1>3 DEF JoystickType
<1>9. js' \in [J!Slot -> JoystickType]
  BY <1>1, <1>2, <1>4
<1>10. QED
  BY <1>2, <1>3, <1>5, <1>6, <1>7, <1>8, <1>9 DEF PolledAs

LEMMA BeginElementsIs ==
  ASSUME SlotsTyped, NEW k \in J!Slot, NEW p \in PadPosition, NEW t,
         NEW first \in 0..2, NEW last \in 0..2, J!BeginElements(k, first, last, p, t)
  PROVE  PolledAs(k) /\ BeginsPoll(k, p, t)
<1>1. PICK e : e = J!Elements(k, first, last, p)
  OBVIOUS
<1>2. /\ e \in J!Call /\ e.fn = "poll" /\ e.slot = k /\ e.seen = p
      /\ e.xinput = js[k].xinput
      /\ first = 0 /\ last = 2 => e.next = 0 /\ e.last = 2
  BY <1>1, ElementsAre
<1>3. js[k] \in JoystickType /\ js \in [J!Slot -> JoystickType]
  BY DEF SlotsTyped
<1>4. PICK b \in BOOLEAN : b = (js[k].lost /\ driver = "cocoa")
  OBVIOUS
<1>5. PICK c : c = (IF J!Nested = 0 /\ first = 0 /\ last = 2 THEN b ELSE js[k].stale)
  OBVIOUS
<1>6. c \in BOOLEAN
  BY <1>3, <1>4, <1>5, JoystickHas
<1>7. stack' = Append(t, e) /\ js' = [js EXCEPT ![k].lost = b, ![k].stale = c]
  BY <1>1, <1>3, <1>4, <1>5 DEF J!BeginElements, J!Element
<1>8. PolledAs(k) /\ js'[k].stale = c
  BY <1>4, <1>6, <1>7, SlotPolled
<1>9. js'[k].lost <=> b
  BY <1>4, <1>8 DEF PolledAs
<1>10. QED
  BY <1>2, <1>5, <1>7, <1>8, <1>9 DEF BeginsPoll

LEMMA FoundIs ==
  ASSUME SlotsTyped, NEW k \in J!Slot, NEW p \in PadPosition, NEW t,
         NEW what \in {"presence", "axes", "buttons", "all"}, J!Found(k, what, p, t)
  PROVE  PolledAs(k) /\ BeginsPoll(k, p, t)
<1>1. CASE what = "presence"
  <2>1. js[k] \in JoystickType /\ js \in [J!Slot -> JoystickType]
    BY DEF SlotsTyped
  <2>2. PICK b \in BOOLEAN : b = (js[k].lost /\ driver = "cocoa")
    OBVIOUS
  <2>3. js' = [js EXCEPT ![k].lost = b] /\ stack' = t
    BY <1>1, <2>1, <2>2 DEF J!Found
  <2>4. PICK c : c = js[k].stale
    OBVIOUS
  <2>5. c \in BOOLEAN
    BY <2>1, <2>4, JoystickHas
  <2>6. PolledAs(k) /\ js'[k].stale = c
    BY <2>2, <2>3, <2>4, <2>5, SlotPolled
  <2>7. QED
    BY <2>3, <2>4, <2>6 DEF BeginsPoll
<1>2. CASE what = "axes"
  <2>1. J!BeginElements(k, 0, 0, p, t)
    BY <1>2 DEF J!Found, J!Element
  <2>2. QED
    BY <2>1, BeginElementsIs
<1>3. CASE what = "buttons"
  <2>1. J!BeginElements(k, 1, 2, p, t)
    BY <1>3 DEF J!Found, J!Element
  <2>2. QED
    BY <2>1, BeginElementsIs
<1>4. CASE what = "all"
  <2>1. J!BeginElements(k, 0, 2, p, t)
    BY <1>4 DEF J!Found, J!Element
  <2>2. QED
    BY <2>1, BeginElementsIs
<1>5. QED
  BY <1>1, <1>2, <1>3, <1>4

\* The device of the slot was there: p is what it is at.
LEMMA FoundOK ==
  ASSUME SlotsTyped, J!Alive, RunOK(stack), NothingElse, NEW k \in J!Slot, js[k].connected,
         NEW t \in Seq(J!Call), CallsOK(t), ClosingOK(t), ~Starting(t),
         SamePolls(stack, t), J!Nested = 0 => NoPolls(t),
         NEW p \in PadPosition, p.hat = J!Direction => xinput,
         \A d \in plugged : J!Reads(k, d) => at[d] = p,
         driver = "win32" /\ ~js[k].xinput => js[k].device \in plugged,
         PolledAs(k), BeginsPoll(k, p, t),
         StartOK(t)', Win32OK(t)', CocoaOK(t)', Started(t)'
  PROVE  \E v \in Seq(J!Call) : v = stack' /\ RunOK(v)'
<1>1. PICK u : u = stack
  OBVIOUS
<1>2. /\ PadsOK /\ SlotsOK /\ SlotsApart /\ ReportsOK(u) /\ SamePolls(u, t)
  BY <1>1 DEF RunOK
<1>3. HoldersSame /\ ClosingSame
  BY DEF PolledAs, HoldersSame, ClosingSame, Closing
<1>4. PadsOK' /\ SlotsApart' /\ CallsOK(t)' /\ ClosingOK(t)'
  BY <1>2, <1>3, HeldKept
<1>5. /\ at' = at /\ plugged' = plugged /\ driver' = driver /\ index' = index
      /\ js \in [J!Slot -> JoystickType] /\ js' \in [J!Slot -> JoystickType]
      /\ \A l \in J!Slot : l # k => js'[l] = js[l]
  BY DEF NothingElse, PolledAs, SlotsTyped
<1>6. BeginsPoll(k, p, t) => js'[k].stale = js[k].stale \/ (js'[k].stale <=> js'[k].lost)
  BY DEF BeginsPoll
<1>7. SlotsOK'
  <2> SUFFICES ASSUME NEW l \in J!Slot
               PROVE  SlotOK(l)'
    BY DEF SlotsOK
  <2>1. SlotOK(l)
    BY <1>2 DEF SlotsOK
  <2>2. CASE l = k
    <3>1. js[k].allocated /\ js'[k].allocated /\ js'[k].connected
      BY <2>1, <2>2 DEF SlotOK, PolledAs
    <3>2. ~js'[k].stale => ~js'[k].lost
      BY <1>6, <2>1, <2>2 DEF SlotOK, PolledAs
    <3>3. js'[k].connected /\ ~js'[k].xinput /\ js'[k].device \notin plugged => js'[k].lost
      <4>1. driver \in {"win32", "cocoa"}
        BY SlotsAre DEF SlotsTyped
      <4>2. QED
        BY <2>1, <2>2, <4>1 DEF SlotOK, PolledAs
    <3>4. QED
      BY <1>5, <2>1, <2>2, <3>1, <3>2, <3>3 DEF SlotOK, PolledAs, NothingElse
  <2>3. CASE l # k
    BY <1>5, <2>1, <2>3 DEF SlotOK, NothingElse
  <2>4. QED
    BY <2>2, <2>3
<1>8. ASSUME NEW l \in J!Slot, NEW d \in plugged, J!Reads(l, d)', l = k => js'[k].stale = js[k].stale,
             ~js'[l].stale
      PROVE  /\ J!Reads(l, d) /\ ~js[l].stale /\ ReportOK(u, l, d)
             /\ AxisAgrees(l, d) => AxisAgrees(l, d)'
             /\ js'[l].button = js[l].button /\ js'[l].hat = js[l].hat
  <2>1. J!Reads(l, d) /\ ~js[l].stale
    BY <1>5, <1>8 DEF J!Reads, PolledAs
  <2>2. ReportOK(u, l, d)
    BY <1>2, <2>1 DEF ReportsOK
  <2>3. /\ js'[l].axis = js[l].axis /\ js'[l].low = js[l].low /\ js'[l].high = js[l].high
        /\ js'[l].button = js[l].button /\ js'[l].hat = js[l].hat
    BY <1>5 DEF PolledAs
  <2>4. AxisAgrees(l, d) => AxisAgrees(l, d)'
    BY <1>5, <2>3 DEF AxisAgrees, J!Same, J!AxisValue
  <2>5. QED
    BY <2>1, <2>2, <2>3, <2>4
<1>9. CASE stack' = t /\ js'[k].stale = js[k].stale
  <2>1. ReportsOK(t)'
    <3> SUFFICES ASSUME NEW l \in J!Slot, NEW d \in plugged', J!Reads(l, d)', ~js'[l].stale
                 PROVE  ReportOK(t, l, d)'
      BY DEF ReportsOK
    <3>1. /\ ReportOK(u, l, d) /\ (AxisAgrees(l, d) => AxisAgrees(l, d)')
          /\ js'[l].button = js[l].button /\ js'[l].hat = js[l].hat
      BY <1>5, <1>8, <1>9
    <3>2. /\ \A n : IsToRead(u, l, n) => IsToRead(t, l, n)
          /\ HaveSeen(u, l, at[d]) => HaveSeen(t, l, at[d])
      BY <1>2 DEF SamePolls
    <3>3. driver' = "win32" => HaveSeen(t, l, at'[d])
      BY <1>5, <3>1, <3>2 DEF ReportOK
    <3>4. /\ AxisAgrees(l, d)' \/ IsToRead(t, l, 0)
          /\ js'[l].button = at'[d].button \/ IsToRead(t, l, 1)
          /\ js'[l].hat = at'[d].hat \/ IsToRead(t, l, 2)
      BY <1>5, <3>1, <3>2 DEF ReportOK
    <3>5. QED
      BY <3>3, <3>4 DEF ReportOK, IsToRead, HaveSeen
  <2>2. RunOK(t)'
    BY <1>4, <1>7, <2>1 DEF RunOK
  <2>3. QED
    BY <1>9, <2>2
<1>10. CASE \E e \in J!Call :
              /\ stack' = Append(t, e) /\ e.fn = "poll" /\ e.slot = k /\ e.seen = p
              /\ e.xinput => js[k].xinput
              /\ \/ js'[k].stale = js[k].stale
                 \/ J!Nested = 0 /\ e.next = 0 /\ e.last = 2 /\ (js'[k].stale <=> js'[k].lost)
  <2>1. PICK e \in J!Call :
              /\ stack' = Append(t, e) /\ e.fn = "poll" /\ e.slot = k /\ e.seen = p
              /\ e.xinput => js[k].xinput
              /\ \/ js'[k].stale = js[k].stale
                 \/ J!Nested = 0 /\ e.next = 0 /\ e.last = 2 /\ (js'[k].stale <=> js'[k].lost)
    BY <1>10
  <2>2. PICK v : v = Append(t, e)
    OBVIOUS
  <2>3. /\ v \in Seq(J!Call) /\ Len(t) \in Nat /\ v[Len(t) + 1] = e
        /\ DOMAIN t = 1..Len(t) /\ DOMAIN v = 1..(Len(t) + 1)
        /\ \A i \in DOMAIN t : v[i] = t[i] /\ i # Len(t) + 1
    BY <2>2, PushedCall
  <2>4. SameWork(t, v)
    BY <2>1, <2>2, PushedWork
  <2>5. StartOK(v)' /\ Win32OK(v)' /\ CocoaOK(v)'
    BY <2>4, WorkKept
  <2>6. ~Starting(v)
    BY <2>4 DEF SameWork
  <2>7. CallsOK(v)'
    <3>1. e.xinput \/ e.seen.hat = J!Direction => xinput'
      BY <1>2, <2>1 DEF SlotsOK, SlotOK, NothingElse
    <3>2. CallOK(v, Len(t) + 1)'
      BY <2>1, <2>3, <2>6, <3>1 DEF CallOK, Starting
    <3>3. QED
      BY <1>4, <2>2, <2>6, <3>2, CallsPushed
  <2>8. ClosingOK(v)'
    <3>1. \A l \in J!Slot, i \in DOMAIN v : Closes(v, i, l) <=> i \in DOMAIN t /\ Closes(t, i, l)
      BY <2>1, <2>3 DEF Closes
    <3>2. \A i \in DOMAIN t : i \in DOMAIN v
      BY <2>3
    <3>3. QED
      BY <1>4, <3>1, <3>2 DEF ClosingOK, Closes
  <2>9. ASSUME NEW l, NEW n, IsToRead(u, l, n)
        PROVE  IsToRead(v, l, n)
    <3>1. IsToRead(t, l, n)
      BY <1>2, <2>9 DEF SamePolls
    <3>2. PICK i \in DOMAIN t : t[i].fn = "poll" /\ t[i].slot = l /\ t[i].next <= n /\ n <= t[i].last
      BY <3>1 DEF IsToRead
    <3>3. i \in DOMAIN v /\ v[i] = t[i]
      BY <2>3
    <3>4. QED
      BY <3>2, <3>3 DEF IsToRead
  <2>10. ASSUME NEW l, NEW q, HaveSeen(u, l, q), l = k => q = p
         PROVE  HaveSeen(v, l, q)
    <3>1. HaveSeen(t, l, q)
      BY <1>2, <2>10 DEF SamePolls
    <3> SUFFICES ASSUME NEW i \in DOMAIN v, v[i].fn = "poll", v[i].slot = l
                 PROVE  v[i].seen = q
      BY DEF HaveSeen
    <3>2. CASE i = Len(t) + 1
      BY <2>1, <2>3, <2>10, <3>2
    <3>3. CASE i # Len(t) + 1
      BY <2>3, <3>1, <3>3 DEF HaveSeen
    <3>4. QED
      BY <3>2, <3>3
  <2>11. ReportsOK(v)'
    <3> SUFFICES ASSUME NEW l \in J!Slot, NEW d \in plugged', J!Reads(l, d)', ~js'[l].stale
                 PROVE  ReportOK(v, l, d)'
      BY DEF ReportsOK
    <3>1. l = k => at[d] = p
      <4>1. l = k => J!Reads(k, d)
        BY <1>5 DEF J!Reads, PolledAs
      <4>2. QED
        BY <1>5, <4>1
    <3>2. CASE l = k => js'[k].stale = js[k].stale
      <4>1. /\ ReportOK(u, l, d) /\ (AxisAgrees(l, d) => AxisAgrees(l, d)')
            /\ js'[l].button = js[l].button /\ js'[l].hat = js[l].hat
        BY <1>5, <1>8, <3>2
      <4>2. driver' = "win32" => HaveSeen(v, l, at'[d])
        BY <1>5, <2>10, <3>1, <4>1 DEF ReportOK
      <4>3. /\ AxisAgrees(l, d)' \/ IsToRead(v, l, 0)
            /\ js'[l].button = at'[d].button \/ IsToRead(v, l, 1)
            /\ js'[l].hat = at'[d].hat \/ IsToRead(v, l, 2)
        BY <1>5, <2>9, <4>1 DEF ReportOK
      <4>4. QED
        BY <4>2, <4>3 DEF ReportOK, IsToRead, HaveSeen
    <3>3. CASE l = k /\ J!Nested = 0 /\ e.next = 0 /\ e.last = 2
      <4>1. Len(t) + 1 \in DOMAIN v
        BY <2>3
      <4>2. IsToRead(v, l, 0) /\ IsToRead(v, l, 1) /\ IsToRead(v, l, 2)
        BY <2>1, <2>3, <3>3, <4>1 DEF IsToRead
      <4>3. HaveSeen(v, l, at[d])
        <5>1. \A i \in DOMAIN v : v[i].fn = "poll" => i = Len(t) + 1
          BY <2>3, <3>3 DEF NoPolls
        <5>2. QED
          BY <2>1, <2>3, <3>1, <3>3, <5>1 DEF HaveSeen
      <4>4. QED
        BY <1>5, <4>2, <4>3 DEF ReportOK, IsToRead, HaveSeen
    <3>4. QED
      BY <2>1, <3>2, <3>3
  <2>12. RunOK(v)'
    BY <1>4, <1>7, <2>5, <2>7, <2>8, <2>11 DEF RunOK
  <2>13. QED
    BY <2>1, <2>2, <2>3, <2>12
<1>11. QED
  BY <1>9, <1>10 DEF BeginsPoll

--------------------------------------------------------------------------------
(* Closing a slot *)

\* The slot of a device that is closed is disconnected, but not yet free.
ClosedAs(k) ==
    /\ js' \in [J!Slot -> JoystickType]
    /\ \A l \in J!Slot : l # k => js'[l] = js[l]
    /\ js'[k].allocated = js[k].allocated /\ js'[k].connected = FALSE
    /\ js'[k].xinput = js[k].xinput /\ js'[k].index = js[k].index
    /\ js'[k].device = js[k].device /\ js'[k].axis = js[k].axis
    /\ js'[k].lost = js[k].lost /\ js'[k].stale = js[k].stale

LEMMA BeginCloseIs ==
  ASSUME SlotsTyped, NEW k \in J!Slot, NEW t, J!BeginClose(k, t)
  PROVE  ClosedAs(k) /\ J!Tell(TRUE, Append(t, J!CallOf("close", k)))
<1>1. js \in [J!Slot -> JoystickType] /\ js[k] \in JoystickType
  BY DEF SlotsTyped
<1>2. PICK b \in BOOLEAN : b = FALSE
  OBVIOUS
<1>3. js' = [js EXCEPT ![k].connected = b] /\ J!Tell(TRUE, Append(t, J!CallOf("close", k)))
  BY <1>2 DEF J!BeginClose
<1>4. PICK x : x = js'[k]
  OBVIOUS
<1>5. x = [js[k] EXCEPT !.connected = b] /\ \A l \in J!Slot : l # k => js'[l] = js[l]
  BY <1>1, <1>3, <1>4
<1>6. x \in JoystickType
  BY <1>1, <1>5 DEF JoystickType
<1>7. /\ x.axis = js[k].axis /\ x.index = js[k].index /\ x.device = js[k].device
  BY <1>1, <1>5 DEF JoystickType
<1>8. x.allocated = js[k].allocated /\ x.connected = b
  BY <1>1, <1>5 DEF JoystickType
<1>9. x.xinput = js[k].xinput
  BY <1>1, <1>5 DEF JoystickType
<1>10. x.lost = js[k].lost /\ x.stale = js[k].stale
  BY <1>1, <1>5 DEF JoystickType
<1>11. js' \in [J!Slot -> JoystickType]
  BY <1>1, <1>3, <1>4, <1>6
<1>12. QED
  BY <1>2, <1>3, <1>4, <1>5, <1>7, <1>8, <1>9, <1>10, <1>11 DEF ClosedAs

\* The device of the slot is gone: t is what the closing returns to.
LEMMA ClosedOK ==
  ASSUME SlotsTyped, RunOK(stack), UNCHANGED J!system, NEW k \in J!Slot, js[k].connected,
         NEW t \in Seq(J!Call), CallsOK(t), ClosingOK(t), Starting(t) => driver = "cocoa",
         SamePolls(stack, t), ClosedAs(k),
         StartOK(t)', Win32OK(t)', CocoaOK(t)', Started(t)',
         NEW v, v = Append(t, J!CallOf("close", k))
  PROVE  v \in Seq(J!Call) /\ RunOK(v)' /\ SameWork(t, v)
<1>1. PICK u, f : u = stack /\ f = J!CallOf("close", k)
  OBVIOUS
<1>2. /\ PadsOK /\ SlotsOK /\ SlotsApart /\ ReportsOK(u) /\ SamePolls(u, t)
  BY <1>1 DEF RunOK
<1>3. f \in J!Call /\ f.fn = "close" /\ f.slot = k /\ ~f.xinput /\ f.seen.hat = {}
  BY <1>1, CallIs, PositionsAre DEF CallName
<1>4. /\ v \in Seq(J!Call) /\ Len(t) \in Nat /\ v[Len(t) + 1] = f
      /\ DOMAIN t = 1..Len(t) /\ DOMAIN v = 1..(Len(t) + 1)
      /\ \A i \in DOMAIN t : v[i] = t[i] /\ i # Len(t) + 1
  BY <1>1, <1>3, PushedCall
<1>5. SameWork(t, v)
  BY <1>1, <1>3, PushedWork
<1>6. StartOK(v)' /\ Win32OK(v)' /\ CocoaOK(v)'
  BY <1>5, WorkKept
<1>7. /\ at' = at /\ plugged' = plugged /\ driver' = driver /\ index' = index
      /\ (xinput' <=> xinput)
      /\ js \in [J!Slot -> JoystickType] /\ js' \in [J!Slot -> JoystickType]
      /\ \A l \in J!Slot : l # k => js'[l] = js[l]
  BY DEF J!system, ClosedAs, SlotsTyped
<1>8. PadsOK'
  BY <1>2, <1>7 DEF PadsOK
<1>9. SlotsOK'
  <2> SUFFICES ASSUME NEW l \in J!Slot
               PROVE  SlotOK(l)'
    BY DEF SlotsOK
  <2>1. SlotOK(l)
    BY <1>2 DEF SlotsOK
  <2>2. CASE l = k
    BY <1>7, <2>1, <2>2 DEF SlotOK, ClosedAs
  <2>3. CASE l # k
    BY <1>7, <2>1, <2>3 DEF SlotOK
  <2>4. QED
    BY <2>2, <2>3
<1>10. SlotsApart'
  BY <1>2, <1>7 DEF SlotsApart, Alike, ClosedAs
<1>11. Closing(k)' /\ ~Closing(k) /\ \A l \in J!Slot : l # k => (Closing(l)' <=> Closing(l))
  BY <1>2, <1>7 DEF Closing, ClosedAs, SlotsOK, SlotOK
<1>12. \A i \in DOMAIN t : t[i].fn = "close" => t[i].slot # k /\ t[i].slot \in J!Slot
  <2> SUFFICES ASSUME NEW i \in DOMAIN t, t[i].fn = "close"
               PROVE  t[i].slot # k /\ t[i].slot \in J!Slot
    OBVIOUS
  <2>1. Closing(t[i].slot)
    BY DEF CallsOK, CallOK
  <2>2. t[i].slot \in J!Slot
    BY StackHas, CallHas
  <2>3. QED
    BY <1>11, <2>1, <2>2
<1>13. CallsOK(v)'
  <2>1. CallsOK(t)'
    <3> SUFFICES ASSUME NEW i \in DOMAIN t
                 PROVE  CallOK(t, i)'
      BY DEF CallsOK
    <3>1. CallOK(t, i)
      BY DEF CallsOK
    <3>2. t[i].fn = "close" => Closing(t[i].slot)'
      BY <1>11, <1>12, <3>1 DEF CallOK
    <3>3. QED
      BY <1>7, <3>1, <3>2 DEF CallOK, Starting
  <2>2. Starting(v) <=> Starting(t)
    BY <1>5 DEF SameWork
  <2>3. CallOK(v, Len(t) + 1)'
    <3>1. Closing(f.slot)'
      BY <1>3, <1>11
    <3>2. QED
      BY <1>3, <1>4, <1>7, <2>2, <3>1, PositionsAre DEF CallOK, Starting
  <2>4. QED
    BY <1>1, <1>3, <2>1, <2>2, <2>3, CallsPushed
<1>14. ClosingOK(v)'
  <2>1. \A l \in J!Slot, i \in DOMAIN t : Closes(v, i, l) <=> Closes(t, i, l)
    BY <1>4 DEF Closes
  <2>2. \A l \in J!Slot : Closes(v, Len(t) + 1, l) <=> l = k
    BY <1>3, <1>4 DEF Closes
  <2>3. \A i \in DOMAIN v : i \in DOMAIN t \/ i = Len(t) + 1
    BY <1>4
  <2>4. \A i \in DOMAIN t : ~Closes(v, i, k)
    BY <1>4, <1>12 DEF Closes
  <2>5. \A l \in J!Slot : Closing(l)' => \E i \in DOMAIN v : Closes(v, i, l)
    <3>1. \A l \in J!Slot : Closing(l) => \E i \in DOMAIN t : Closes(t, i, l)
      BY DEF ClosingOK
    <3>2. \A i \in DOMAIN t : i \in DOMAIN v
      BY <1>4
    <3>3. Len(t) + 1 \in DOMAIN v
      BY <1>4
    <3>4. QED
      BY <1>11, <2>1, <2>2, <3>1, <3>2, <3>3
  <2>6. \A l \in J!Slot : \A i, j \in DOMAIN v : Closes(v, i, l) /\ Closes(v, j, l) => i = j
    <3>1. \A l \in J!Slot : \A i, j \in DOMAIN t : Closes(t, i, l) /\ Closes(t, j, l) => i = j
      BY DEF ClosingOK
    <3>2. QED
      BY <2>1, <2>2, <2>3, <2>4, <3>1
  <2>7. QED
    BY <2>5, <2>6 DEF ClosingOK, Closes
<1>15. ReportsOK(v)'
  <2> SUFFICES ASSUME NEW l \in J!Slot, NEW d \in plugged', J!Reads(l, d)', ~js'[l].stale
               PROVE  ReportOK(v, l, d)'
    BY DEF ReportsOK
  <2>1. l # k
    BY DEF J!Reads, ClosedAs
  <2>2. J!Reads(l, d) /\ ~js[l].stale
    BY <1>7, <2>1 DEF J!Reads
  <2>3. ReportOK(u, l, d)
    BY <1>2, <1>7, <2>2 DEF ReportsOK
  <2>4. ASSUME NEW n, IsToRead(u, l, n)
        PROVE  IsToRead(v, l, n)
    <3>1. IsToRead(t, l, n)
      BY <1>2, <2>4 DEF SamePolls
    <3>2. QED
      BY <1>4, <3>1 DEF IsToRead
  <2>5. HaveSeen(u, l, at[d]) => HaveSeen(v, l, at[d])
    <3>1. HaveSeen(u, l, at[d]) => HaveSeen(t, l, at[d])
      BY <1>2 DEF SamePolls
    <3>2. \A i \in DOMAIN v : v[i].fn = "poll" => i \in DOMAIN t /\ v[i] = t[i]
      BY <1>3, <1>4
    <3>3. QED
      BY <3>1, <3>2 DEF HaveSeen
  <2>6. driver' = "win32" => HaveSeen(v, l, at'[d])
    BY <1>7, <2>3, <2>5 DEF ReportOK
  <2>7. /\ AxisAgrees(l, d)' \/ IsToRead(v, l, 0)
        /\ js'[l].button = at'[d].button \/ IsToRead(v, l, 1)
        /\ js'[l].hat = at'[d].hat \/ IsToRead(v, l, 2)
    BY <1>7, <2>1, <2>3, <2>4 DEF ReportOK, AxisAgrees, J!Same, J!AxisValue
  <2>8. QED
    BY <2>6, <2>7 DEF ReportOK, IsToRead, HaveSeen
<1>16. QED
  BY <1>4, <1>5, <1>6, <1>8, <1>9, <1>10, <1>13, <1>14, <1>15 DEF RunOK

\* On Win32 a slot may be closed that was due to be, or one that is not empty for long.
LEMMA ClosedWin32 ==
  ASSUME SlotsTyped, RunOK(stack), NothingElse, driver = "win32", NEW u, u = stack,
         NEW k \in J!Slot, js[k].connected, ClosedAs(k),
         (js[k].xinput /\ IsEmpty(js[k].index)) \/ (~js[k].xinput /\ js[k].lost)
  PROVE  Win32OK(u)'
<1>1. DueOK(u) /\ ListedOK(u) /\ SkippedOK
  BY DEF RunOK, Win32OK
<1>2. /\ plugged' = plugged /\ index' = index /\ notices' = notices /\ skipped' = skipped
      /\ (initialized' <=> initialized) /\ (xinput' <=> xinput)
      /\ \A l \in J!Slot : l # k => js'[l] = js[l]
      /\ \A i \in DOMAIN notices : i \in Nat \ {0}
  <2>1. notices \in Seq(NoticeType)
    BY DEF SlotsTyped
  <2>2. \A i \in DOMAIN notices : i \in Nat \ {0}
    BY <2>1
  <2>3. QED
    BY <2>2 DEF NothingElse, ClosedAs
<1>3. ArrivalAfter(0)' <=> ArrivalAfter(0)
  BY <1>2 DEF ArrivalAfter
<1>4. DueOK(u)'
  <2> SUFFICES ASSUME NEW l \in J!Slot, js'[l].connected
               PROVE  /\ (js[l].xinput /\ IsEmpty(js[l].index) => GoesOn(u, l, NoDevice))'
                      /\ (~js[l].xinput /\ js[l].lost => GoesOn(u, l, js[l].device))'
    BY DEF DueOK
  <2>1. js'[l] = js[l]
    BY <1>2 DEF ClosedAs
  <2>2. /\ js[l].xinput /\ IsEmpty(js[l].index) => GoesOn(u, l, NoDevice)
        /\ ~js[l].xinput /\ js[l].lost => GoesOn(u, l, js[l].device)
    BY <1>1, <2>1 DEF DueOK
  <2>3. QED
    BY <1>2, <2>1, <2>2 DEF IsEmpty, GoesOn, Presence, ArrivalAfter
<1>5. ASSUME NEW d \in J!Device, HasSlot(d), d \in plugged
      PROVE  HasSlot(d)' \/ ArrivalAfter(0)
  <2>1. PICK l \in J!Slot : Has(l, d)
    BY <1>5 DEF HasSlot
  <2>2. CASE l = k
    <3>1. GoesOn(u, k, d)
      <4>1. js[k].device = d /\ ~js[k].xinput /\ js[k].lost
        BY <2>1, <2>2 DEF Has
      <4>2. GoesOn(u, k, js[k].device)
        BY <1>1, <4>1 DEF DueOK
      <4>3. QED
        BY <4>1, <4>2
    <3>2. CASE Presence(u, k) /\ (d \in plugged => ArrivalAfter(0))
      BY <1>5, <3>2
    <3>3. CASE \E i \in DOMAIN notices : ArrivalAfter(i)
      <4>1. PICK i \in DOMAIN notices : ArrivalAfter(i)
        BY <3>3
      <4>2. PICK j \in DOMAIN notices : j > i /\ notices[j].what = "arrival"
        BY <4>1 DEF ArrivalAfter
      <4>3. j > 0
        BY <1>2
      <4>4. QED
        BY <4>2, <4>3 DEF ArrivalAfter
    <3>4. QED
      BY <1>5, <3>1, <3>2, <3>3 DEF GoesOn
  <2>3. CASE l # k
    BY <1>2, <2>1, <2>3 DEF HasSlot, Has
  <2>4. QED
    BY <2>2, <2>3
<1>6. ASSUME NEW p \in plugged \intersect Pad, IsListed(index[p])
      PROVE  IsListed(index[p])'
  <2>1. PICK l \in J!Slot : js[l].connected /\ js[l].xinput /\ js[l].index = index[p]
    BY <1>6 DEF IsListed
  <2>2. l # k
    BY <2>1 DEF IsEmpty
  <2>3. QED
    BY <1>2, <2>1, <2>2 DEF IsListed
<1>7. ListedOK(u)'
  <2> SUFFICES ASSUME Started(u)
               PROVE  /\ \A d \in (plugged \intersect Stick) \ skipped :
                           HasSlot(d)' \/ ArrivalAfter(0) \/ (Detection(u) /\ d \notin u[1].tried)
                      /\ \A p \in (plugged \intersect Pad) \ skipped :
                           xinput => \/ IsListed(index[p])' \/ ArrivalAfter(0)
                                     \/ Detection(u) /\ u[1].next <= index[p]
    BY <1>2, <1>3 DEF ListedOK, Started, Starting, Detection, HasSlot, Has, IsListed, ArrivalAfter
  <2>1. \A d \in plugged : d \in J!Device
    BY DEF SlotsTyped
  <2>2. \A d \in (plugged \intersect Stick) \ skipped :
          HasSlot(d)' \/ ArrivalAfter(0) \/ (Detection(u) /\ d \notin u[1].tried)
    BY <1>1, <1>5, <2>1 DEF ListedOK
  <2>3. \A p \in (plugged \intersect Pad) \ skipped :
          xinput => \/ IsListed(index[p])' \/ ArrivalAfter(0)
                    \/ Detection(u) /\ u[1].next <= index[p]
    BY <1>1, <1>6 DEF ListedOK
  <2>4. QED
    BY <2>2, <2>3
<1>8. SkippedOK'
  <2>1. \A d : HasSlot(d)' => HasSlot(d)
    BY <1>2 DEF HasSlot, Has, ClosedAs
  <2>2. \A i : IsListed(i)' => IsListed(i)
    BY <1>2 DEF IsListed, ClosedAs
  <2>3. QED
    BY <1>1, <1>2, <2>1, <2>2 DEF SkippedOK
<1>9. QED
  BY <1>4, <1>7, <1>8 DEF Win32OK

\* Nothing of the slot waits for a check of presence.
NotDue(k) ==
    driver = "win32" /\ js[k].connected =>
      (js[k].xinput => ~IsEmpty(js[k].index)) /\ (~js[k].xinput => ~js[k].lost)

WorkDone(s) == StartOK(s) /\ Win32OK(s) /\ CocoaOK(s) /\ Started(s)

LEMMA PollIsSafe ==
  ASSUME SlotsInv, J!Alive, UNCHANGED J!system,
         UNCHANGED <<notices, initialized, crash, skipped, failures>>,
         NEW k \in J!Slot, js[k].connected, NEW what \in {"presence", "axes", "buttons", "all"},
         NEW t \in Seq(J!Call), NEW u, u = stack, CallsOK(t), ClosingOK(t), ~Starting(t),
         ~Starting(u), Started(u), SamePolls(u, t), J!Nested = 0 => NoPolls(t),
         NotDue(k)' /\ WorkDone(u)' => WorkDone(t)', J!Poll(k, what, t)
  PROVE  SlotsInv'
<1>1. SlotsTyped /\ RunOK(stack) /\ NothingElse /\ u \in Seq(J!Call)
  BY OthersStay DEF SlotsInv, SlotsTyped
<1>2. /\ PadsOK /\ SlotOK(k) /\ SlotsApart /\ CallsOK(u) /\ ClosingOK(u) /\ StartOK(u)
      /\ Win32OK(u) /\ CocoaOK(u)
  BY <1>1 DEF RunOK, SlotsOK
<1>3. skipped' \subseteq plugged /\ failures' \in 0..MaxFailures /\ initialized' \in BOOLEAN
  BY <1>1 DEF SlotsTyped
<1>4. driver \in {"win32", "cocoa"} /\ (driver = "cocoa" => ~xinput) /\ at \in [J!Device -> PadPosition]
  BY <1>1, SlotsAre DEF SlotsTyped
<1>5. ASSUME NEW p \in PadPosition, p.hat = J!Direction => xinput,
             \A d \in plugged : J!Reads(k, d) => at[d] = p,
             driver = "win32" /\ ~js[k].xinput => js[k].device \in plugged,
             js[k].xinput => ~IsEmpty(js[k].index), J!Found(k, what, p, t)
      PROVE  SlotsInv'
  <2>1. PolledAs(k) /\ BeginsPoll(k, p, t)
    BY <1>1, <1>5, FoundIs
  <2>2. HoldersSame
    BY <2>1 DEF PolledAs, HoldersSame
  <2>3. Win32OK(u)' /\ CocoaOK(u)' /\ Started(u)'
    BY <1>1, <1>2, <2>2, HeldKept
  <2>4. StartOK(u)'
    BY <2>3 DEF StartOK, Starting
  <2>5. NotDue(k)'
    <3>1. \A i : IsEmpty(i)' <=> IsEmpty(i)
      BY <1>1 DEF IsEmpty, NothingElse
    <3>2. QED
      BY <1>1, <1>5, <2>1, <3>1 DEF NotDue, PolledAs, NothingElse
  <2>6. WorkDone(t)'
    BY <2>3, <2>4, <2>5 DEF WorkDone
  <2>7. StartOK(t)' /\ Win32OK(t)' /\ CocoaOK(t)' /\ Started(t)'
    BY <2>6 DEF WorkDone
  <2>8. SamePolls(stack, t)
    BY DEF SamePolls
  <2>9. \E v \in Seq(J!Call) : v = stack' /\ RunOK(v)'
    BY <1>1, <1>5, <2>1, <2>7, <2>8, FoundOK
  <2>10. PICK v \in Seq(J!Call) : v = stack' /\ RunOK(v)'
    BY <2>9
  <2>11. js' \in [J!Slot -> JoystickType]
    BY <2>1 DEF PolledAs
  <2>12. QED
    BY <1>1, <1>3, <2>10, <2>11, StepIsSafe
<1>6. ASSUME driver = "win32", J!BeginClose(k, t),
             (js[k].xinput /\ IsEmpty(js[k].index)) \/ (~js[k].xinput /\ js[k].lost)
      PROVE  SlotsInv'
  <2>1. ClosedAs(k) /\ J!Tell(TRUE, Append(t, J!CallOf("close", k)))
    BY <1>1, <1>6, BeginCloseIs
  <2>2. Win32OK(u)'
    BY <1>1, <1>6, <2>1, ClosedWin32
  <2>3. CocoaOK(u)'
    BY <1>1, <1>6 DEF CocoaOK, NothingElse
  <2>4. Started(u)'
    BY <1>1 DEF Started, Starting, NothingElse
  <2>5. StartOK(u)' /\ NotDue(k)'
    BY <2>1, <2>4 DEF StartOK, Starting, NotDue, ClosedAs
  <2>6. WorkDone(t)'
    BY <2>2, <2>3, <2>4, <2>5 DEF WorkDone
  <2>7. StartOK(t)' /\ Win32OK(t)' /\ CocoaOK(t)' /\ Started(t)'
    BY <2>6 DEF WorkDone
  <2>8. SamePolls(stack, t)
    BY DEF SamePolls
  <2>9. PICK v : v = Append(t, J!CallOf("close", k))
    OBVIOUS
  <2>10. v \in Seq(J!Call) /\ RunOK(v)' /\ SameWork(t, v)
    BY <1>1, <2>1, <2>7, <2>8, <2>9, ClosedOK
  <2>11. ~Starting(v) /\ Started(v)'
    BY <2>7, <2>10 DEF SameWork, Started, Starting
  <2>12. js' \in [J!Slot -> JoystickType]
    BY <2>1 DEF ClosedAs
  <2>13. J!Tell(TRUE, v)
    BY <2>1, <2>9
  <2>14. QED
    BY <1>1, <1>3, <2>10, <2>11, <2>12, <2>13, ToldIsSafe
<1>7. CASE js[k].xinput /\ J!PadAt(js[k].index) = {}
  <2>1. J!BeginClose(k, t)
    BY <1>7 DEF J!Poll
  <2>2. IsEmpty(js[k].index)
    BY <1>7 DEF IsEmpty, J!PadAt
  <2>3. driver = "win32"
    BY <1>2, <1>4, <1>7 DEF SlotOK
  <2>4. QED
    BY <1>6, <1>7, <2>1, <2>2, <2>3
<1>8. CASE js[k].xinput /\ J!PadAt(js[k].index) # {}
  <2>1. PICK p \in J!PadAt(js[k].index) : J!Found(k, what, at[p], t)
    BY <1>8 DEF J!Poll
  <2>2. p \in plugged \intersect Pad /\ index[p] = js[k].index
    BY <2>1 DEF J!PadAt
  <2>3. p \in J!Device /\ at[p] \in PadPosition
    BY <1>4, <2>2, SlotsAre
  <2>4. at[p].hat = J!Direction => xinput
    BY <1>2, <2>3 DEF PadsOK
  <2>5. \A d \in plugged : J!Reads(k, d) => at[d] = at[p]
    BY <1>2, <1>8, <2>2 DEF J!Reads, PadsOK
  <2>6. ~IsEmpty(js[k].index)
    BY <2>2 DEF IsEmpty
  <2>7. QED
    BY <1>5, <1>8, <2>1, <2>3, <2>4, <2>5, <2>6
<1>9. CASE ~js[k].xinput
  <2>1. PICK d : d = js[k].device
    OBVIOUS
  <2>2. \/ (driver = "cocoa" \/ ~js[k].lost \/ d \in plugged) /\ J!Found(k, what, at[d], t)
        \/ driver = "win32" /\ js[k].lost /\ J!BeginClose(k, t)
    BY <1>9, <2>1 DEF J!Poll
  <2>3. CASE (driver = "cocoa" \/ ~js[k].lost \/ d \in plugged) /\ J!Found(k, what, at[d], t)
    <3>1. d \in J!Device /\ at[d] \in PadPosition
      BY <1>2, <1>4, <1>9, <2>1 DEF SlotOK
    <3>2. at[d].hat = J!Direction => xinput
      BY <1>2, <3>1 DEF PadsOK
    <3>3. \A e \in plugged : J!Reads(k, e) => at[e] = at[d]
      BY <1>9, <2>1 DEF J!Reads
    <3>4. driver = "win32" => js[k].device \in plugged
      BY <1>2, <1>9, <2>1, <2>3 DEF SlotOK
    <3>5. QED
      BY <1>5, <1>9, <2>3, <3>1, <3>2, <3>3, <3>4
  <2>4. CASE driver = "win32" /\ js[k].lost /\ J!BeginClose(k, t)
    BY <1>6, <1>9, <2>4
  <2>5. QED
    BY <2>2, <2>3, <2>4
<1>10. QED
  BY <1>7, <1>8, <1>9

--------------------------------------------------------------------------------
(* Loops over the slots, and the calls of the application *)

\* The last call goes on, and no slot changes.
LEMMA GoneOn ==
  ASSUME SlotsTyped, RunOK(stack), UNCHANGED J!system, js' = js, NEW g \in Seq(J!Call),
         CallsOK(g), ClosingOK(g), SamePolls(stack, g),
         StartOK(g)', Win32OK(g)', CocoaOK(g)'
  PROVE  RunOK(g)'
<1>1. PICK u : u = stack
  OBVIOUS
<1>2. /\ PadsOK /\ SlotsOK /\ SlotsApart /\ ReportsOK(u) /\ SamePolls(u, g)
  BY <1>1 DEF RunOK
<1>3. /\ driver' = driver /\ (xinput' <=> xinput) /\ plugged' = plugged /\ index' = index
      /\ at' = at /\ js' = js
  BY DEF J!system
<1>4. PadsOK' /\ SlotsApart'
  BY <1>2, <1>3 DEF PadsOK, SlotsApart, Alike
<1>5. SlotsOK'
  BY <1>2, <1>3 DEF SlotsOK, SlotOK
<1>6. CallsOK(g)'
  BY <1>3 DEF CallsOK, CallOK, Closing, Starting
<1>7. ClosingOK(g)'
  BY <1>3 DEF ClosingOK, Closing, Closes
<1>8. ReportsOK(g)'
  <2> SUFFICES ASSUME NEW l \in J!Slot, NEW d \in plugged', J!Reads(l, d)', ~js'[l].stale
               PROVE  ReportOK(g, l, d)'
    BY DEF ReportsOK
  <2>1. J!Reads(l, d) /\ ~js[l].stale /\ d \in plugged
    BY <1>3 DEF J!Reads
  <2>2. ReportOK(u, l, d)
    BY <1>2, <2>1 DEF ReportsOK
  <2>3. /\ \A n : IsToRead(u, l, n) => IsToRead(g, l, n)
        /\ HaveSeen(u, l, at[d]) => HaveSeen(g, l, at[d])
    BY <1>2 DEF SamePolls
  <2>4. /\ AxisAgrees(l, d) \/ IsToRead(g, l, 0)
        /\ js[l].button = at[d].button \/ IsToRead(g, l, 1)
        /\ js[l].hat = at[d].hat \/ IsToRead(g, l, 2)
        /\ driver = "win32" => HaveSeen(g, l, at[d])
    BY <2>2, <2>3 DEF ReportOK
  <2>5. QED
    BY <1>3, <2>4 DEF ReportOK, IsToRead, HaveSeen, AxisAgrees, J!Same, J!AxisValue
<1>9. QED
  BY <1>4, <1>5, <1>6, <1>7, <1>8 DEF RunOK

\* A call that is none of these is the only one.
LEMMA OnlyCall ==
  ASSUME SlotsTyped, CallsOK(stack), stack # <<>>, NEW f, f = J!Top,
         f.fn \notin {"poll", "close", "app"}
  PROVE  /\ Len(stack) = 1 /\ DOMAIN stack = {1} /\ stack[1] = f /\ f \in J!Call
         /\ J!Below = <<>> /\ CallOK(stack, 1)
<1>1. PICK s : s = J!Below
  OBVIOUS
<1>2. /\ Len(s) + 1 = Len(stack) /\ Len(s) \in Nat /\ DOMAIN stack = 1..Len(stack)
      /\ f = stack[Len(stack)] /\ f \in J!Call /\ Len(stack) \in DOMAIN stack
      /\ s \in Seq(J!Call)
  BY <1>1, BelowCalls
<1>3. CallOK(stack, Len(stack))
  BY <1>2 DEF CallsOK
<1>4. Len(stack) = 1
  <2>1. Len(stack) > 1 => f.fn \in {"poll", "close", "app"}
    BY <1>2, <1>3 DEF CallOK
  <2>2. QED
    BY <1>2, <2>1
<1>5. s = <<>>
  <2>1. Len(s) = 0
    BY <1>2, <1>4
  <2>2. QED
    BY <1>2, <2>1
<1>6. QED
  BY <1>1, <1>2, <1>3, <1>4, <1>5

\* The loop goes on: slot k has been looked at.
LEMMA LoopWork ==
  ASSUME SlotsTyped, NEW u \in Seq(J!Call), NEW g \in Seq(J!Call), u # <<>>, g # <<>>,
         u[1].fn \in {"presence", "pollAll"}, g[1].fn = u[1].fn, u[1].next \in Nat,
         g[1].next = u[1].next + 1, NEW k \in J!Slot, k = u[1].next, NotDue(k)', WorkDone(u)'
  PROVE  WorkDone(g)'
<1>1. StartOK(u)' /\ Win32OK(u)' /\ CocoaOK(u)' /\ Started(u)'
  BY DEF WorkDone
<1>2. ~Starting(u) /\ ~Starting(g) /\ ~Detection(u) /\ ~Detection(g)
  BY DEF Starting, Detection
<1>3. Started(g)'
  BY <1>1, <1>2 DEF Started, Starting
<1>4. StartOK(g)'
  BY <1>2, <1>3 DEF StartOK, Starting
<1>5. CocoaOK(g)'
  BY <1>1, <1>3 DEF CocoaOK, MatchedOK
<1>6. Win32OK(g)'
  <2> SUFFICES ASSUME driver' = "win32"
               PROVE  DueOK(g)' /\ ListedOK(g)' /\ SkippedOK'
    BY DEF Win32OK
  <2>1. DueOK(u)' /\ ListedOK(u)' /\ SkippedOK'
    BY <1>1 DEF Win32OK
  <2>2. \A l \in J!Slot : l # k /\ Presence(u, l) => Presence(g, l)
    <3>1. \A l \in J!Slot : l \in Int
      BY SlotsAre
    <3>2. QED
      BY <3>1 DEF Presence
  <2>3. \A l \in J!Slot : \A d : l # k /\ GoesOn(u, l, d)' => GoesOn(g, l, d)'
    <3>1. \A l \in J!Slot : l # k /\ Presence(u, l)' => Presence(g, l)'
      BY <2>2 DEF Presence
    <3>2. QED
      BY <3>1 DEF GoesOn
  <2>4. DueOK(g)'
    BY <2>1, <2>3 DEF DueOK, NotDue
  <2>5. ListedOK(g)'
    BY <1>1, <1>2, <2>1 DEF ListedOK, Detection
  <2>6. QED
    BY <2>1, <2>4, <2>5
<1>7. QED
  BY <1>3, <1>4, <1>5, <1>6 DEF WorkDone

LEMMA LoopIsSafe ==
  ASSUME SlotsInv, NEW fn \in {"presence", "pollAll"},
         NEW what \in {"presence", "axes", "buttons", "all"}, J!Loop(fn, what)
  PROVE  SlotsInv'
<1>1. PICK u, f, g, s : u = stack /\ f = J!Top /\ g = J!Advance /\ s = J!Below
  OBVIOUS
<1>2. /\ J!Alive /\ stack # <<>> /\ f.fn = fn
      /\ UNCHANGED J!system /\ UNCHANGED <<notices, initialized, crash, skipped, failures>>
      /\ IF f.next = NumSlots THEN stack' = s /\ UNCHANGED js
         ELSE IF js[f.next].connected THEN J!Poll(f.next, what, g)
         ELSE stack' = g /\ UNCHANGED js
  BY <1>1 DEF J!Loop, J!Running
<1>3. SlotsTyped /\ RunOK(stack) /\ NothingElse /\ u \in Seq(J!Call)
  BY <1>1, <1>2, OthersStay DEF SlotsInv, SlotsTyped
<1>4. CallsOK(stack) /\ ClosingOK(stack) /\ StartOK(stack)
  BY <1>3 DEF RunOK
<1>5. /\ Len(u) = 1 /\ DOMAIN u = {1} /\ u[1] = f /\ f \in J!Call /\ s = <<>>
      /\ CallOK(stack, 1)
  BY <1>1, <1>2, <1>3, <1>4, OnlyCall
<1>6. f.next \in Nat /\ f.next <= NumSlots
  BY <1>1, <1>2, <1>5, CallHas DEF CallOK
<1>7. ~Starting(u) /\ Started(u) /\ initialized
  BY <1>1, <1>2, <1>4, <1>5 DEF Starting, StartOK, Started
<1>8. js' = js => js' \in [J!Slot -> JoystickType]
  BY <1>3 DEF SlotsTyped
<1>9. skipped' \subseteq plugged /\ failures' \in 0..MaxFailures /\ initialized' \in BOOLEAN
  BY <1>2, <1>3 DEF SlotsTyped
<1>10. CASE f.next = NumSlots
  <2>1. SameWork(u, s)
    <3>1. \A k \in J!Slot : ~Presence(u, k)
      BY <1>5, <1>10, SlotsAre DEF Presence
    <3>2. QED
      BY <1>2, <1>5, <1>7, <3>1 DEF SameWork, Starting, Detection, Presence
  <2>2. SameWork(stack, s)
    BY <1>1, <2>1 DEF SameWork
  <2>3. RunOK(s)' /\ s \in Seq(J!Call)
    BY <1>1, <1>2, <1>3, <1>10, <2>2, PoppedOK
  <2>4. QED
    BY <1>2, <1>3, <1>8, <1>9, <1>10, <2>3, StepIsSafe
<1>11. CASE f.next # NumSlots
  <2>1. PICK k : k = f.next
    OBVIOUS
  <2>2. k \in J!Slot /\ f.next < NumSlots
    BY <1>6, <1>11, <2>1, SlotsAre
  <2>3. /\ g \in Seq(J!Call) /\ g # <<>> /\ DOMAIN g = DOMAIN stack
        /\ g[Len(stack)].fn = f.fn /\ g[Len(stack)].next = f.next + 1
        /\ (Starting(g) <=> Starting(stack)) /\ CallsOK(g) /\ ClosingOK(g)
    <3>1. f.fn # "close" /\ f.fn \notin {"init", "detect"}
      BY <1>2
    <3>2. QED
      BY <1>1, <1>2, <1>3, <1>4, <2>2, <3>1, TopAdvanced
  <2>4. DOMAIN g = {1} /\ g[1].fn = f.fn /\ g[1].next = f.next + 1 /\ ~Starting(g)
    BY <1>1, <1>5, <1>7, <2>3
  <2>5. SamePolls(u, g) /\ NoPolls(g)
    BY <1>2, <1>5, <2>4 DEF SamePolls, NoPolls, IsToRead, HaveSeen
  <2>6. NotDue(k)' /\ WorkDone(u)' => WorkDone(g)'
    <3>1. u # <<>> /\ u[1].fn \in {"presence", "pollAll"}
      BY <1>1, <1>2, <1>5
    <3>2. QED
      BY <1>3, <1>5, <1>6, <2>1, <2>2, <2>3, <2>4, <3>1, LoopWork
  <2>7. CASE js[k].connected
    <3>1. J!Poll(k, what, g)
      BY <1>2, <1>11, <2>1, <2>7
    <3>2. QED
      BY <1>1, <1>2, <1>7, <2>2, <2>3, <2>4, <2>5, <2>6, <2>7, <3>1, PollIsSafe
  <2>8. CASE ~js[k].connected
    <3>1. stack' = g /\ js' = js
      BY <1>2, <1>11, <2>1, <2>8
    <3>2. RunOK(u)'
      BY <1>1, <1>3, <3>1, StillRunOK
    <3>3. WorkDone(u)'
      BY <1>2, <1>7, <3>2 DEF RunOK, WorkDone, Started
    <3>4. NotDue(k)'
      BY <2>8, <3>1 DEF NotDue
    <3>5. StartOK(g)' /\ Win32OK(g)' /\ CocoaOK(g)'
      BY <2>6, <3>3, <3>4 DEF WorkDone
    <3>6. SamePolls(stack, g)
      BY <1>1, <2>5
    <3>7. RunOK(g)'
      BY <1>2, <1>3, <2>3, <3>1, <3>5, <3>6, GoneOn
    <3>8. QED
      BY <1>2, <1>3, <1>8, <1>9, <2>3, <3>1, <3>7, StepIsSafe
  <2>9. QED
    BY <2>7, <2>8
<1>12. QED
  BY <1>10, <1>11

LEMMA PollJoystickIsSafe ==
  ASSUME SlotsInv, NEW k \in J!Slot, NEW what \in {"presence", "axes", "buttons", "all"},
         J!PollJoystick(k, what)
  PROVE  SlotsInv'
<1>1. PICK u : u = stack
  OBVIOUS
<1>2. /\ J!AppRuns /\ J!Alive /\ initialized /\ js[k].connected /\ J!Poll(k, what, u)
      /\ UNCHANGED J!system /\ UNCHANGED <<notices, initialized, crash, skipped, failures>>
  BY <1>1 DEF J!PollJoystick, J!AppRuns, J!Idle, J!Running
<1>3. SlotsTyped /\ CallsOK(u) /\ ClosingOK(u) /\ StartOK(u) /\ u \in Seq(J!Call)
  BY <1>1, <1>2 DEF SlotsInv, RunOK, SlotsTyped
<1>4. ~Starting(u) /\ Started(u)
  BY <1>2, <1>3 DEF StartOK, Started
<1>5. SamePolls(u, u)
  BY DEF SamePolls
<1>6. J!Nested = 0 => NoPolls(u)
  <2> SUFFICES ASSUME J!Nested = 0
               PROVE  NoPolls(u)
    OBVIOUS
  <2>1. PICK A : A = {i \in 1..Len(stack) : stack[i].fn = "app"}
    OBVIOUS
  <2>2. IsFiniteSet(A)
    <3>1. Len(stack) \in Nat
      BY <1>1, <1>3
    <3>2. IsFiniteSet(1..Len(stack))
      BY <3>1, FS_Interval
    <3>3. QED
      BY <2>1, <3>2, FS_Subset
  <2>3. Cardinality(A) = 0
    BY <2>1 DEF J!Nested, J!Cardinality, Cardinality
  <2>4. A = {}
    BY <2>2, <2>3, FS_EmptySet
  <2>5. ~J!Running("app")
    <3> SUFFICES ASSUME J!Running("app")
                 PROVE  FALSE
      OBVIOUS
    <3>1. stack # <<>> /\ stack \in Seq(J!Call) /\ stack[Len(stack)].fn = "app"
      BY <1>1, <1>3 DEF J!Running, J!Top
    <3>2. Len(stack) \in 1..Len(stack)
      BY <3>1
    <3>3. QED
      BY <2>1, <2>4, <3>1, <3>2
  <2>6. u = <<>>
    BY <1>1, <1>2, <2>5 DEF J!AppRuns, J!Idle
  <2>7. QED
    BY <2>6 DEF NoPolls
<1>7. NotDue(k)' /\ WorkDone(u)' => WorkDone(u)'
  OBVIOUS
<1>8. QED
  BY <1>1, <1>2, <1>3, <1>4, <1>5, <1>6, <1>7, PollIsSafe

LEMMA PollAllIsSafe ==
  ASSUME SlotsInv, J!PollAllJoysticks
  PROVE  SlotsInv'
<1>1. PICK f : f = J!CallOf("pollAll", 0)
  OBVIOUS
<1>2. PICK u, t : u = stack /\ t = <<f>>
  OBVIOUS
<1>3. /\ J!Alive /\ u = <<>> /\ initialized /\ stack' = t
      /\ UNCHANGED J!system /\ UNCHANGED <<notices, initialized, js, crash, skipped, failures>>
  BY <1>1, <1>2 DEF J!PollAllJoysticks, J!Idle, J!OnlyStack
<1>4. SlotsTyped /\ RunOK(stack) /\ NothingElse
  BY <1>3, OthersStay DEF SlotsInv
<1>5. f \in J!Call /\ f.fn = "pollAll" /\ ~f.xinput /\ f.seen.hat = {} /\ f.next = 0
  BY <1>1, SlotsAre, PositionsAre, CallIs DEF CallName
<1>6. t \in Seq(J!Call) /\ DOMAIN t = {1} /\ t[1] = f /\ t # <<>>
  BY <1>2, <1>5
<1>7. SameWork(u, t)
  BY <1>3, <1>5, <1>6, FirstIsSame DEF NoWork
<1>8. RunOK(u)'
  BY <1>2, <1>3, <1>4, StillRunOK
<1>9. StartOK(t)' /\ Win32OK(t)' /\ CocoaOK(t)'
  <2>1. Started(u)'
    BY <1>3 DEF Started
  <2>2. QED
    BY <1>4, <1>7, <1>8, <2>1, WorkKept DEF RunOK
<1>10. CallsOK(t)
  <2>1. f.seen.hat # J!Direction
    BY <1>5, PositionsAre
  <2>2. 0 <= NumSlots
    BY SlotsAre
  <2>3. CallOK(t, 1)
    BY <1>5, <1>6, <2>1, <2>2 DEF CallOK, Starting
  <2>4. QED
    BY <1>6, <2>3 DEF CallsOK
<1>11. ClosingOK(t)
  <2>1. \A k \in J!Slot : ~Closing(k)
    BY <1>2, <1>3, <1>4 DEF RunOK, ClosingOK, Closes
  <2>2. QED
    BY <1>6, <2>1 DEF ClosingOK
<1>12. SamePolls(stack, t)
  BY <1>2, <1>3, <1>5, <1>6 DEF SamePolls, IsToRead, HaveSeen
<1>13. RunOK(t)'
  BY <1>3, <1>4, <1>6, <1>9, <1>10, <1>11, <1>12, GoneOn
<1>14. js' \in [J!Slot -> JoystickType] /\ skipped' \subseteq plugged
       /\ failures' \in 0..MaxFailures /\ initialized' \in BOOLEAN
  BY <1>3, <1>4 DEF SlotsTyped
<1>15. QED
  BY <1>3, <1>4, <1>6, <1>13, <1>14, StepIsSafe

LEMMA EndCloseIsSafe ==
  ASSUME SlotsInv, J!EndClose
  PROVE  SlotsInv'
<1>1. PICK u, f, s : u = stack /\ f = J!Top /\ s = J!Below
  OBVIOUS
<1>2. PICK k : k = f.slot
  OBVIOUS
<1>3. /\ J!Alive /\ stack # <<>> /\ f.fn = "close" /\ stack' = s
      /\ js' = [js EXCEPT ![k] = J!Free]
      /\ UNCHANGED J!system /\ UNCHANGED <<notices, initialized, crash, skipped, failures>>
  BY <1>1, <1>2 DEF J!EndClose, J!Running
<1>4. SlotsTyped /\ RunOK(u) /\ NothingElse /\ u \in Seq(J!Call)
  BY <1>1, <1>3, OthersStay DEF SlotsInv, SlotsTyped
<1>5. /\ s \in Seq(J!Call) /\ Len(s) + 1 = Len(u) /\ Len(s) \in Nat
      /\ DOMAIN s = 1..Len(s) /\ DOMAIN u = 1..Len(u)
      /\ \A i \in DOMAIN s : s[i] = u[i] /\ i # Len(u) /\ i \in DOMAIN u
      /\ \A i \in DOMAIN u : i = Len(u) \/ i \in DOMAIN s
      /\ f = u[Len(u)] /\ f \in J!Call /\ Len(u) \in DOMAIN u
  BY <1>1, <1>3, <1>4, BelowCalls
<1>6. k \in J!Slot
  BY <1>2, <1>5, CallHas
<1>7. /\ PadsOK /\ SlotsOK /\ SlotsApart /\ CallsOK(u) /\ ClosingOK(u) /\ StartOK(u)
      /\ Win32OK(u) /\ CocoaOK(u) /\ ReportsOK(u)
  BY <1>4 DEF RunOK
<1>8. /\ js \in [J!Slot -> JoystickType] /\ js' \in [J!Slot -> JoystickType]
      /\ js'[k] = J!Free /\ \A l \in J!Slot : l # k => js'[l] = js[l]
  BY <1>3, <1>4, <1>6, FreeIs DEF SlotsTyped
<1>9. Closing(k)
  BY <1>2, <1>3, <1>5, <1>7 DEF CallsOK, CallOK
<1>10. HoldersSame
  BY <1>8, <1>9, FreeIs DEF HoldersSame, Closing
<1>11. PadsOK' /\ SlotsApart' /\ Win32OK(u)' /\ CocoaOK(u)' /\ Started(u)'
  <2>1. Started(u)
    BY <1>1, <1>3, <1>7 DEF StartOK
  <2>2. QED
    BY <1>4, <1>7, <1>10, <2>1, HeldKept
<1>12. StartOK(u)'
  BY <1>3, <1>7, <1>11 DEF StartOK, Starting
<1>13. SameWork(u, s)
  <2>1. SameWork(stack, s)
    BY <1>1, <1>3, <1>4, PoppedWork
  <2>2. QED
    BY <1>1, <2>1 DEF SameWork
<1>14. StartOK(s)' /\ Win32OK(s)' /\ CocoaOK(s)'
  BY <1>4, <1>11, <1>12, <1>13, WorkKept
<1>15. SlotsOK'
  <2> SUFFICES ASSUME NEW l \in J!Slot
               PROVE  SlotOK(l)'
    BY DEF SlotsOK
  <2>1. SlotOK(l)
    BY <1>7 DEF SlotsOK
  <2>2. CASE l = k
    BY <1>8, <2>2, FreeIs DEF SlotOK
  <2>3. CASE l # k
    BY <1>4, <1>8, <2>1, <2>3 DEF SlotOK, NothingElse
  <2>4. QED
    BY <2>2, <2>3
<1>16. ~Closing(k)' /\ \A l \in J!Slot : l # k => (Closing(l)' <=> Closing(l))
  BY <1>8, FreeIs DEF Closing
<1>17. \A i \in DOMAIN s : ~Closes(u, i, k)
  <2>1. Closes(u, Len(u), k)
    BY <1>2, <1>3, <1>5 DEF Closes
  <2>2. QED
    BY <1>5, <1>6, <1>7, <2>1 DEF ClosingOK
<1>18. CallsOK(s)'
  <2> SUFFICES ASSUME NEW i \in DOMAIN s
               PROVE  CallOK(s, i)'
    BY DEF CallsOK
  <2>1. CallOK(u, i) /\ s[i] = u[i]
    BY <1>5, <1>7 DEF CallsOK
  <2>2. s[i].fn = "close" => Closing(s[i].slot)'
    <3>1. s[i].slot \in J!Slot
      BY <1>5, StackHas, CallHas
    <3>2. QED
      BY <1>16, <1>17, <2>1, <3>1 DEF CallOK, Closes
  <2>3. Starting(s) <=> Starting(u)
    BY <1>13 DEF SameWork
  <2>4. QED
    BY <1>4, <2>1, <2>2, <2>3 DEF CallOK, Starting, NothingElse
<1>19. ClosingOK(s)'
  <2>1. \A l \in J!Slot, i \in DOMAIN s : Closes(s, i, l) <=> Closes(u, i, l)
    BY <1>5 DEF Closes
  <2>2. \A l \in J!Slot : l # k => ~Closes(u, Len(u), l)
    BY <1>2, <1>5 DEF Closes
  <2>3. \A l \in J!Slot : Closing(l)' => \E i \in DOMAIN s : Closes(s, i, l)
    BY <1>5, <1>7, <1>16, <2>1, <2>2 DEF ClosingOK
  <2>4. \A l \in J!Slot : \A i, j \in DOMAIN s : Closes(s, i, l) /\ Closes(s, j, l) => i = j
    BY <1>5, <1>7, <2>1 DEF ClosingOK
  <2>5. QED
    BY <2>3, <2>4 DEF ClosingOK, Closes
<1>20. ReportsOK(s)'
  <2> SUFFICES ASSUME NEW l \in J!Slot, NEW d \in plugged', J!Reads(l, d)', ~js'[l].stale
               PROVE  ReportOK(s, l, d)'
    BY DEF ReportsOK
  <2>1. l # k
    BY <1>8, FreeIs DEF J!Reads
  <2>2. J!Reads(l, d) /\ ~js[l].stale /\ d \in plugged /\ at' = at
    BY <1>4, <1>8, <2>1 DEF J!Reads, NothingElse
  <2>3. ReportOK(u, l, d)
    BY <1>7, <2>2 DEF ReportsOK
  <2>4. \A i \in DOMAIN u : u[i].fn = "poll" => i \in DOMAIN s
    BY <1>3, <1>5
  <2>5. \A n : IsToRead(u, l, n) => IsToRead(s, l, n)
    BY <1>5, <2>4 DEF IsToRead
  <2>6. HaveSeen(u, l, at[d]) => HaveSeen(s, l, at[d])
    BY <1>5 DEF HaveSeen
  <2>7. /\ AxisAgrees(l, d)' \/ IsToRead(s, l, 0)
        /\ js'[l].button = at'[d].button \/ IsToRead(s, l, 1)
        /\ js'[l].hat = at'[d].hat \/ IsToRead(s, l, 2)
        /\ driver' = "win32" => HaveSeen(s, l, at'[d])
    BY <1>4, <1>8, <2>1, <2>2, <2>3, <2>5, <2>6 DEF ReportOK, NothingElse, AxisAgrees, J!Same, J!AxisValue
  <2>8. QED
    BY <2>7 DEF ReportOK, IsToRead, HaveSeen
<1>21. RunOK(s)'
  BY <1>11, <1>14, <1>15, <1>18, <1>19, <1>20 DEF RunOK
<1>22. skipped' \subseteq plugged /\ failures' \in 0..MaxFailures /\ initialized' \in BOOLEAN
  BY <1>3, <1>4 DEF SlotsTyped
<1>23. QED
  BY <1>3, <1>4, <1>5, <1>8, <1>21, <1>22, StepIsSafe

--------------------------------------------------------------------------------
(* Giving a device a slot *)

LEMMA FirstFreeIs ==
  ASSUME J!HasSlot
  PROVE  J!FirstFree \in J!Slot /\ ~js[J!FirstFree].allocated
<1> DEFINE T == {k \in J!Slot : ~js[k].allocated}
           R == {ss \in Nat \X Nat : ss[1] < ss[2]}
<1>1. IsWellFoundedOn(R, Nat)
  BY NatLessThanWellFounded DEF OpToRel
<1>2. T \subseteq Nat /\ T # {}
  BY SlotsAre DEF J!HasSlot
<1> HIDE DEF R
<1>3. \E x \in T : \A y \in T : <<y, x>> \notin R
  BY <1>1, <1>2, WFMin
<1>4. PICK x \in T : \A y \in T : <<y, x>> \notin R
  BY <1>3
<1>5. \A y \in J!Slot : y < x => js[y].allocated
  BY <1>2, <1>4, SlotsAre DEF R
<1>6. \E s \in J!Slot : ~js[s].allocated /\ \A t \in J!Slot : t < s => js[t].allocated
  BY <1>4, <1>5
<1>7. QED
  BY <1>6 DEF J!FirstFree

LEMMA ListIs ==
  ASSUME SlotsTyped, J!HasSlot, NEW j \in JoystickType, NEW t, J!List(j, t)
  PROVE  /\ J!Tell(TRUE, t) /\ js' \in [J!Slot -> JoystickType]
         /\ \E k \in J!Slot : /\ ~js[k].allocated /\ js'[k] = j
                              /\ \A l \in J!Slot : l # k => js'[l] = js[l]
<1>1. PICK k : k = J!FirstFree
  OBVIOUS
<1>2. k \in J!Slot /\ ~js[k].allocated
  BY <1>1, FirstFreeIs
<1>3. js' = [js EXCEPT ![k] = j] /\ J!Tell(TRUE, t)
  BY <1>1 DEF J!List
<1>4. js \in [J!Slot -> JoystickType]
  BY DEF SlotsTyped
<1>5. QED
  BY <1>2, <1>3, <1>4

\* A device that has just got a slot: of XInput, of DirectInput, of macOS.
LEMMA NewPad ==
  ASSUME NEW b \in BOOLEAN, b = TRUE, NEW i \in J!Index, NEW j,
         j = [J!Free EXCEPT !.allocated = b, !.connected = b, !.xinput = b, !.index = i]
  PROVE  /\ j \in JoystickType /\ j.allocated /\ j.connected
         /\ j.xinput /\ j.index = i /\ j.device = NoDevice
         /\ j.axis = <<1, 2>> /\ j.stale
<1>1. /\ J!Free \in JoystickType /\ J!Free.axis = <<1, 2>> /\ J!Free.stale = TRUE
      /\ J!Free.device = NoDevice /\ J!Free.xinput = FALSE /\ J!Free.lost = FALSE
  BY FreeIs
<1>2. j \in JoystickType
  BY <1>1 DEF JoystickType
<1>3. j.axis = J!Free.axis /\ j.index = i /\ j.device = J!Free.device
  BY <1>1 DEF JoystickType
<1>4. j.allocated = b /\ j.connected = b
  BY <1>1 DEF JoystickType
<1>5. j.xinput = b
  BY <1>1 DEF JoystickType
<1>6. j.stale = J!Free.stale
  BY <1>1 DEF JoystickType
<1>7. QED
  BY <1>1, <1>2, <1>3, <1>4, <1>5, <1>6

LEMMA NewStick ==
  ASSUME NEW b \in BOOLEAN, b = TRUE, NEW d \in J!Device, NEW j,
         j = [J!Free EXCEPT !.allocated = b, !.connected = b, !.device = d]
  PROVE  /\ j \in JoystickType /\ j.allocated /\ j.connected
         /\ ~j.xinput /\ j.device = d /\ ~j.lost
         /\ j.axis = <<1, 2>> /\ j.stale
<1>1. /\ J!Free \in JoystickType /\ J!Free.axis = <<1, 2>> /\ J!Free.stale = TRUE
      /\ J!Free.device = NoDevice /\ J!Free.xinput = FALSE /\ J!Free.lost = FALSE
  BY FreeIs
<1>2. j \in JoystickType
  BY <1>1 DEF JoystickType
<1>3. j.axis = J!Free.axis /\ j.device = d
  BY <1>1 DEF JoystickType
<1>4. j.allocated = b /\ j.connected = b
  BY <1>1 DEF JoystickType
<1>5. j.xinput = J!Free.xinput /\ j.lost = J!Free.lost
  BY <1>1 DEF JoystickType
<1>6. j.stale = J!Free.stale
  BY <1>1 DEF JoystickType
<1>7. QED
  BY <1>1, <1>2, <1>3, <1>4, <1>5, <1>6

MatchedAs(d, gone, low, high) ==
    [J!Free EXCEPT !.allocated = TRUE, !.connected = TRUE, !.device = d, !.lost = gone,
                   !.low = low, !.high = high]
LEMMA NewMatched ==
  ASSUME NEW d \in J!Device, NEW gone \in BOOLEAN, NEW low \in 0..2, NEW high \in 0..2,
         NEW j, j = MatchedAs(d, gone, low, high)
  PROVE  /\ j \in JoystickType /\ j.allocated /\ j.connected
         /\ ~j.xinput /\ j.device = d /\ j.lost = gone
         /\ j.axis = <<1, 2>> /\ j.stale
<1>1. /\ J!Free \in JoystickType /\ J!Free.axis = <<1, 2>> /\ J!Free.stale = TRUE
      /\ J!Free.device = NoDevice /\ J!Free.xinput = FALSE /\ J!Free.lost = FALSE
  BY FreeIs
<1>2. PICK b \in BOOLEAN : b = TRUE
  OBVIOUS
<1>3. j = [J!Free EXCEPT !.allocated = b, !.connected = b, !.device = d, !.lost = gone,
                         !.low = low, !.high = high]
  BY <1>2 DEF MatchedAs
<1>4. j \in JoystickType
  BY <1>1, <1>3 DEF JoystickType
<1>5. j.axis = J!Free.axis /\ j.device = d
  BY <1>1, <1>3 DEF JoystickType
<1>6. j.allocated = b /\ j.connected = b
  BY <1>1, <1>3 DEF JoystickType
<1>7. j.xinput = J!Free.xinput /\ j.lost = gone
  BY <1>1, <1>3 DEF JoystickType
<1>8. j.stale = J!Free.stale
  BY <1>1, <1>3 DEF JoystickType
<1>9. QED
  BY <1>1, <1>2, <1>4, <1>5, <1>6, <1>7, <1>8

\* No slot is of the device or index of j yet, which slot k gets.
NewTo(k, j) ==
    \A l \in J!Slot : l # k /\ js[l].connected =>
      /\ js[l].xinput /\ j.xinput => js[l].index # j.index
      /\ ~js[l].xinput /\ ~j.xinput => js[l].device # j.device

\* The calls after a device got a slot that no other slot is of.
LEMMA NewlyListed ==
  ASSUME SlotsTyped, RunOK(stack), UNCHANGED J!system,
         NEW k \in J!Slot, ~js[k].allocated, NEW j, j = js'[k], j.allocated, j.connected, j.stale,
         js' \in [J!Slot -> JoystickType], \A l \in J!Slot : l # k => js'[l] = js[l],
         SlotOK(k)',
         NewTo(k, j),
         NEW g \in Seq(J!Call), CallsOK(g), ClosingOK(g), SamePolls(stack, g),
         StartOK(g)', Win32OK(g)', CocoaOK(g)'
  PROVE  RunOK(g)'
<1>1. PICK u : u = stack
  OBVIOUS
<1>2. /\ PadsOK /\ SlotsOK /\ SlotsApart /\ ReportsOK(u) /\ SamePolls(u, g)
  BY <1>1 DEF RunOK
<1>3. /\ driver' = driver /\ (xinput' <=> xinput) /\ plugged' = plugged /\ index' = index
      /\ at' = at
  BY DEF J!system
<1>4. PadsOK'
  BY <1>2, <1>3 DEF PadsOK
<1>5. SlotsOK'
  <2> SUFFICES ASSUME NEW l \in J!Slot, l # k
               PROVE  SlotOK(l)'
    BY DEF SlotsOK
  <2>1. SlotOK(l) /\ js'[l] = js[l]
    BY <1>2 DEF SlotsOK
  <2>2. QED
    BY <1>3, <2>1 DEF SlotOK
<1>6. SlotsApart'
  <2> SUFFICES ASSUME NEW l \in J!Slot, NEW m \in J!Slot, Alike(l, m)'
               PROVE  l = m
    BY DEF SlotsApart
  <2>1. CASE l # k /\ m # k
    <3>1. Alike(l, m)
      BY <2>1 DEF Alike
    <3>2. QED
      BY <1>2, <3>1 DEF SlotsApart
  <2>2. CASE l = k /\ m # k
    BY <2>2 DEF Alike, NewTo
  <2>3. CASE l # k /\ m = k
    BY <2>3 DEF Alike, NewTo
  <2>4. QED
    BY <2>1, <2>2, <2>3
<1>7. \A l \in J!Slot : Closing(l)' <=> Closing(l)
  BY DEF Closing
<1>8. CallsOK(g)'
  <2> SUFFICES ASSUME NEW i \in DOMAIN g
               PROVE  CallOK(g, i)'
    BY DEF CallsOK
  <2>1. CallOK(g, i) /\ g[i].slot \in J!Slot
    BY StackHas, CallHas DEF CallsOK
  <2>2. g[i].fn = "close" => Closing(g[i].slot)'
    BY <1>7, <2>1 DEF CallOK
  <2>3. QED
    BY <1>3, <2>1, <2>2 DEF CallOK, Starting
<1>9. ClosingOK(g)'
  BY <1>7 DEF ClosingOK, Closes
<1>10. ReportsOK(g)'
  <2> SUFFICES ASSUME NEW l \in J!Slot, NEW d \in plugged', J!Reads(l, d)', ~js'[l].stale
               PROVE  ReportOK(g, l, d)'
    BY DEF ReportsOK
  <2>1. l # k /\ js'[l] = js[l]
    OBVIOUS
  <2>2. J!Reads(l, d) /\ ~js[l].stale /\ d \in plugged
    BY <1>3, <2>1 DEF J!Reads
  <2>3. ReportOK(u, l, d)
    BY <1>2, <2>2 DEF ReportsOK
  <2>4. /\ \A n : IsToRead(u, l, n) => IsToRead(g, l, n)
        /\ HaveSeen(u, l, at[d]) => HaveSeen(g, l, at[d])
    BY <1>2 DEF SamePolls
  <2>5. /\ AxisAgrees(l, d) \/ IsToRead(g, l, 0)
        /\ js[l].button = at[d].button \/ IsToRead(g, l, 1)
        /\ js[l].hat = at[d].hat \/ IsToRead(g, l, 2)
        /\ driver = "win32" => HaveSeen(g, l, at[d])
    BY <2>3, <2>4 DEF ReportOK
  <2>6. QED
    BY <1>3, <2>1, <2>5 DEF ReportOK, IsToRead, HaveSeen, AxisAgrees, J!Same, J!AxisValue
<1>11. QED
  BY <1>4, <1>5, <1>6, <1>8, <1>9, <1>10 DEF RunOK

--------------------------------------------------------------------------------
(* Connections on Win32 *)

LEMMA DetectTop ==
  ASSUME SlotsInv, J!Detecting, NEW u, u = stack, NEW f, f = J!Top
  PROVE  /\ SlotsTyped /\ RunOK(stack) /\ J!Alive /\ stack # <<>> /\ u \in Seq(J!Call)
         /\ driver = "win32" /\ f.fn \in {"init", "detect"} /\ f.next \in Nat
         /\ f.next <= NumIndices /\ f.tried \subseteq J!Device
         /\ Len(u) = 1 /\ DOMAIN u = {1} /\ u[1] = f /\ f \in J!Call /\ J!Below = <<>>
         /\ CallOK(u, 1) /\ Detection(u) /\ Started(u) /\ NoPolls(u)
         /\ \A k \in J!Slot : ~Presence(u, k) /\ ~Closing(k)
         /\ DueOK(u) /\ ListedOK(u) /\ SkippedOK /\ StartOK(u)
<1>1. J!Alive /\ stack # <<>> /\ f.fn \in {"init", "detect"} /\ (f.fn = "init" => driver = "win32")
  BY DEF J!Detecting, J!Running
<1>2. SlotsTyped /\ RunOK(stack)
  BY <1>1 DEF SlotsInv
<1>3. CallsOK(u) /\ ClosingOK(u) /\ StartOK(u) /\ Win32OK(u) /\ u \in Seq(J!Call)
  BY <1>2 DEF RunOK, SlotsTyped
<1>4. /\ Len(u) = 1 /\ DOMAIN u = {1} /\ u[1] = f /\ f \in J!Call /\ J!Below = <<>>
      /\ CallOK(u, 1)
  BY <1>1, <1>2, <1>3, OnlyCall
<1>5. driver = "win32" /\ f.next \in Nat /\ f.next <= NumIndices /\ f.tried \subseteq J!Device
  BY <1>1, <1>4, CallHas DEF CallOK
<1>6. Detection(u) /\ NoPolls(u) /\ \A k \in J!Slot : ~Presence(u, k)
  BY <1>1, <1>4 DEF Detection, NoPolls, Presence
<1>7. \A k \in J!Slot : ~Closing(k)
  BY <1>1, <1>3, <1>4 DEF ClosingOK, Closes
<1>8. Started(u)
  BY <1>1, <1>3 DEF StartOK
<1>9. DueOK(u) /\ ListedOK(u) /\ SkippedOK
  BY <1>3, <1>5 DEF Win32OK
<1>10. QED
  BY <1>1, <1>2, <1>3, <1>4, <1>5, <1>6, <1>7, <1>8, <1>9

\* u is the detection, g what becomes of it.
GoesOnAs(u, g) ==
    /\ g \in Seq(J!Call) /\ DOMAIN g = {1} /\ g # <<>> /\ g[1].fn = u[1].fn
    /\ CallsOK(g) /\ ClosingOK(g) /\ SamePolls(u, g)

\* Devices are looked at.
TriedAs(f, X) == Append(J!Below, [f EXCEPT !.tried = X])

LEMMA DetectTried ==
  ASSUME SlotsInv, J!Detecting, NEW u, u = stack, NEW f, f = J!Top,
         NEW X \in SUBSET J!Device, NEW g, g = TriedAs(f, X)
  PROVE  GoesOnAs(u, g) /\ g[1].next = f.next /\ g[1].tried = X
<1>1. /\ f.fn \in {"init", "detect"} /\ DOMAIN u = {1} /\ u[1] = f /\ f \in J!Call
      /\ J!Below = <<>> /\ CallOK(u, 1) /\ NoPolls(u) /\ \A k \in J!Slot : ~Closing(k)
  BY DetectTop
<1>2. PICK h : h = [f EXCEPT !.tried = X]
  OBVIOUS
<1>3. h \in J!Call
  BY <1>1, <1>2 DEF J!Call
<1>4. h.fn = f.fn /\ h.slot = f.slot /\ h.next = f.next /\ h.tried = X
  BY <1>1, <1>2 DEF J!Call
<1>5. h.seen = f.seen
  BY <1>1, <1>2 DEF J!Call
<1>6. h.xinput = f.xinput
  BY <1>1, <1>2 DEF J!Call
<1>7. g \in Seq(J!Call) /\ DOMAIN g = {1} /\ g # <<>> /\ g[1] = h
  <2>1. PICK s : s = J!Below
    OBVIOUS
  <2>2. g = Append(s, h)
    BY <1>2, <2>1 DEF TriedAs
  <2>3. s \in Seq(J!Call) /\ Len(s) = 0
    BY <1>1, <2>1
  <2>4. /\ g \in Seq(J!Call) /\ DOMAIN g = 1..(Len(s) + 1) /\ g # <<>>
        /\ g[Len(s) + 1] = h
    BY <1>3, <2>2, <2>3, PushedCall
  <2>5. QED
    BY <2>3, <2>4
<1>8. CallsOK(g)
  <2>1. CallOK(g, 1)
    BY <1>1, <1>4, <1>5, <1>6, <1>7 DEF CallOK
  <2>2. QED
    BY <1>7, <2>1 DEF CallsOK
<1>9. ClosingOK(g)
  BY <1>1, <1>7 DEF ClosingOK
<1>10. SamePolls(u, g)
  BY <1>1, <1>4, <1>7 DEF SamePolls, IsToRead, HaveSeen
<1>11. QED
  BY <1>1, <1>4, <1>7, <1>8, <1>9, <1>10 DEF GoesOnAs

\* An index has been looked at.
LEMMA DetectAdvanced ==
  ASSUME SlotsInv, J!Detecting, NEW u, u = stack, NEW f, f = J!Top, f.next < NumIndices,
         NEW g, g = J!Advance
  PROVE  GoesOnAs(u, g) /\ g[1].next = f.next + 1 /\ g[1].tried = f.tried
<1>1. /\ SlotsTyped /\ RunOK(stack) /\ stack # <<>> /\ f.fn \in {"init", "detect"}
      /\ Len(u) = 1 /\ DOMAIN u = {1} /\ u[1] = f /\ NoPolls(u)
  BY DetectTop
<1>2. /\ g \in Seq(J!Call) /\ g # <<>> /\ DOMAIN g = DOMAIN stack
      /\ g[Len(stack)].fn = f.fn /\ g[Len(stack)].next = f.next + 1
      /\ g[Len(stack)].tried = f.tried /\ CallsOK(g) /\ ClosingOK(g)
  <2>1. f.fn # "close" /\ f.fn \notin {"presence", "pollAll"}
    BY <1>1
  <2>2. CallsOK(stack) /\ ClosingOK(stack)
    BY <1>1 DEF RunOK
  <2>3. QED
    BY <1>1, <2>1, <2>2, TopAdvanced
<1>3. DOMAIN g = {1} /\ g[1].fn = f.fn /\ g[1].next = f.next + 1 /\ g[1].tried = f.tried
  BY <1>1, <1>2
<1>4. SamePolls(u, g)
  BY <1>1, <1>3 DEF SamePolls, IsToRead, HaveSeen, NoPolls
<1>5. QED
  BY <1>1, <1>2, <1>3, <1>4 DEF GoesOnAs

\* No slot is freed.
SlotsStay ==
    /\ \A d : HasSlot(d) => HasSlot(d)'
    /\ \A i : IsListed(i) => IsListed(i)'

\* What has been looked at has a slot, or was skipped.
LEMMA DetectedOK ==
  ASSUME SlotsInv, J!Detecting, NEW u, u = stack, NEW f, f = J!Top,
         UNCHANGED J!system, UNCHANGED <<notices, initialized>>,
         NEW g, GoesOnAs(u, g), SlotsStay, SkippedOK',
         \A l \in J!Slot : js'[l] = js[l] \/ NotDue(l)',
         \A d \in (plugged \intersect Stick) \ skipped' :
           d \in skipped \/ (d \in g[1].tried /\ d \notin f.tried) => HasSlot(d)',
         \A p \in (plugged \intersect Pad) \ skipped' :
           xinput /\ (p \in skipped \/ (f.next <= index[p] /\ ~(g[1].next <= index[p]))) =>
             IsListed(index[p])'
  PROVE  StartOK(g)' /\ Win32OK(g)' /\ CocoaOK(g)'
<1>1. /\ SlotsTyped /\ driver = "win32" /\ u[1] = f /\ u # <<>> /\ Detection(u) /\ Started(u)
      /\ f.fn \in {"init", "detect"} /\ \A k \in J!Slot : ~Presence(u, k)
      /\ DueOK(u) /\ ListedOK(u) /\ StartOK(u)
  BY DetectTop
<1>2. /\ driver' = driver /\ (xinput' <=> xinput) /\ plugged' = plugged /\ index' = index
      /\ notices' = notices /\ (initialized' <=> initialized)
      /\ g # <<>> /\ g[1].fn = f.fn
  BY <1>1 DEF J!system, GoesOnAs
<1>3. Started(g)' /\ Detection(g) /\ (Starting(g) <=> Starting(u))
  BY <1>1, <1>2 DEF Started, Starting, Detection
<1>4. StartOK(g)'
  BY <1>1, <1>2, <1>3 DEF StartOK, Starting
<1>5. DueOK(g)'
  <2> SUFFICES ASSUME NEW l \in J!Slot, js'[l].connected
               PROVE  /\ (js[l].xinput /\ IsEmpty(js[l].index) => GoesOn(g, l, NoDevice))'
                      /\ (~js[l].xinput /\ js[l].lost => GoesOn(g, l, js[l].device))'
    BY DEF DueOK
  <2>1. CASE js'[l] = js[l]
    <3>1. /\ js[l].xinput /\ IsEmpty(js[l].index) => GoesOn(u, l, NoDevice)
          /\ ~js[l].xinput /\ js[l].lost => GoesOn(u, l, js[l].device)
      BY <1>1, <2>1 DEF DueOK
    <3>2. ~Presence(u, l)
      BY <1>1
    <3>3. QED
      BY <1>2, <2>1, <3>1, <3>2 DEF IsEmpty, GoesOn, ArrivalAfter
  <2>2. CASE NotDue(l)'
    BY <1>1, <1>2, <2>2 DEF NotDue
  <2>3. QED
    BY <2>1, <2>2
<1>6. ListedOK(g)'
  <2>1. ArrivalAfter(0)' <=> ArrivalAfter(0)
    BY <1>2 DEF ArrivalAfter
  <2>2. \A d \in (plugged \intersect Stick) \ skipped' :
          HasSlot(d)' \/ ArrivalAfter(0) \/ d \notin g[1].tried
    <3>1. \A d \in (plugged \intersect Stick) \ skipped :
            HasSlot(d) \/ ArrivalAfter(0) \/ d \notin f.tried
      BY <1>1 DEF ListedOK
    <3>2. QED
      BY <3>1 DEF SlotsStay
  <2>3. \A p \in (plugged \intersect Pad) \ skipped' :
          xinput => IsListed(index[p])' \/ ArrivalAfter(0) \/ g[1].next <= index[p]
    <3>1. \A p \in (plugged \intersect Pad) \ skipped :
            xinput => IsListed(index[p]) \/ ArrivalAfter(0) \/ f.next <= index[p]
      BY <1>1 DEF ListedOK
    <3>2. ASSUME NEW p \in (plugged \intersect Pad) \ skipped', xinput
          PROVE  IsListed(index[p])' \/ ArrivalAfter(0) \/ g[1].next <= index[p]
      <4>1. PICK i : i = index[p]
        OBVIOUS
      <4>2. IsListed(i)' => IsListed(index[p])'
        BY <1>2, <4>1 DEF IsListed
      <4>3. CASE p \in skipped
        BY <3>2, <4>3
      <4>4. CASE p \notin skipped
        <5>1. IsListed(i) \/ ArrivalAfter(0) \/ f.next <= i
          BY <3>1, <3>2, <4>1, <4>4
        <5>2. CASE IsListed(i)
          BY <4>2, <5>2 DEF SlotsStay
        <5>3. CASE f.next <= i
          BY <3>2, <4>1, <5>3
        <5>4. QED
          BY <5>1, <5>2, <5>3
      <4>5. QED
        BY <4>3, <4>4
    <3>3. QED
      BY <3>2
  <2>4. QED
    <3>1. \A d \in (plugged' \intersect Stick) \ skipped' :
            HasSlot(d)' \/ ArrivalAfter(0)' \/ (Detection(g) /\ d \notin g[1].tried)
      BY <1>2, <1>3, <2>1, <2>2
    <3>2. \A p \in (plugged' \intersect Pad) \ skipped' :
            xinput' => (IsListed(index[p]))' \/ ArrivalAfter(0)' \/ (Detection(g) /\ g[1].next <= index'[p])
      BY <1>2, <1>3, <2>1, <2>3 DEF IsListed
    <3>3. QED
      BY <3>1, <3>2 DEF ListedOK, Detection
<1>7. QED
  BY <1>1, <1>2, <1>4, <1>5, <1>6 DEF Win32OK, CocoaOK

LEMMA DetectPadIsSafe ==
  ASSUME SlotsInv, J!DetectPad
  PROVE  SlotsInv'
<1>1. PICK u, f, g : u = stack /\ f = J!Top /\ g = J!Advance
  OBVIOUS
<1>2. PICK i : i = f.next
  OBVIOUS
<1>3. /\ J!Detecting /\ i < NumIndices
      /\ \/ /\ ~xinput \/ IsListed(i) \/ J!PadAt(i) = {}
            /\ stack' = g /\ js' = js /\ skipped' = skipped
         \/ /\ xinput /\ ~IsListed(i)
            /\ stack' = g /\ js' = js /\ skipped' = skipped \union J!PadAt(i)
         \/ /\ xinput /\ ~IsListed(i) /\ J!PadAt(i) # {} /\ J!HasSlot
            /\ J!List([J!Free EXCEPT !.allocated = TRUE, !.connected = TRUE, !.xinput = TRUE,
                                     !.index = i], g)
            /\ skipped' = skipped \ J!PadAt(i)
      /\ UNCHANGED J!system /\ UNCHANGED <<notices, initialized, crash, failures>>
  <2>1. J!Detecting /\ i < NumIndices /\ (IsListed(i) <=> J!IsListed(i))
    BY <1>1, <1>2 DEF J!DetectPad, IsListed, J!IsListed
  <2>2. CASE ~xinput \/ J!IsListed(i) \/ J!PadAt(i) = {}
    BY <1>1, <1>2, <2>1, <2>2 DEF J!DetectPad, J!OnlyStack
  <2>3. CASE ~(~xinput \/ J!IsListed(i) \/ J!PadAt(i) = {})
    BY <1>1, <1>2, <2>1, <2>3 DEF J!DetectPad
  <2>4. QED
    BY <2>2, <2>3
<1>4. /\ SlotsTyped /\ RunOK(stack) /\ J!Alive /\ u \in Seq(J!Call) /\ driver = "win32"
      /\ f.next \in Nat /\ u[1] = f /\ u # <<>> /\ Started(u) /\ SkippedOK /\ StartOK(u)
      /\ \A k \in J!Slot : ~Closing(k)
  BY <1>1, <1>3, DetectTop
<1>5. GoesOnAs(u, g) /\ g[1].next = i + 1 /\ g[1].tried = f.tried
  BY <1>1, <1>2, <1>3, DetectAdvanced
<1>6. g \in Seq(J!Call) /\ g[1].fn = u[1].fn /\ g # <<>> /\ CallsOK(g) /\ ClosingOK(g)
      /\ SamePolls(stack, g)
  BY <1>1, <1>5 DEF GoesOnAs
<1>7. /\ plugged' = plugged /\ index' = index /\ (xinput' <=> xinput) /\ driver' = driver
      /\ js \in [J!Slot -> JoystickType] /\ skipped \subseteq plugged
      /\ plugged \subseteq J!Device /\ failures' \in 0..MaxFailures /\ initialized' \in BOOLEAN
  BY <1>3, <1>4 DEF SlotsTyped, J!system
<1>8. i \in J!Index /\ \A n \in J!Index : n \in Nat
  BY <1>2, <1>3, <1>4, SlotsAre
<1>9. index \in [Pad -> J!Index]
  BY <1>4 DEF SlotsTyped
<1>10. \A p : p \in J!PadAt(i) <=> p \in plugged \intersect Pad /\ index[p] = i
  BY DEF J!PadAt
<1>11. Started(g)' /\ (Starting(stack) <=> Starting(g))
  BY <1>1, <1>3, <1>4, <1>6, <1>7 DEF Started, Starting, GoesOnAs, StartOK
<1>12. \A d : d \in Stick => d \notin Pad
  BY SlotsAre
<1>13. \A p \in plugged \intersect Pad : f.next <= index[p] /\ ~(g[1].next <= index[p]) => index[p] = i
  BY <1>2, <1>4, <1>5, <1>8, <1>9
<1>14. CASE /\ js' = js /\ stack' = g
            /\ \/ (~xinput \/ IsListed(i) \/ J!PadAt(i) = {}) /\ skipped' = skipped
               \/ xinput /\ ~IsListed(i) /\ skipped' = skipped \union J!PadAt(i)
  <2>1. SlotsStay /\ \A n : IsListed(n)' <=> IsListed(n)
    BY <1>14 DEF SlotsStay, HasSlot, Has, IsListed
  <2>2. SkippedOK'
    <3>1. \A d \in skipped' \intersect Stick : d \in skipped
      BY <1>10, <1>12, <1>14
    <3>2. \A d \in skipped' \intersect Stick : ~HasSlot(d)'
      BY <1>4, <1>14, <3>1 DEF SkippedOK, HasSlot, Has
    <3>3. ASSUME NEW p \in skipped' \intersect Pad
          PROVE  ~IsListed(index[p])' /\ xinput
      <4>1. p \in skipped \/ (xinput /\ ~IsListed(i) /\ index[p] = i)
        BY <1>10, <1>14, <3>3
      <4>2. ~IsListed(index[p]) /\ xinput
        BY <1>4, <3>3, <4>1 DEF SkippedOK
      <4>3. QED
        BY <1>7, <1>14, <4>2 DEF IsListed
    <3>4. QED
      BY <1>7, <3>2, <3>3 DEF SkippedOK
  <2>3. \A l \in J!Slot : js'[l] = js[l] \/ NotDue(l)'
    BY <1>14
  <2>4. \A d \in (plugged \intersect Stick) \ skipped' :
          d \in skipped \/ (d \in g[1].tried /\ d \notin f.tried) => HasSlot(d)'
    BY <1>5, <1>14
  <2>5. ASSUME NEW p \in (plugged \intersect Pad) \ skipped', xinput,
               p \in skipped \/ (f.next <= index[p] /\ ~(g[1].next <= index[p]))
        PROVE  IsListed(index[p])'
    <3>1. index[p] = i /\ p \in J!PadAt(i)
      BY <1>10, <1>13, <1>14, <2>5
    <3>2. IsListed(i)
      BY <1>14, <2>5, <3>1
    <3>3. QED
      BY <1>7, <1>14, <3>1, <3>2 DEF IsListed
  <2>6. StartOK(g)' /\ Win32OK(g)' /\ CocoaOK(g)'
    BY <1>1, <1>3, <1>5, <2>1, <2>2, <2>3, <2>4, <2>5, DetectedOK
  <2>7. RunOK(g)'
    BY <1>3, <1>4, <1>6, <1>14, <2>6, GoneOn
  <2>8. skipped' \subseteq plugged /\ js' \in [J!Slot -> JoystickType]
    BY <1>7, <1>10, <1>14
  <2>9. QED
    BY <1>3, <1>4, <1>6, <1>7, <1>14, <2>7, <2>8, StepIsSafe
<1>15. CASE /\ xinput /\ ~IsListed(i) /\ J!PadAt(i) # {} /\ J!HasSlot
            /\ J!List([J!Free EXCEPT !.allocated = TRUE, !.connected = TRUE, !.xinput = TRUE,
                                     !.index = i], g)
            /\ skipped' = skipped \ J!PadAt(i)
  <2>1. PICK b \in BOOLEAN : b = TRUE
    OBVIOUS
  <2>2. PICK j : j = [J!Free EXCEPT !.allocated = b, !.connected = b, !.xinput = b, !.index = i]
    OBVIOUS
  <2>3. /\ j \in JoystickType /\ j.allocated /\ j.connected /\ j.xinput /\ j.index = i
        /\ j.device = NoDevice /\ j.axis = <<1, 2>> /\ j.stale
    BY <1>8, <2>1, <2>2, NewPad
  <2>4. J!List(j, g)
    BY <1>15, <2>1, <2>2
  <2>5. /\ J!Tell(TRUE, g) /\ js' \in [J!Slot -> JoystickType]
        /\ \E k \in J!Slot : /\ ~js[k].allocated /\ js'[k] = j
                             /\ \A l \in J!Slot : l # k => js'[l] = js[l]
    BY <1>4, <1>15, <2>3, <2>4, ListIs
  <2>6. PICK k \in J!Slot : /\ ~js[k].allocated /\ js'[k] = j
                            /\ \A l \in J!Slot : l # k => js'[l] = js[l]
    BY <2>5
  <2>7. ~js[k].connected
    BY <1>4, <2>6 DEF RunOK, SlotsOK, SlotOK
  <2>8. SlotOK(k)' /\ NotDue(k)'
    <3>1. ~IsEmpty(i)'
      BY <1>7, <1>10, <1>15 DEF IsEmpty
    <3>2. NotDue(k)'
      BY <2>3, <2>6, <3>1 DEF NotDue, IsEmpty
    <3>3. SlotOK(k)'
      BY <1>7, <1>15, <2>3, <2>6 DEF SlotOK
    <3>4. QED
      BY <3>2, <3>3
  <2>9. SlotsStay /\ IsListed(i)' /\ (\A d : HasSlot(d)' => HasSlot(d))
        /\ \A n : n # i /\ IsListed(n)' => IsListed(n)
    <3>1. \A d : HasSlot(d) <=> HasSlot(d)'
      BY <2>3, <2>6, <2>7 DEF HasSlot, Has
    <3>2. \A n : IsListed(n) => IsListed(n)'
      BY <2>6, <2>7 DEF IsListed
    <3>3. IsListed(i)' /\ \A n : n # i /\ IsListed(n)' => IsListed(n)
      BY <2>3, <2>6 DEF IsListed
    <3>4. QED
      BY <3>1, <3>2, <3>3 DEF SlotsStay
  <2>10. SkippedOK'
    <3>1. \A d \in skipped' \intersect Stick : ~HasSlot(d)'
      BY <1>4, <1>15, <2>9 DEF SkippedOK
    <3>2. ASSUME NEW p \in skipped' \intersect Pad
          PROVE  ~IsListed(index[p])' /\ xinput
      <4>1. PICK n : n = index[p]
        OBVIOUS
      <4>2. p \in skipped /\ n # i
        BY <1>7, <1>10, <1>15, <3>2, <4>1
      <4>3. ~IsListed(n)' /\ xinput
        BY <1>4, <2>9, <3>2, <4>1, <4>2 DEF SkippedOK
      <4>4. QED
        BY <1>7, <4>1, <4>3 DEF IsListed
    <3>3. QED
      BY <1>7, <3>1, <3>2 DEF SkippedOK
  <2>11. \A l \in J!Slot : js'[l] = js[l] \/ NotDue(l)'
    BY <2>6, <2>8
  <2>12. \A d \in (plugged \intersect Stick) \ skipped' :
          d \in skipped \/ (d \in g[1].tried /\ d \notin f.tried) => HasSlot(d)'
    BY <1>5, <1>10, <1>12, <1>15
  <2>13. ASSUME NEW p \in (plugged \intersect Pad) \ skipped', xinput,
               p \in skipped \/ (f.next <= index[p] /\ ~(g[1].next <= index[p]))
        PROVE  IsListed(index[p])'
    <3>1. index[p] = i
      BY <1>10, <1>13, <1>15, <2>13
    <3>2. QED
      BY <1>7, <2>9, <3>1 DEF IsListed
  <2>14. StartOK(g)' /\ Win32OK(g)' /\ CocoaOK(g)'
    BY <1>1, <1>3, <1>5, <2>9, <2>10, <2>11, <2>12, <2>13, DetectedOK
  <2>15. RunOK(g)'
    <3>1. NewTo(k, j)
      BY <1>15, <2>3 DEF NewTo, IsListed
    <3>2. QED
      BY <1>3, <1>4, <1>6, <2>3, <2>5, <2>6, <2>8, <2>14, <3>1, NewlyListed
  <2>16. skipped' \subseteq plugged
    BY <1>7, <1>15
  <2>17. QED
    BY <1>3, <1>4, <1>6, <1>7, <1>11, <2>5, <2>15, <2>16, ToldIsSafe
<1>16. QED
  BY <1>3, <1>14, <1>15

\* Devices of DirectInput have been looked at, and no slot has changed.
LEMMA TriedIsSafe ==
  ASSUME SlotsInv, J!Detecting, NEW f, f = J!Top, NEW X \in SUBSET J!Device,
         NEW g, g = TriedAs(f, X), stack' = g, js' = js,
         UNCHANGED J!system, UNCHANGED <<notices, initialized, crash>>,
         failures' \in 0..MaxFailures, skipped \subseteq skipped', skipped' \subseteq plugged,
         \A e \in skipped' \ skipped : e \in Stick /\ ~HasSlot(e),
         \A e \in (plugged \intersect Stick) \ skipped' : e \in X /\ e \notin f.tried => HasSlot(e)
  PROVE  SlotsInv'
<1>1. PICK u : u = stack
  OBVIOUS
<1>2. /\ SlotsTyped /\ RunOK(stack) /\ J!Alive /\ SkippedOK
  BY <1>1, DetectTop
<1>3. GoesOnAs(u, g) /\ g[1].next = f.next /\ g[1].tried = X
  BY <1>1, DetectTried
<1>4. g \in Seq(J!Call) /\ CallsOK(g) /\ ClosingOK(g) /\ SamePolls(stack, g)
  BY <1>1, <1>3 DEF GoesOnAs
<1>5. SlotsStay
  BY DEF SlotsStay, HasSlot, Has, IsListed
<1>6. SkippedOK'
  <2>1. \A e \in skipped' \intersect Stick : ~HasSlot(e)'
    BY <1>2 DEF SkippedOK, HasSlot, Has
  <2>2. \A p \in skipped' \intersect Pad : p \in skipped
    BY SlotsAre
  <2>3. \A p \in skipped' \intersect Pad : ~IsListed(index[p]) /\ xinput
    BY <1>2, <2>2 DEF SkippedOK
  <2>4. index' = index /\ xinput' = xinput
    BY DEF J!system
  <2>5. QED
    BY <2>1, <2>3, <2>4 DEF SkippedOK, IsListed
<1>7. \A l \in J!Slot : js'[l] = js[l] \/ NotDue(l)'
  OBVIOUS
<1>8. \A e \in (plugged \intersect Stick) \ skipped' :
        e \in skipped \/ (e \in g[1].tried /\ e \notin f.tried) => HasSlot(e)'
  BY <1>3 DEF HasSlot, Has
<1>9. \A p \in (plugged \intersect Pad) \ skipped' :
        xinput /\ (p \in skipped \/ (f.next <= index[p] /\ ~(g[1].next <= index[p]))) =>
          IsListed(index[p])'
  BY <1>3
<1>10. StartOK(g)' /\ Win32OK(g)' /\ CocoaOK(g)'
  BY <1>1, <1>3, <1>5, <1>6, <1>7, <1>8, <1>9, DetectedOK
<1>11. RunOK(g)'
  BY <1>2, <1>4, <1>10, GoneOn
<1>12. js' \in [J!Slot -> JoystickType] /\ initialized' \in BOOLEAN
  BY <1>2 DEF SlotsTyped
<1>13. QED
  BY <1>2, <1>4, <1>11, <1>12, StepIsSafe

LEMMA StoppedIsSafe ==
  ASSUME SlotsInv, J!Detecting, J!StopDetecting, js' = js,
         UNCHANGED J!system, UNCHANGED <<notices, initialized, crash>>,
         failures' \in 0..MaxFailures
  PROVE  SlotsInv'
<1>1. PICK f, X : f = J!Top /\ X = J!Device
  OBVIOUS
<1>2. PICK g : g = TriedAs(f, X)
  OBVIOUS
<1>3. /\ stack' = g
      /\ skipped' = skipped \union {e \in plugged \intersect Stick : ~HasSlot(e)}
  <2>1. \A e : J!SlotsWith(e) = {} <=> ~HasSlot(e)
    BY DEF J!SlotsWith, HasSlot, Has
  <2>2. stack' = g
    BY <1>1, <1>2 DEF J!StopDetecting, TriedAs
  <2>3. skipped' = skipped \union {e \in plugged \intersect Stick : J!SlotsWith(e) = {}}
    BY DEF J!StopDetecting
  <2>4. QED
    BY <2>1, <2>2, <2>3
<1>4. skipped \subseteq plugged
  BY DetectTop DEF SlotsTyped
<1>5. X \in SUBSET J!Device
  BY <1>1
<1>6. /\ skipped \subseteq skipped' /\ skipped' \subseteq plugged
      /\ \A e \in skipped' \ skipped : e \in Stick /\ ~HasSlot(e)
      /\ \A e \in (plugged \intersect Stick) \ skipped' : e \in X /\ e \notin f.tried => HasSlot(e)
  BY <1>3, <1>4
<1>7. QED
  BY <1>1, <1>2, <1>3, <1>5, <1>6, TriedIsSafe

LEMMA DetectStickIsSafe ==
  ASSUME SlotsInv, NEW d \in J!Device, J!DetectStick(d)
  PROVE  SlotsInv'
<1>1. PICK u, f, X : u = stack /\ f = J!Top /\ X = f.tried \union {d}
  OBVIOUS
<1>2. PICK g : g = TriedAs(f, X)
  OBVIOUS
<1>3. /\ J!Detecting /\ d \in plugged /\ d \notin f.tried /\ J!Tried(d) = g
      /\ J!SlotsWith(d) = {} <=> ~HasSlot(d)
      /\ UNCHANGED J!system /\ UNCHANGED <<notices, initialized, crash>>
  <2>1. J!Detecting /\ d \in plugged /\ d \notin f.tried
    BY <1>1 DEF J!DetectStick
  <2>2. J!Tried(d) = g
    BY <1>1, <1>2 DEF J!Tried, TriedAs
  <2>3. UNCHANGED J!system /\ UNCHANGED <<notices, initialized, crash>>
    BY DEF J!DetectStick, J!OnlyStack
  <2>4. J!SlotsWith(d) = {} <=> ~HasSlot(d)
    BY DEF J!SlotsWith, HasSlot, Has
  <2>5. QED
    BY <2>1, <2>2, <2>3, <2>4
<1>4. \/ /\ HasSlot(d) \/ d \in Pad
         /\ stack' = g /\ js' = js /\ skipped' = skipped /\ failures' = failures
      \/ /\ ~HasSlot(d) /\ d \in Stick /\ failures < MaxFailures
         /\ failures' = failures + 1 /\ js' = js
         /\ (skipped' = skipped \union {d} /\ stack' = g) \/ J!StopDetecting
      \/ /\ ~HasSlot(d) /\ d \in Stick /\ J!HasSlot
         /\ J!List([J!Free EXCEPT !.allocated = TRUE, !.connected = TRUE, !.device = d], g)
         /\ skipped' = skipped \ {d} /\ failures' = failures
      \/ /\ ~HasSlot(d) /\ d \in Stick
         /\ J!StopDetecting /\ js' = js /\ failures' = failures
  BY <1>3 DEF J!DetectStick, J!OnlyStack
<1>5. /\ SlotsTyped /\ RunOK(stack) /\ J!Alive /\ u \in Seq(J!Call) /\ driver = "win32"
      /\ f.next \in Nat /\ u[1] = f /\ Started(u) /\ SkippedOK /\ StartOK(u)
      /\ u # <<>> /\ f.tried \subseteq J!Device
  BY <1>1, <1>3, DetectTop
<1>6. X \in SUBSET J!Device
  BY <1>1, <1>5
<1>7. /\ plugged' = plugged /\ index' = index /\ (xinput' <=> xinput) /\ driver' = driver
      /\ js \in [J!Slot -> JoystickType] /\ skipped \subseteq plugged
      /\ plugged \subseteq J!Device /\ initialized' \in BOOLEAN
      /\ failures \in 0..MaxFailures
  BY <1>3, <1>5 DEF SlotsTyped, J!system
<1>8. \A e : e \in Stick => e \notin Pad
  BY SlotsAre
<1>9. CASE /\ HasSlot(d) \/ d \in Pad
           /\ stack' = g /\ js' = js /\ skipped' = skipped /\ failures' = failures
  <2>1. \A e \in (plugged \intersect Stick) \ skipped' : e \in X /\ e \notin f.tried => HasSlot(e)
    BY <1>1, <1>8, <1>9
  <2>2. \A e \in skipped' \ skipped : e \in Stick /\ ~HasSlot(e)
    BY <1>9
  <2>3. skipped \subseteq skipped' /\ skipped' \subseteq plugged /\ failures' \in 0..MaxFailures
    BY <1>7, <1>9
  <2>4. QED
    BY <1>1, <1>2, <1>3, <1>6, <1>9, <2>1, <2>2, <2>3, TriedIsSafe
<1>10. CASE /\ ~HasSlot(d) /\ d \in Stick /\ failures < MaxFailures
            /\ failures' = failures + 1 /\ js' = js
            /\ (skipped' = skipped \union {d} /\ stack' = g) \/ J!StopDetecting
  <2>1. failures' \in 0..MaxFailures
    BY <1>7, <1>10, JoysticksAssumption DEF J!ControllersAssumption
  <2>2. CASE J!StopDetecting
    BY <1>3, <1>10, <2>1, <2>2, StoppedIsSafe
  <2>3. CASE skipped' = skipped \union {d} /\ stack' = g
    <3>1. \A e \in (plugged \intersect Stick) \ skipped' : e \in X /\ e \notin f.tried => HasSlot(e)
      BY <1>1, <2>3
    <3>2. \A e \in skipped' \ skipped : e \in Stick /\ ~HasSlot(e)
      BY <1>10, <2>3
    <3>3. skipped \subseteq skipped' /\ skipped' \subseteq plugged
      BY <1>3, <1>7, <2>3
    <3>4. QED
      BY <1>1, <1>2, <1>3, <1>6, <1>10, <2>1, <2>3, <3>1, <3>2, <3>3, TriedIsSafe
  <2>4. QED
    BY <1>10, <2>2, <2>3
<1>11. CASE /\ ~HasSlot(d) /\ d \in Stick
            /\ J!StopDetecting /\ js' = js /\ failures' = failures
  BY <1>3, <1>7, <1>11, StoppedIsSafe
<1>12. CASE /\ ~HasSlot(d) /\ d \in Stick /\ J!HasSlot
            /\ J!List([J!Free EXCEPT !.allocated = TRUE, !.connected = TRUE, !.device = d], g)
            /\ skipped' = skipped \ {d} /\ failures' = failures
  <2>1. PICK b \in BOOLEAN : b = TRUE
    OBVIOUS
  <2>2. PICK j : j = [J!Free EXCEPT !.allocated = b, !.connected = b, !.device = d]
    OBVIOUS
  <2>3. /\ j \in JoystickType /\ j.allocated /\ j.connected /\ ~j.xinput /\ j.device = d
        /\ ~j.lost /\ j.axis = <<1, 2>> /\ j.stale
    BY <2>1, <2>2, NewStick
  <2>4. J!List(j, g)
    BY <1>12, <2>1, <2>2
  <2>5. /\ J!Tell(TRUE, g) /\ js' \in [J!Slot -> JoystickType]
        /\ \E k \in J!Slot : /\ ~js[k].allocated /\ js'[k] = j
                             /\ \A l \in J!Slot : l # k => js'[l] = js[l]
    BY <1>5, <1>12, <2>3, <2>4, ListIs
  <2>6. PICK k \in J!Slot : /\ ~js[k].allocated /\ js'[k] = j
                            /\ \A l \in J!Slot : l # k => js'[l] = js[l]
    BY <2>5
  <2>7. ~js[k].connected
    BY <1>5, <2>6 DEF RunOK, SlotsOK, SlotOK
  <2>8. SlotOK(k)' /\ NotDue(k)'
    <3>1. NotDue(k)'
      BY <2>3, <2>6 DEF NotDue
    <3>2. SlotOK(k)'
      BY <1>3, <1>7, <1>12, <2>3, <2>6 DEF SlotOK
    <3>3. QED
      BY <3>1, <3>2
  <2>9. SlotsStay /\ HasSlot(d)' /\ (\A n : IsListed(n)' => IsListed(n))
        /\ \A e : e # d /\ HasSlot(e)' => HasSlot(e)
    <3>1. \A n : IsListed(n) <=> IsListed(n)'
      BY <2>3, <2>6, <2>7 DEF IsListed
    <3>2. \A e : HasSlot(e) => HasSlot(e)'
      BY <2>6, <2>7 DEF HasSlot, Has
    <3>3. HasSlot(d)' /\ \A e : e # d /\ HasSlot(e)' => HasSlot(e)
      BY <2>3, <2>6 DEF HasSlot, Has
    <3>4. QED
      BY <3>1, <3>2, <3>3 DEF SlotsStay
  <2>10. SkippedOK'
    <3>1. \A e \in skipped' \intersect Stick : ~HasSlot(e)'
      BY <1>5, <1>12, <2>9 DEF SkippedOK
    <3>2. ASSUME NEW p \in skipped' \intersect Pad
          PROVE  ~IsListed(index[p])' /\ xinput
      <4>1. PICK n : n = index[p]
        OBVIOUS
      <4>2. ~IsListed(n)' /\ xinput
        BY <1>5, <1>12, <2>9, <3>2, <4>1 DEF SkippedOK
      <4>3. QED
        BY <1>7, <4>1, <4>2 DEF IsListed
    <3>3. QED
      BY <1>7, <3>1, <3>2 DEF SkippedOK
  <2>11. \A l \in J!Slot : js'[l] = js[l] \/ NotDue(l)'
    BY <2>6, <2>8
  <2>12. GoesOnAs(u, g) /\ g[1].next = f.next /\ g[1].tried = X
    BY <1>1, <1>2, <1>3, <1>6, DetectTried
  <2>13. g \in Seq(J!Call) /\ CallsOK(g) /\ ClosingOK(g) /\ SamePolls(stack, g)
         /\ g[1].fn = u[1].fn /\ g # <<>>
    BY <1>1, <2>12 DEF GoesOnAs
  <2>14. \A e \in (plugged \intersect Stick) \ skipped' :
          e \in skipped \/ (e \in g[1].tried /\ e \notin f.tried) => HasSlot(e)'
    BY <1>1, <1>12, <2>9, <2>12
  <2>15. \A p \in (plugged \intersect Pad) \ skipped' :
        xinput /\ (p \in skipped \/ (f.next <= index[p] /\ ~(g[1].next <= index[p]))) =>
          IsListed(index[p])'
    BY <1>8, <1>12, <2>12
  <2>16. StartOK(g)' /\ Win32OK(g)' /\ CocoaOK(g)'
    BY <1>1, <1>3, <2>9, <2>10, <2>11, <2>12, <2>14, <2>15, DetectedOK
  <2>17. RunOK(g)'
    <3>1. NewTo(k, j)
      BY <1>12, <2>3 DEF NewTo, HasSlot, Has
    <3>2. QED
      BY <1>3, <1>5, <2>3, <2>5, <2>6, <2>8, <2>13, <2>16, <3>1, NewlyListed
  <2>18. Started(g)' /\ (Starting(stack) <=> Starting(g))
    BY <1>1, <1>3, <1>5, <2>13 DEF Started, Starting
  <2>19. skipped' \subseteq plugged /\ failures' \in 0..MaxFailures
    BY <1>7, <1>12
  <2>20. QED
    BY <1>3, <1>5, <1>7, <2>5, <2>13, <2>17, <2>18, <2>19, ToldIsSafe
<1>13. QED
  BY <1>4, <1>9, <1>10, <1>11, <1>12

LEMMA DetectDoneIsSafe ==
  ASSUME SlotsInv, J!DetectDone
  PROVE  SlotsInv'
<1>1. PICK u, f, t : u = stack /\ f = J!Top /\ t = J!Below
  OBVIOUS
<1>2. /\ J!Detecting /\ f.next = NumIndices /\ plugged \subseteq f.tried
      /\ initialized' = TRUE /\ stack' = t
      /\ UNCHANGED J!system /\ UNCHANGED <<notices, js, crash, skipped, failures>>
  BY <1>1 DEF J!DetectDone
<1>3. /\ SlotsTyped /\ RunOK(stack) /\ J!Alive /\ driver = "win32" /\ t = <<>>
      /\ u # <<>> /\ u[1] = f /\ Started(u) /\ NoPolls(u) /\ StartOK(u)
      /\ \A k \in J!Slot : ~Presence(u, k) /\ ~Closing(k)
      /\ DueOK(u) /\ ListedOK(u) /\ SkippedOK
  BY <1>1, <1>2, DetectTop
<1>4. t \in Seq(J!Call) /\ DOMAIN t = {}
  BY <1>3
<1>5. /\ plugged' = plugged /\ index' = index /\ (xinput' <=> xinput) /\ driver' = driver
      /\ notices' = notices /\ js' = js /\ skipped' = skipped
  BY <1>2 DEF J!system
<1>6. CallsOK(t) /\ ClosingOK(t)
  BY <1>3, <1>4 DEF CallsOK, ClosingOK
<1>7. SamePolls(u, t)
  BY <1>3, <1>4 DEF SamePolls, IsToRead, HaveSeen, NoPolls
<1>8. StartOK(t)' /\ Started(t)' /\ CocoaOK(t)'
  BY <1>2, <1>3, <1>5 DEF StartOK, Started, Starting, CocoaOK
<1>9. DueOK(t)'
  <2> SUFFICES ASSUME NEW l \in J!Slot, js'[l].connected
               PROVE  /\ (js[l].xinput /\ IsEmpty(js[l].index) => GoesOn(t, l, NoDevice))'
                      /\ (~js[l].xinput /\ js[l].lost => GoesOn(t, l, js[l].device))'
    BY DEF DueOK
  <2>1. /\ js[l].xinput /\ IsEmpty(js[l].index) => GoesOn(u, l, NoDevice)
        /\ ~js[l].xinput /\ js[l].lost => GoesOn(u, l, js[l].device)
    BY <1>3, <1>5 DEF DueOK
  <2>2. ~Presence(u, l)
    BY <1>3
  <2>3. QED
    BY <1>5, <2>1, <2>2 DEF IsEmpty, GoesOn, ArrivalAfter
<1>10. ListedOK(t)'
  <2>1. \A d \in (plugged \intersect Stick) \ skipped : HasSlot(d) \/ ArrivalAfter(0)
    BY <1>2, <1>3 DEF ListedOK
  <2>2. ASSUME NEW p \in (plugged \intersect Pad) \ skipped, xinput
        PROVE  IsListed(index[p]) \/ ArrivalAfter(0)
    <3>1. index[p] \in J!Index
      BY <1>3 DEF SlotsTyped
    <3>2. ~(f.next <= index[p])
      BY <1>2, <3>1, SlotsAre
    <3>3. QED
      BY <1>3, <2>2, <3>2 DEF ListedOK
  <2>3. QED
    BY <1>5, <2>1, <2>2 DEF ListedOK, HasSlot, Has, IsListed, ArrivalAfter
<1>11. SkippedOK'
  BY <1>3, <1>5 DEF SkippedOK, HasSlot, Has, IsListed
<1>12. Win32OK(t)'
  BY <1>9, <1>10, <1>11 DEF Win32OK
<1>13. RunOK(t)'
  <2>1. SamePolls(stack, t)
    BY <1>1, <1>7
  <2>2. QED
    BY <1>2, <1>3, <1>4, <1>5, <1>6, <1>8, <1>12, <2>1, GoneOn
<1>14. js' \in [J!Slot -> JoystickType] /\ skipped' \subseteq plugged
       /\ failures' \in 0..MaxFailures /\ initialized' \in BOOLEAN
  BY <1>2, <1>3 DEF SlotsTyped
<1>15. QED
  BY <1>2, <1>3, <1>4, <1>13, <1>14, StepIsSafe

--------------------------------------------------------------------------------
(* Initialization and termination *)

LEMMA InitDoneIsSafe ==
  ASSUME SlotsInv, J!InitDone
  PROVE  SlotsInv'
<1>1. PICK u, f, t : u = stack /\ f = J!Top /\ t = J!Below
  OBVIOUS
<1>2. /\ J!Alive /\ stack # <<>> /\ f.fn = "init" /\ driver = "cocoa" /\ notices = <<>>
      /\ initialized' = TRUE /\ stack' = t
      /\ UNCHANGED J!system /\ UNCHANGED <<notices, js, crash, skipped, failures>>
  BY <1>1 DEF J!InitDone, J!Running
<1>3. SlotsTyped /\ RunOK(stack)
  BY <1>2 DEF SlotsInv
<1>4. /\ CallsOK(u) /\ ClosingOK(u) /\ StartOK(u) /\ CocoaOK(u) /\ u # <<>>
  BY <1>1, <1>2, <1>3 DEF RunOK
<1>5. DOMAIN u = {1} /\ u[1] = f /\ t = <<>>
  BY <1>1, <1>2, <1>3, <1>4, OnlyCall
<1>6. t \in Seq(J!Call) /\ DOMAIN t = {}
  BY <1>5
<1>7. /\ plugged' = plugged /\ index' = index /\ (xinput' <=> xinput) /\ driver' = driver
      /\ notices' = notices /\ js' = js /\ skipped' = skipped
  BY <1>2 DEF J!system
<1>8. \A k \in J!Slot : ~Closing(k)
  BY <1>2, <1>4, <1>5 DEF ClosingOK, Closes
<1>9. CallsOK(t) /\ ClosingOK(t)
  BY <1>6, <1>8 DEF CallsOK, ClosingOK
<1>10. SamePolls(stack, t)
  <2>1. SamePolls(u, t)
    BY <1>2, <1>5, <1>6 DEF SamePolls, IsToRead, HaveSeen
  <2>2. QED
    BY <1>1, <2>1
<1>11. StartOK(t)' /\ Started(t)' /\ Win32OK(t)'
  BY <1>2, <1>5, <1>7 DEF StartOK, Started, Starting, Win32OK
<1>12. CocoaOK(t)'
  <2>1. Started(u)
    BY <1>2, <1>5, <1>4 DEF Started, Starting
  <2>2. NoticesOK /\ skipped = {} /\ MatchedOK(u)
    BY <1>2, <1>4 DEF CocoaOK
  <2>3. NoticesOK'
    BY <1>7, <2>2 DEF NoticesOK, Comes
  <2>4. MatchedOK(t)'
    BY <1>7, <2>1, <2>2 DEF MatchedOK, HasSlot, Has, Comes
  <2>5. QED
    BY <1>7, <2>2, <2>3, <2>4 DEF CocoaOK
<1>13. RunOK(t)'
  BY <1>2, <1>3, <1>6, <1>7, <1>9, <1>10, <1>11, <1>12, GoneOn
<1>14. js' \in [J!Slot -> JoystickType] /\ skipped' \subseteq plugged
       /\ failures' \in 0..MaxFailures /\ initialized' \in BOOLEAN
  BY <1>2, <1>3 DEF SlotsTyped
<1>15. QED
  BY <1>2, <1>3, <1>6, <1>13, <1>14, StepIsSafe

LEMMA TerminateIsSafe ==
  ASSUME SlotsInv, J!Terminate
  PROVE  SlotsInv'
<1>1. PICK t : t = stack
  OBVIOUS
<1>2. /\ J!Alive /\ t = <<>> /\ initialized' = FALSE /\ notices' = <<>> /\ stack' = t
      /\ js' = [s \in J!Slot |-> J!Free] /\ skipped' = {}
      /\ UNCHANGED J!system /\ UNCHANGED <<crash, failures>>
  BY <1>1 DEF J!Terminate, J!Idle
<1>3. SlotsTyped /\ RunOK(stack)
  BY <1>2 DEF SlotsInv
<1>4. t \in Seq(J!Call) /\ DOMAIN t = {}
  BY <1>2
<1>5. /\ plugged' = plugged /\ index' = index /\ (xinput' <=> xinput) /\ driver' = driver
      /\ at' = at
  BY <1>2 DEF J!system
<1>6. js' \in [J!Slot -> JoystickType] /\ \A k \in J!Slot : js'[k] = J!Free
  BY <1>2, FreeIs
<1>7. PadsOK'
  BY <1>3, <1>5 DEF RunOK, PadsOK
<1>8. SlotsOK'
  <2> SUFFICES ASSUME NEW k \in J!Slot
               PROVE  SlotOK(k)'
    BY DEF SlotsOK
  <2>1. js'[k] = J!Free
    BY <1>6
  <2>2. QED
    BY <2>1, FreeIs DEF SlotOK
<1>9. SlotsApart'
  BY <1>6, FreeIs DEF SlotsApart, Alike
<1>10. CallsOK(t)' /\ ClosingOK(t)'
  BY <1>4, <1>6, FreeIs DEF CallsOK, ClosingOK, Closing
<1>11. ~Started(t)' /\ StartOK(t)'
  BY <1>2, <1>6 DEF StartOK, Started, Starting
<1>12. \A k \in J!Slot : ~(js'[k].connected)
  BY <1>6, FreeIs
<1>13. Win32OK(t)'
  BY <1>2, <1>11, <1>12 DEF Win32OK, DueOK, ListedOK, SkippedOK
<1>14. CocoaOK(t)'
  <2>1. DOMAIN notices' = {}
    BY <1>2
  <2>2. QED
    BY <1>2, <1>11, <2>1 DEF CocoaOK, NoticesOK, MatchedOK
<1>15. ReportsOK(t)'
  BY <1>12 DEF ReportsOK, J!Reads
<1>16. RunOK(t)'
  BY <1>7, <1>8, <1>9, <1>10, <1>11, <1>13, <1>14, <1>15 DEF RunOK
<1>17. notices' \in Seq(NoticeType)
  BY <1>2
<1>18. skipped' \subseteq plugged /\ initialized' \in BOOLEAN /\ failures' \in 0..MaxFailures
  BY <1>2, <1>3 DEF SlotsTyped
<1>19. QED
  BY <1>2, <1>3, <1>4, <1>6, <1>16, <1>17, <1>18, NoticedIsSafe

LEMMA BeginInitIsSafe ==
  ASSUME SlotsInv, J!BeginInit
  PROVE  SlotsInv'
<1>1. PICK u, f : u = stack /\ f = J!CallOf("init", 0)
  OBVIOUS
<1>2. PICK t : t = <<f>>
  OBVIOUS
<1>3. /\ J!Alive /\ u = <<>> /\ ~initialized /\ stack' = t
      /\ UNCHANGED J!system /\ UNCHANGED <<initialized, js, crash, skipped, failures>>
  BY <1>1, <1>2 DEF J!BeginInit, J!Idle
<1>4. SlotsTyped /\ RunOK(stack) /\ driver \in {"win32", "cocoa"}
  BY <1>3, SlotsAre DEF SlotsInv, SlotsTyped
<1>5. IF driver = "win32" THEN notices' = notices
      ELSE \E n \in Nat : \E order \in [1..n -> plugged] :
             /\ \A d \in plugged : \E i \in 1..n : order[i] = d
             /\ notices' = [i \in 1..n |-> [what |-> "arrival", device |-> order[i]]]
  <2>1. CASE driver = "win32"
    BY <2>1 DEF J!BeginInit
  <2>2. CASE driver # "win32"
    <3>1. PICK n : n = Cardinality(plugged)
      OBVIOUS
    <3>2. n \in Nat
      BY <1>4, <3>1, FS_CardinalityType DEF SlotsTyped
    <3>3. PICK order \in [1..n -> plugged] :
            /\ \A d \in plugged : \E i \in DOMAIN order : order[i] = d
            /\ notices' = [i \in DOMAIN order |-> [what |-> "arrival", device |-> order[i]]]
      BY <2>2, <3>1 DEF J!BeginInit, J!Cardinality, Cardinality
    <3>4. DOMAIN order = 1..n
      OBVIOUS
    <3>5. QED
      BY <2>2, <3>2, <3>3, <3>4
  <2>3. QED
    BY <2>1, <2>2
<1>6. f \in J!Call /\ f.fn = "init" /\ ~f.xinput /\ f.seen.hat = {} /\ f.next = 0 /\ f.tried = {}
  BY <1>1, SlotsAre, PositionsAre, CallIs DEF CallName
<1>7. t \in Seq(J!Call) /\ DOMAIN t = {1} /\ t[1] = f /\ t # <<>>
  BY <1>2, <1>6
<1>8. StartOK(u) /\ ClosingOK(u)
  BY <1>1, <1>4 DEF RunOK
<1>9. skipped = {} /\ \A k \in J!Slot : js[k] = J!Free
  BY <1>3, <1>8 DEF StartOK, Started, Starting
<1>10. \A k \in J!Slot : ~js[k].connected /\ ~Closing(k)
  BY <1>9, FreeIs DEF Closing
<1>11. CallsOK(t) /\ ClosingOK(t)
  <2>1. f.seen.hat # J!Direction /\ 0 <= NumIndices
    BY <1>6, PositionsAre, SlotsAre
  <2>2. CallOK(t, 1)
    BY <1>6, <1>7, <2>1 DEF CallOK, Starting
  <2>3. CallsOK(t)
    BY <1>7, <2>2 DEF CallsOK
  <2>4. ClosingOK(t)
    BY <1>7, <1>10 DEF ClosingOK
  <2>5. QED
    BY <2>3, <2>4
<1>12. SamePolls(stack, t)
  BY <1>1, <1>3, <1>6, <1>7 DEF SamePolls, IsToRead, HaveSeen
<1>13. Started(t)' /\ StartOK(t)'
  BY <1>3, <1>6, <1>7 DEF StartOK, Started, Starting
<1>14. /\ plugged' = plugged /\ index' = index /\ driver' = driver /\ js' = js
       /\ skipped' = skipped
  BY <1>3 DEF J!system
<1>15. Win32OK(t)'
  <2>1. DueOK(t)'
    BY <1>10, <1>14 DEF DueOK
  <2>2. \A p \in plugged' \intersect Pad : f.next <= index'[p]
    <3>1. \A p \in plugged \intersect Pad : index[p] \in J!Index
      BY <1>4 DEF SlotsTyped
    <3>2. \A i \in J!Index : 0 <= i
      BY SlotsAre
    <3>3. QED
      BY <1>6, <1>14, <3>1, <3>2
  <2>3. ListedOK(t)'
    BY <1>6, <1>7, <2>2 DEF ListedOK, Detection
  <2>4. SkippedOK'
    BY <1>9, <1>14 DEF SkippedOK
  <2>5. QED
    BY <2>1, <2>3, <2>4 DEF Win32OK
<1>16. CASE driver = "win32"
  <2>1. CocoaOK(t)' /\ notices' = notices
    BY <1>5, <1>14, <1>16 DEF CocoaOK
  <2>2. RunOK(t)'
    BY <1>3, <1>4, <1>7, <1>11, <1>12, <1>13, <1>15, <2>1, GoneOn
  <2>3. js' \in [J!Slot -> JoystickType] /\ skipped' \subseteq plugged
        /\ failures' \in 0..MaxFailures /\ initialized' \in BOOLEAN
    BY <1>3, <1>4 DEF SlotsTyped
  <2>4. QED
    BY <1>3, <1>4, <1>7, <2>1, <2>2, <2>3, StepIsSafe
<1>17. CASE driver # "win32"
  <2>1. PICK n \in Nat : \E order \in [1..n -> plugged] :
             /\ \A d \in plugged : \E i \in 1..n : order[i] = d
             /\ notices' = [i \in 1..n |-> [what |-> "arrival", device |-> order[i]]]
    BY <1>5, <1>17
  <2>2. PICK order \in [1..n -> plugged] :
             /\ \A d \in plugged : \E i \in 1..n : order[i] = d
             /\ notices' = [i \in 1..n |-> [what |-> "arrival", device |-> order[i]]]
    BY <2>1
  <2>3. /\ DOMAIN notices' = 1..n
        /\ \A i \in 1..n : notices'[i].what = "arrival" /\ notices'[i].device = order[i]
    BY <2>2
  <2>4. notices' \in Seq(NoticeType)
    <3>1. plugged \subseteq J!Device
      BY <1>4 DEF SlotsTyped
    <3>2. \A i \in 1..n : [what |-> "arrival", device |-> order[i]] \in NoticeType
      BY <3>1 DEF NoticeType
    <3>3. QED
      BY <2>2, <3>2
  <2>5. NoticesOK'
    <3>1. \A i \in DOMAIN notices' : notices'[i].what = "arrival" /\ notices'[i].device \in plugged'
      BY <1>14, <2>2, <2>3
    <3>2. QED
      BY <3>1 DEF NoticesOK
  <2>6. \A d \in plugged : Comes(d, "arrival", 0)'
    BY <2>2, <2>3 DEF Comes
  <2>7. MatchedOK(t)'
    BY <1>10, <1>14, <2>6 DEF MatchedOK, HasSlot, Has
  <2>8. CocoaOK(t)'
    BY <1>9, <1>14, <2>5, <2>7 DEF CocoaOK
  <2>9. RunOK(t)'
    BY <1>3, <1>4, <1>7, <1>11, <1>12, <1>13, <1>14, <1>15, <2>8, GoneOn
  <2>10. js' \in [J!Slot -> JoystickType] /\ skipped' \subseteq plugged
        /\ failures' \in 0..MaxFailures /\ initialized' \in BOOLEAN
    BY <1>3, <1>4 DEF SlotsTyped
  <2>11. QED
    BY <1>3, <1>4, <1>7, <2>4, <2>9, <2>10, NoticedIsSafe
<1>18. QED
  BY <1>16, <1>17

--------------------------------------------------------------------------------
(* Notices *)

LEMMA NoticeTaken ==
  ASSUME SlotsTyped, notices # <<>>, notices' = Tail(notices), NEW n, n = Head(notices)
  PROVE  /\ n \in NoticeType /\ n = notices[1] /\ 1 \in DOMAIN notices
         /\ notices' \in Seq(NoticeType)
         /\ \A i \in DOMAIN notices : i \in Nat /\ i >= 1
         /\ \A i \in DOMAIN notices : i # 1 => i - 1 \in DOMAIN notices' /\ notices'[i - 1] = notices[i]
         /\ \A i \in DOMAIN notices' : /\ i \in Nat /\ i >= 1 /\ i + 1 \in DOMAIN notices
                                     /\ notices'[i] = notices[i + 1]
<1>1. PICK q, r : q = notices /\ r = Tail(q)
  OBVIOUS
<1>2. q \in Seq(NoticeType) /\ q # <<>>
  BY <1>1 DEF SlotsTyped
<1>3. /\ Len(q) \in Nat \ {0} /\ DOMAIN q = 1..Len(q) /\ Head(q) = q[1] /\ q[1] \in NoticeType
      /\ r \in Seq(NoticeType) /\ Len(r) = Len(q) - 1 /\ DOMAIN r = 1..(Len(q) - 1)
      /\ \A i \in 1..(Len(q) - 1) : r[i] = q[i + 1]
  BY <1>1, <1>2
<1>4. QED
  BY <1>1, <1>3

\* What comes after the notice comes still.
LEMMA NoticesShift ==
  ASSUME SlotsTyped, notices # <<>>, notices' = Tail(notices), NEW n, n = Head(notices)
  PROVE  /\ \A i \in Nat : ArrivalAfter(i + 1) => ArrivalAfter(i)'
         /\ ArrivalAfter(0) => n.what = "arrival" \/ ArrivalAfter(0)'
         /\ \A d, what : \A i \in Nat : Comes(d, what, i + 1) => Comes(d, what, i)'
         /\ \A d, what : Comes(d, what, 0) => (n.what = what /\ n.device = d) \/ Comes(d, what, 0)'
<1>1. /\ n = notices[1]
      /\ \A i \in DOMAIN notices : i \in Nat /\ i >= 1
      /\ \A i \in DOMAIN notices : i # 1 => i - 1 \in DOMAIN notices' /\ notices'[i - 1] = notices[i]
  BY NoticeTaken
<1>2. ASSUME NEW i \in Nat, NEW j \in DOMAIN notices, j > i + 1
      PROVE  j - 1 \in DOMAIN notices' /\ j - 1 > i /\ notices'[j - 1] = notices[j]
  BY <1>1, <1>2
<1>3. ASSUME NEW j \in DOMAIN notices, notices[j] # n
      PROVE  j - 1 \in DOMAIN notices' /\ j - 1 > 0 /\ notices'[j - 1] = notices[j]
  BY <1>1, <1>3
<1>4. \A i \in Nat : ArrivalAfter(i + 1) => ArrivalAfter(i)'
  BY <1>2 DEF ArrivalAfter
<1>5. ArrivalAfter(0) => n.what = "arrival" \/ ArrivalAfter(0)'
  BY <1>3 DEF ArrivalAfter
<1>6. \A d, what : \A i \in Nat : Comes(d, what, i + 1) => Comes(d, what, i)'
  BY <1>2 DEF Comes
<1>7. \A d, what : Comes(d, what, 0) => (n.what = what /\ n.device = d) \/ Comes(d, what, 0)'
  BY <1>3 DEF Comes
<1>8. QED
  BY <1>4, <1>5, <1>6, <1>7

LEMMA NoticesStayOK ==
  ASSUME SlotsTyped, notices # <<>>, notices' = Tail(notices), plugged' = plugged, NoticesOK
  PROVE  NoticesOK'
<1>1. /\ \A i \in DOMAIN notices' : /\ i \in Nat /\ i >= 1 /\ i + 1 \in DOMAIN notices
                                 /\ notices'[i] = notices[i + 1]
      /\ \A d, what : \A i \in Nat : Comes(d, what, i + 1) => Comes(d, what, i)'
  BY NoticeTaken, NoticesShift
<1>2. ASSUME NEW i \in DOMAIN notices', NEW d, d = notices'[i].device
      PROVE  /\ notices'[i].what = "arrival" => d \in plugged \/ Comes(d, "removal", i)'
             /\ notices'[i].what = "removal" => d \notin plugged \/ Comes(d, "arrival", i)'
  <2>1. i \in Nat /\ i + 1 \in DOMAIN notices /\ notices'[i] = notices[i + 1]
    BY <1>1
  <2>2. /\ notices[i + 1].what = "arrival" => d \in plugged \/ Comes(d, "removal", i + 1)
        /\ notices[i + 1].what = "removal" => d \notin plugged \/ Comes(d, "arrival", i + 1)
    BY <1>2, <2>1 DEF NoticesOK
  <2>3. QED
    BY <1>1, <2>1, <2>2
<1>3. QED
  BY <1>2 DEF NoticesOK, Comes

LEMMA HandleWin32IsSafe ==
  ASSUME SlotsInv, J!HandleNotice, driver = "win32"
  PROVE  SlotsInv'
<1>1. PICK u, n : u = stack /\ n = Head(notices)
  OBVIOUS
<1>2. PICK fn : fn = IF n.what = "arrival" THEN "detect" ELSE "presence"
  OBVIOUS
<1>3. PICK f : f = J!CallOf(fn, 0)
  OBVIOUS
<1>4. PICK t : t = IF ~initialized THEN <<>> ELSE <<f>>
  OBVIOUS
<1>5. /\ J!Alive /\ u = <<>> /\ notices # <<>> /\ notices' = Tail(notices) /\ stack' = t
      /\ UNCHANGED J!system /\ UNCHANGED <<initialized, js, crash, skipped, failures>>
  BY <1>1, <1>2, <1>3, <1>4 DEF J!HandleNotice, J!Idle, J!Running
<1>6. SlotsTyped /\ RunOK(stack)
  BY <1>5 DEF SlotsInv
<1>7. /\ n \in NoticeType /\ n = notices[1] /\ notices' \in Seq(NoticeType)
      /\ \A i \in DOMAIN notices : i \in Nat /\ i >= 1
      /\ \A i \in DOMAIN notices : i # 1 => i - 1 \in DOMAIN notices' /\ notices'[i - 1] = notices[i]
  BY <1>1, <1>5, <1>6, NoticeTaken
<1>8. n.what \in {"arrival", "removal"}
  BY <1>7 DEF NoticeType
<1>9. /\ \A i \in Nat : ArrivalAfter(i + 1) => ArrivalAfter(i)'
      /\ ArrivalAfter(0) => n.what = "arrival" \/ ArrivalAfter(0)'
  BY <1>1, <1>5, <1>6, NoticesShift
<1>10. /\ plugged' = plugged /\ index' = index /\ driver' = driver /\ js' = js
       /\ skipped' = skipped /\ (xinput' <=> xinput) /\ (initialized' <=> initialized)
  BY <1>5 DEF J!system
<1>11. /\ f \in J!Call /\ f.fn = fn /\ ~f.xinput /\ f.seen.hat = {} /\ f.next = 0 /\ f.tried = {}
       /\ fn \in {"detect", "presence"}
  BY <1>2, <1>3, SlotsAre, PositionsAre, CallIs DEF CallName
<1>12. /\ StartOK(u) /\ ClosingOK(u) /\ DueOK(u) /\ ListedOK(u) /\ SkippedOK
  BY <1>1, <1>6 DEF RunOK, Win32OK
<1>13. \A k \in J!Slot : ~Closing(k) /\ ~Presence(u, k)
  BY <1>5, <1>12 DEF ClosingOK, Presence
<1>14. js' \in [J!Slot -> JoystickType] /\ skipped' \subseteq plugged
       /\ failures' \in 0..MaxFailures /\ initialized' \in BOOLEAN
  BY <1>5, <1>6 DEF SlotsTyped
<1>15. CocoaOK(t)' /\ SkippedOK'
  BY <1>10, <1>12 DEF CocoaOK, SkippedOK, HasSlot, Has, IsListed
<1>16. CASE ~initialized
  <2>1. t = <<>>
    BY <1>4, <1>16
  <2>2. t \in Seq(J!Call) /\ DOMAIN t = {}
    BY <2>1
  <2>3. ~Started(t)' /\ \A k \in J!Slot : js[k] = J!Free /\ ~js[k].connected
    BY <1>5, <1>10, <1>12, <1>16, <2>1, FreeIs DEF StartOK, Started, Starting
  <2>4. CallsOK(t) /\ ClosingOK(t)
    BY <1>13, <2>2 DEF CallsOK, ClosingOK
  <2>5. SamePolls(stack, t)
    BY <1>1, <1>5, <2>1 DEF SamePolls, IsToRead, HaveSeen
  <2>6. StartOK(t)'
    <3>1. skipped = {}
      BY <1>5, <1>12, <1>16 DEF StartOK, Started, Starting
    <3>2. QED
      BY <1>10, <2>1, <2>3, <3>1 DEF StartOK, Starting
  <2>7. Win32OK(t)'
    BY <1>10, <1>15, <2>3 DEF Win32OK, DueOK, ListedOK
  <2>8. RunOK(t)'
    BY <1>5, <1>6, <1>15, <2>2, <2>4, <2>5, <2>6, <2>7, GoneOn
  <2>9. QED
    BY <1>5, <1>6, <1>7, <1>14, <2>2, <2>8, NoticedIsSafe
<1>17. CASE initialized
  <2>1. t = <<f>>
    BY <1>4, <1>17
  <2>2. t \in Seq(J!Call) /\ DOMAIN t = {1} /\ t[1] = f /\ t # <<>>
    BY <1>11, <2>1
  <2>3. CallsOK(t) /\ ClosingOK(t)
    <3>1. f.seen.hat # J!Direction /\ 0 <= NumIndices /\ 0 <= NumSlots
      BY <1>11, PositionsAre, SlotsAre
    <3>2. CallOK(t, 1)
      BY <1>11, <2>2, <3>1 DEF CallOK, Starting
    <3>3. QED
      BY <1>13, <2>2, <3>2 DEF CallsOK, ClosingOK
  <2>4. SamePolls(stack, t)
    BY <1>1, <1>5, <1>11, <2>2 DEF SamePolls, IsToRead, HaveSeen
  <2>5. StartOK(t)' /\ Started(t)' /\ Started(u)
    BY <1>10, <1>11, <1>17, <2>2 DEF StartOK, Started, Starting
  <2>6. ASSUME NEW k \in J!Slot, NEW d, GoesOn(u, k, d)
        PROVE  GoesOn(t, k, d)'
    <3>1. PICK i \in DOMAIN notices :
            notices[i].what = "removal" /\ (d \in plugged => ArrivalAfter(i))
      BY <1>13, <2>6 DEF GoesOn
    <3>2. CASE i = 1
      <4>1. fn = "presence" /\ (d \in plugged => ArrivalAfter(0)')
        BY <1>2, <1>7, <1>9, <3>1, <3>2
      <4>2. Presence(t, k)
        BY <1>11, <2>2, <4>1, SlotsAre DEF Presence
      <4>3. QED
        BY <1>10, <4>1, <4>2 DEF GoesOn, Presence
    <3>3. CASE i # 1
      <4>1. i - 1 \in DOMAIN notices' /\ notices'[i - 1] = notices[i] /\ i - 1 \in Nat
        BY <1>7, <3>3
      <4>2. ArrivalAfter(i) => ArrivalAfter(i - 1)'
        <5>1. i = (i - 1) + 1
          BY <1>7
        <5>2. QED
          BY <1>9, <4>1, <5>1
      <4>3. QED
        BY <1>10, <3>1, <4>1, <4>2 DEF GoesOn
    <3>4. QED
      BY <3>2, <3>3
  <2>7. DueOK(t)'
    <3> SUFFICES ASSUME NEW l \in J!Slot, js'[l].connected
                 PROVE  /\ (js[l].xinput /\ IsEmpty(js[l].index) => GoesOn(t, l, NoDevice))'
                        /\ (~js[l].xinput /\ js[l].lost => GoesOn(t, l, js[l].device))'
      BY DEF DueOK
    <3>1. /\ js[l].xinput /\ IsEmpty(js[l].index) => GoesOn(u, l, NoDevice)
          /\ ~js[l].xinput /\ js[l].lost => GoesOn(u, l, js[l].device)
      BY <1>10, <1>12 DEF DueOK
    <3>2. PICK d : d = js[l].device
      OBVIOUS
    <3>3. /\ js[l].xinput /\ IsEmpty(js[l].index) => GoesOn(t, l, NoDevice)'
          /\ ~js[l].xinput /\ js[l].lost => GoesOn(t, l, d)'
      BY <2>6, <3>1, <3>2
    <3>4. QED
      BY <1>10, <3>2, <3>3 DEF IsEmpty, GoesOn
  <2>8. ListedOK(t)'
    <3>1. CASE n.what = "arrival"
      <4>1. Detection(t) /\ t[1].tried = {} /\ t[1].next = 0
        BY <1>2, <1>11, <2>2, <3>1 DEF Detection
      <4>2. \A p \in plugged' \intersect Pad : 0 <= index'[p]
        <5>1. \A p \in plugged \intersect Pad : index[p] \in J!Index
          BY <1>6 DEF SlotsTyped
        <5>2. \A i \in J!Index : 0 <= i
          BY SlotsAre
        <5>3. QED
          BY <1>10, <5>1, <5>2
      <4>3. QED
        BY <4>1, <4>2 DEF ListedOK, Detection
    <3>2. CASE n.what # "arrival"
      <4>1. ~Detection(u)
        BY <1>5 DEF Detection
      <4>2. /\ \A d \in (plugged \intersect Stick) \ skipped : HasSlot(d) \/ ArrivalAfter(0)
            /\ \A p \in (plugged \intersect Pad) \ skipped :
                 xinput => IsListed(index[p]) \/ ArrivalAfter(0)
        BY <1>12, <2>5, <4>1 DEF ListedOK
      <4>3. ArrivalAfter(0) => ArrivalAfter(0)'
        BY <1>9, <3>2
      <4>4. QED
        BY <1>10, <4>2, <4>3 DEF ListedOK, HasSlot, Has, IsListed
    <3>3. QED
      BY <3>1, <3>2
  <2>9. Win32OK(t)'
    BY <1>15, <2>7, <2>8 DEF Win32OK
  <2>10. RunOK(t)'
    BY <1>5, <1>6, <1>10, <1>15, <2>2, <2>3, <2>4, <2>5, <2>9, GoneOn
  <2>11. QED
    BY <1>5, <1>6, <1>7, <1>14, <2>2, <2>10, NoticedIsSafe
<1>18. QED
  BY <1>16, <1>17

\* A notice of macOS is handled while nothing else is, but for the initialization.
LEMMA CocoaTop ==
  ASSUME SlotsInv, J!HandleNotice, driver = "cocoa", NEW u, u = stack, NEW n, n = Head(notices)
  PROVE  /\ J!Alive /\ SlotsTyped /\ RunOK(stack) /\ u \in Seq(J!Call)
         /\ notices # <<>> /\ notices' = Tail(notices)
         /\ (n.what = "arrival" /\ J!Match(n.device, u)) \/ (n.what = "removal" /\ J!Remove(n.device, u))
         /\ UNCHANGED J!system /\ UNCHANGED <<initialized, skipped, failures>>
         /\ n \in NoticeType /\ n = notices[1] /\ 1 \in DOMAIN notices
         /\ notices' \in Seq(NoticeType)
         /\ Started(u) /\ (Starting(u) => ~initialized) /\ NoPolls(u)
         /\ CallsOK(u) /\ ClosingOK(u) /\ \A k \in J!Slot : ~Closing(k)
         /\ \A k \in J!Slot : SlotOK(k) /\ ~js[k].xinput
         /\ NoticesOK /\ MatchedOK(u) /\ skipped = {} /\ StartOK(u) /\ NoticesOK'
<1>1. PICK f : f = J!Top
  OBVIOUS
<1>2. /\ J!Alive /\ notices # <<>> /\ notices' = Tail(notices)
      /\ u = <<>> \/ (stack # <<>> /\ f.fn = "init")
      /\ UNCHANGED J!system /\ UNCHANGED <<initialized, skipped, failures>>
  BY <1>1 DEF J!HandleNotice, J!Idle, J!Running
<1>3. /\ SlotsTyped /\ RunOK(stack) /\ u \in Seq(J!Call) /\ xinput \in BOOLEAN /\ ~xinput
      /\ js \in [J!Slot -> JoystickType]
  BY <1>2 DEF SlotsInv, SlotsTyped
<1>4. /\ n \in NoticeType /\ n = notices[1] /\ 1 \in DOMAIN notices /\ notices' \in Seq(NoticeType)
  BY <1>2, <1>3, NoticeTaken
<1>5. n.what \in {"arrival", "removal"}
  BY <1>4 DEF NoticeType
<1>6. (n.what = "arrival" /\ J!Match(n.device, u)) \/ (n.what = "removal" /\ J!Remove(n.device, u))
  BY <1>5 DEF J!HandleNotice
<1>7. /\ CallsOK(u) /\ ClosingOK(u) /\ StartOK(u) /\ CocoaOK(u) /\ SlotsOK
  BY <1>3 DEF RunOK
<1>8. Started(u) /\ (Starting(u) => ~initialized)
  BY <1>2, <1>7 DEF StartOK
<1>9. \A i \in DOMAIN u : u[i].fn = "init"
  <2>1. CASE u = <<>>
    BY <2>1
  <2>2. CASE u # <<>>
    <3>1. f.fn = "init"
      BY <1>2, <2>2
    <3>2. DOMAIN u = {1} /\ u[1] = f
      BY <1>1, <1>3, <1>7, <2>2, <3>1, OnlyCall
    <3>3. QED
      BY <3>1, <3>2
  <2>3. QED
    BY <2>1, <2>2
<1>10. NoPolls(u) /\ \A k \in J!Slot : ~Closing(k)
  BY <1>7, <1>9 DEF NoPolls, ClosingOK, Closes
<1>11. \A k \in J!Slot : SlotOK(k) /\ ~js[k].xinput
  BY <1>3, <1>7 DEF SlotsOK, SlotOK
<1>12. NoticesOK /\ MatchedOK(u) /\ skipped = {}
  BY <1>7 DEF CocoaOK
<1>13. NoticesOK'
  <2>1. plugged' = plugged
    BY <1>2 DEF J!system
  <2>2. QED
    BY <1>2, <1>3, <1>12, <2>1, NoticesStayOK
<1>14. QED
  BY <1>2, <1>3, <1>4, <1>6, <1>7, <1>8, <1>10, <1>11, <1>12, <1>13

\* The others are as they were; the device of the notice is as the notice says.
LEMMA HandledOK ==
  ASSUME SlotsInv, J!HandleNotice, driver = "cocoa", NEW u, u = stack,
         NEW n, n = Head(notices), NEW d, d = n.device,
         \A e \in J!Device : e # d => (HasSlot(e)' <=> HasSlot(e)),
         n.what = "arrival" <=> HasSlot(d)'
  PROVE  StartOK(u)' /\ Started(u)' /\ Win32OK(u)' /\ CocoaOK(u)'
<1>1. /\ SlotsTyped /\ notices # <<>> /\ notices' = Tail(notices) /\ n \in NoticeType
      /\ UNCHANGED J!system /\ UNCHANGED <<initialized, skipped, failures>>
      /\ n = notices[1] /\ 1 \in DOMAIN notices
      /\ Started(u) /\ (Starting(u) => ~initialized)
      /\ NoticesOK /\ MatchedOK(u) /\ skipped = {} /\ NoticesOK'
  BY CocoaTop
<1>2. plugged' = plugged /\ driver' = driver /\ n.what \in {"arrival", "removal"}
  BY <1>1 DEF J!system, NoticeType
<1>3. Started(u)' /\ StartOK(u)'
  BY <1>1 DEF StartOK, Started, Starting
<1>4. /\ \A e, what : Comes(e, what, 1) => Comes(e, what, 0)'
      /\ \A e, what : Comes(e, what, 0) => (n.what = what /\ n.device = e) \/ Comes(e, what, 0)'
  <2>1. /\ \A e, what : \A i \in Nat : Comes(e, what, i + 1) => Comes(e, what, i)'
        /\ \A e, what : Comes(e, what, 0) => (n.what = what /\ n.device = e) \/ Comes(e, what, 0)'
    BY <1>1, NoticesShift
  <2>2. 0 + 1 = 1 /\ 0 \in Nat
    OBVIOUS
  <2>3. \A e, what : Comes(e, what, 0 + 1) => Comes(e, what, 0)'
    BY <2>1, <2>2
  <2>4. QED
    BY <2>1, <2>2, <2>3
<1>5. MatchedOK(u)'
  <2> SUFFICES ASSUME NEW e \in J!Device
               PROVE  /\ e \in plugged => HasSlot(e)' \/ Comes(e, "arrival", 0)'
                      /\ HasSlot(e)' => e \in plugged \/ Comes(e, "removal", 0)'
    BY <1>2 DEF MatchedOK
  <2>1. /\ e \in plugged => HasSlot(e) \/ Comes(e, "arrival", 0)
        /\ HasSlot(e) => e \in plugged \/ Comes(e, "removal", 0)
    BY <1>1 DEF MatchedOK
  <2>2. CASE e # d
    BY <1>4, <2>1, <2>2
  <2>3. CASE e = d
    <3>1. /\ n.what = "arrival" => d \in plugged \/ Comes(d, "removal", 1)
          /\ n.what = "removal" => d \notin plugged \/ Comes(d, "arrival", 1)
      BY <1>1 DEF NoticesOK
    <3>2. QED
      BY <1>2, <1>4, <2>3, <3>1
  <2>4. QED
    BY <2>2, <2>3
<1>6. QED
  BY <1>1, <1>2, <1>3, <1>5 DEF Win32OK, CocoaOK

LEMMA MatchIsSafe ==
  ASSUME SlotsInv, J!HandleNotice, driver = "cocoa", NEW u, u = stack,
         NEW n, n = Head(notices), n.what = "arrival"
  PROVE  SlotsInv'
<1>1. PICK d : d = n.device
  OBVIOUS
<1>2. /\ J!Alive /\ SlotsTyped /\ RunOK(stack) /\ u \in Seq(J!Call)
      /\ J!Match(d, u)
      /\ UNCHANGED J!system /\ UNCHANGED <<initialized, skipped, failures>>
      /\ n \in NoticeType /\ n = notices[1] /\ 1 \in DOMAIN notices /\ notices' \in Seq(NoticeType)
      /\ Started(u) /\ (Starting(u) => ~initialized) /\ NoPolls(u)
      /\ CallsOK(u) /\ ClosingOK(u) /\ \A k \in J!Slot : ~Closing(k)
      /\ \A k \in J!Slot : SlotOK(k) /\ ~js[k].xinput
      /\ NoticesOK
  <2>1. n.what # "removal"
    OBVIOUS
  <2>2. QED
    BY <1>1, <2>1, CocoaTop
<1>3. d \in J!Device /\ d # NoDevice
  BY <1>1, <1>2, SlotsAre DEF NoticeType
<1>4. SamePolls(stack, u)
  BY DEF SamePolls
<1>5. js \in [J!Slot -> JoystickType] /\ skipped' \subseteq plugged
      /\ failures' \in 0..MaxFailures /\ initialized' \in BOOLEAN
  BY <1>2 DEF SlotsTyped
<1>6. plugged' = plugged /\ driver' = driver /\ (xinput' <=> xinput) /\ (initialized' <=> initialized)
  BY <1>2 DEF J!system
<1>7. CASE \E k \in J!Slot : js[k].device = d
  <2>1. PICK k \in J!Slot : js[k].device = d
    BY <1>7
  <2>2. js[k].allocated
    BY <1>2, <1>3, <2>1, FreeIs DEF SlotOK
  <2>3. HasSlot(d)
    BY <1>2, <2>1, <2>2 DEF HasSlot, Has, Closing
  <2>4. stack' = u /\ js' = js /\ crash' = crash
    BY <1>2, <1>7 DEF J!Match
  <2>5. \A e : HasSlot(e)' <=> HasSlot(e)
    BY <2>4 DEF HasSlot, Has
  <2>6. StartOK(u)' /\ Win32OK(u)' /\ CocoaOK(u)'
    BY <1>1, <2>3, <2>5, HandledOK
  <2>7. RunOK(u)'
    BY <1>2, <1>4, <2>4, <2>6, GoneOn
  <2>8. QED
    BY <1>2, <1>5, <2>4, <2>7, NoticedIsSafe
<1>8. CASE (\A k \in J!Slot : js[k].device # d) /\ ~J!HasSlot
  <2>1. crash' = "no slot" /\ js' = js /\ stack' = stack
    BY <1>2, <1>8 DEF J!Match
  <2>2. ~J!HasSlot'
    BY <1>8, <2>1 DEF J!HasSlot
  <2>3. CrashOK' /\ ~J!Alive'
    BY <1>6, <2>1, <2>2 DEF CrashOK, J!Alive
  <2>4. SlotsTyped'
    BY <1>2, <2>1 DEF SlotsTyped, J!system
  <2>5. QED
    BY <2>3, <2>4 DEF SlotsInv
<1>9. CASE (\A k \in J!Slot : js[k].device # d) /\ J!HasSlot
  <2>1. PICK gone \in BOOLEAN : gone = ([what |-> "removal", device |-> d] \in J!Noticed)
    <3>1. ([what |-> "removal", device |-> d] \in J!Noticed) \in BOOLEAN
      OBVIOUS
    <3>2. QED
      BY <3>1
  <2>2. /\ crash' = crash
        /\ \E range \in {<<1, 1>>, <<0, 2>>} : J!List(MatchedAs(d, gone, range[1], range[2]), u)
    BY <1>2, <1>9, <2>1 DEF J!Match, MatchedAs
  <2>3. PICK range \in {<<1, 1>>, <<0, 2>>} : J!List(MatchedAs(d, gone, range[1], range[2]), u)
    BY <2>2
  <2>4. PICK low, high : low = range[1] /\ high = range[2]
    OBVIOUS
  <2>5. low \in 0..2 /\ high \in 0..2
    BY <2>4
  <2>6. PICK j : j = MatchedAs(d, gone, low, high)
    OBVIOUS
  <2>7. /\ j \in JoystickType /\ j.allocated /\ j.connected /\ ~j.xinput /\ j.device = d
        /\ j.lost = gone /\ j.axis = <<1, 2>> /\ j.stale
    BY <1>3, <2>6, <2>5, NewMatched
  <2>8. J!List(j, u)
    BY <2>3, <2>6, <2>4
  <2>9. /\ J!Tell(TRUE, u) /\ js' \in [J!Slot -> JoystickType]
        /\ \E k \in J!Slot : /\ ~js[k].allocated /\ js'[k] = j
                             /\ \A l \in J!Slot : l # k => js'[l] = js[l]
    BY <1>2, <1>9, <2>7, <2>8, ListIs
  <2>10. PICK k \in J!Slot : /\ ~js[k].allocated /\ js'[k] = j
                            /\ \A l \in J!Slot : l # k => js'[l] = js[l]
    BY <2>9
  <2>11. ~js[k].connected
    BY <1>2, <2>10 DEF SlotOK
  <2>12. d \notin plugged => gone
    <3>1. d \notin plugged => Comes(d, "removal", 1)
      BY <1>1, <1>2 DEF NoticesOK
    <3>2. ASSUME NEW i \in DOMAIN notices, notices[i].what = "removal", notices[i].device = d
          PROVE  gone
      <4>1. notices[i] \in NoticeType
        <5>1. notices \in Seq(NoticeType)
          BY <1>2 DEF SlotsTyped
        <5>2. QED
          BY <5>1
      <4>2. notices[i] = [what |-> "removal", device |-> d]
        BY <3>2, <4>1 DEF NoticeType
      <4>3. QED
        BY <2>1, <4>2 DEF J!Noticed
    <3>3. QED
      BY <3>1, <3>2 DEF Comes
  <2>13. SlotOK(k)'
    BY <1>3, <1>6, <2>7, <2>10, <2>12 DEF SlotOK
  <2>14. HasSlot(d)' /\ \A e : e # d => (HasSlot(e)' <=> HasSlot(e))
    BY <2>7, <2>10, <2>11 DEF HasSlot, Has
  <2>15. StartOK(u)' /\ Started(u)' /\ Win32OK(u)' /\ CocoaOK(u)'
    BY <1>1, <2>14, HandledOK
  <2>16. NewTo(k, j)
    BY <1>9, <2>7 DEF NewTo
  <2>17. RunOK(u)'
    BY <1>2, <1>4, <2>7, <2>9, <2>10, <2>13, <2>15, <2>16, NewlyListed
  <2>18. Starting(stack) <=> Starting(u)
    OBVIOUS
  <2>19. QED
    BY <1>2, <1>5, <2>2, <2>9, <2>15, <2>17, <2>18, ReturnIsSafe
<1>10. QED
  BY <1>7, <1>8, <1>9

LEMMA RemoveIsSafe ==
  ASSUME SlotsInv, J!HandleNotice, driver = "cocoa", NEW u, u = stack,
         NEW n, n = Head(notices), n.what = "removal"
  PROVE  SlotsInv'
<1>1. PICK d : d = n.device
  OBVIOUS
<1>2. /\ J!Alive /\ SlotsTyped /\ RunOK(stack) /\ u \in Seq(J!Call)
      /\ J!Remove(d, u)
      /\ UNCHANGED J!system /\ UNCHANGED <<initialized, skipped, failures>>
      /\ notices' \in Seq(NoticeType)
      /\ Started(u) /\ (Starting(u) => ~initialized) /\ NoPolls(u)
      /\ CallsOK(u) /\ ClosingOK(u) /\ \A k \in J!Slot : ~Closing(k)
      /\ \A k \in J!Slot : SlotOK(k) /\ ~js[k].xinput
  <2>1. n.what # "arrival"
    OBVIOUS
  <2>2. QED
    BY <1>1, <2>1, CocoaTop
<1>3. crash' = crash
  BY <1>2 DEF J!Remove
<1>4. SamePolls(stack, u)
  BY DEF SamePolls
<1>5. js \in [J!Slot -> JoystickType] /\ skipped' \subseteq plugged
      /\ failures' \in 0..MaxFailures /\ initialized' \in BOOLEAN
  BY <1>2 DEF SlotsTyped
<1>6. CASE J!SlotsWith(d) = {}
  <2>1. stack' = u /\ js' = js
    BY <1>2, <1>6 DEF J!Remove
  <2>2. ~HasSlot(d)' /\ \A e : HasSlot(e)' <=> HasSlot(e)
    BY <1>6, <2>1 DEF HasSlot, Has, J!SlotsWith
  <2>3. StartOK(u)' /\ Win32OK(u)' /\ CocoaOK(u)'
    BY <1>1, <2>2, HandledOK
  <2>4. RunOK(u)'
    BY <1>2, <1>4, <2>1, <2>3, GoneOn
  <2>5. QED
    BY <1>2, <1>3, <1>5, <2>1, <2>4, NoticedIsSafe
<1>7. CASE J!SlotsWith(d) # {}
  <2>1. PICK k \in J!SlotsWith(d) : J!BeginClose(k, u)
    BY <1>2, <1>7 DEF J!Remove
  <2>2. k \in J!Slot /\ Has(k, d)
    BY <2>1 DEF J!SlotsWith, Has
  <2>3. ClosedAs(k) /\ J!Tell(TRUE, Append(u, J!CallOf("close", k)))
    BY <1>2, <2>1, <2>2, BeginCloseIs
  <2>4. ~HasSlot(d)' /\ \A e : e # d => (HasSlot(e)' <=> HasSlot(e))
    <3>1. SlotsApart
      BY <1>2 DEF RunOK
    <3>2. \A l \in J!Slot : Has(l, d) => l = k
      BY <2>2, <3>1 DEF SlotsApart, Alike, Has
    <3>3. ~HasSlot(d)'
      BY <2>3, <3>2 DEF ClosedAs, HasSlot, Has
    <3>4. \A e : e # d => (HasSlot(e)' <=> HasSlot(e))
      BY <2>2, <2>3 DEF ClosedAs, HasSlot, Has
    <3>5. QED
      BY <3>3, <3>4
  <2>5. StartOK(u)' /\ Started(u)' /\ Win32OK(u)' /\ CocoaOK(u)'
    BY <1>1, <2>4, HandledOK
  <2>6. PICK v : v = Append(u, J!CallOf("close", k))
    OBVIOUS
  <2>7. js[k].connected
    BY <2>2 DEF Has
  <2>8. v \in Seq(J!Call) /\ RunOK(v)' /\ SameWork(u, v)
    BY <1>2, <1>4, <2>2, <2>3, <2>5, <2>6, <2>7, ClosedOK
  <2>9. (Starting(stack) <=> Starting(v)) /\ Started(v)'
    BY <2>5, <2>8 DEF SameWork, Started, Starting
  <2>10. js' \in [J!Slot -> JoystickType] /\ J!Tell(TRUE, v)
    BY <2>3, <2>6 DEF ClosedAs
  <2>11. QED
    BY <1>2, <1>3, <1>5, <2>8, <2>9, <2>10, ReturnIsSafe
<1>8. QED
  BY <1>6, <1>7

LEMMA HandleNoticeIsSafe ==
  ASSUME SlotsInv, J!HandleNotice
  PROVE  SlotsInv'
<1>1. driver \in {"win32", "cocoa"}
  BY SlotsAre DEF SlotsInv, SlotsTyped
<1>2. CASE driver = "win32"
  BY <1>2, HandleWin32IsSafe
<1>3. CASE driver = "cocoa"
  <2>1. PICK n : n = Head(notices)
    OBVIOUS
  <2>2. n.what \in {"arrival", "removal"}
    BY <1>3, <2>1, CocoaTop DEF NoticeType
  <2>3. QED
    BY <1>3, <2>1, <2>2, MatchIsSafe, RemoveIsSafe
<1>4. QED
  BY <1>1, <1>2, <1>3

--------------------------------------------------------------------------------
(* Devices come, go and move *)

\* What a device does may be news to the slot that it is read through.
HardwareAs ==
    /\ js' \in [J!Slot -> JoystickType]
    /\ \A k \in J!Slot :
         /\ ~js[k].allocated => js'[k] = js[k]
         /\ js'[k].allocated = js[k].allocated /\ js'[k].connected = js[k].connected
         /\ js'[k].xinput = js[k].xinput /\ js'[k].index = js[k].index
         /\ js'[k].device = js[k].device /\ js'[k].axis = js[k].axis
         /\ js'[k].button = js[k].button /\ js'[k].hat = js[k].hat
         /\ js'[k].low = js[k].low /\ js'[k].high = js[k].high
         /\ js[k].stale => js'[k].stale

LEMMA Restaled ==
  ASSUME NEW x \in JoystickType, NEW b \in BOOLEAN, b = TRUE, NEW y, y = [x EXCEPT !.stale = b]
  PROVE  /\ y \in JoystickType /\ y.allocated = x.allocated /\ y.connected = x.connected
         /\ y.xinput = x.xinput /\ y.index = x.index /\ y.device = x.device
         /\ y.axis = x.axis /\ y.button = x.button /\ y.hat = x.hat
         /\ y.low = x.low /\ y.high = x.high /\ y.stale /\ y.lost = x.lost
<1>1. y \in JoystickType
  BY DEF JoystickType
<1>2. y.index = x.index /\ y.device = x.device /\ y.axis = x.axis
  BY DEF JoystickType
<1>3. y.button = x.button /\ y.hat = x.hat /\ y.low = x.low /\ y.high = x.high
  BY DEF JoystickType
<1>4. y.allocated = x.allocated /\ y.connected = x.connected
  BY DEF JoystickType
<1>5. y.xinput = x.xinput /\ y.lost = x.lost
  BY DEF JoystickType
<1>6. y.stale
  BY DEF JoystickType
<1>7. QED
  BY <1>1, <1>2, <1>3, <1>4, <1>5, <1>6

LEMMA LostIs ==
  ASSUME NEW x \in JoystickType, NEW b \in BOOLEAN, b = TRUE, NEW y,
         y = [x EXCEPT !.lost = b, !.stale = b]
  PROVE  /\ y \in JoystickType /\ y.allocated = x.allocated /\ y.connected = x.connected
         /\ y.xinput = x.xinput /\ y.index = x.index /\ y.device = x.device
         /\ y.axis = x.axis /\ y.button = x.button /\ y.hat = x.hat
         /\ y.low = x.low /\ y.high = x.high /\ y.stale /\ y.lost
<1>1. y \in JoystickType
  BY DEF JoystickType
<1>2. y.index = x.index /\ y.device = x.device /\ y.axis = x.axis
  BY DEF JoystickType
<1>3. y.button = x.button /\ y.hat = x.hat /\ y.low = x.low /\ y.high = x.high
  BY DEF JoystickType
<1>4. y.allocated = x.allocated /\ y.connected = x.connected
  BY DEF JoystickType
<1>5. y.xinput = x.xinput
  BY DEF JoystickType
<1>6. y.stale /\ y.lost
  BY DEF JoystickType
<1>7. QED
  BY <1>1, <1>2, <1>3, <1>4, <1>5, <1>6

\* The slots that P is of are stale, and no other changes.
LEMMA StaleAs ==
  ASSUME SlotsTyped, NEW P \in SUBSET J!Slot, \A k \in P : js[k].allocated,
         js' = [k \in J!Slot |-> IF k \in P THEN [js[k] EXCEPT !.stale = TRUE] ELSE js[k]]
  PROVE  HardwareAs /\ \A k \in J!Slot : js'[k].lost = js[k].lost /\ (k \in P => js'[k].stale)
                                         /\ (k \notin P => js'[k] = js[k])
<1>1. PICK b \in BOOLEAN : b = TRUE
  OBVIOUS
<1>2. js \in [J!Slot -> JoystickType]
  BY DEF SlotsTyped
<1>3. ASSUME NEW k \in J!Slot
      PROVE  /\ js'[k] \in JoystickType
             /\ ~js[k].allocated => js'[k] = js[k]
             /\ js'[k].allocated = js[k].allocated /\ js'[k].connected = js[k].connected
             /\ js'[k].xinput = js[k].xinput /\ js'[k].index = js[k].index
             /\ js'[k].device = js[k].device /\ js'[k].axis = js[k].axis
             /\ js'[k].button = js[k].button /\ js'[k].hat = js[k].hat
             /\ js'[k].low = js[k].low /\ js'[k].high = js[k].high
             /\ js[k].stale => js'[k].stale
             /\ js'[k].lost = js[k].lost /\ (k \in P => js'[k].stale)
             /\ (k \notin P => js'[k] = js[k])
  <2>1. PICK x, y : x = js[k] /\ y = js'[k]
    OBVIOUS
  <2>2. x \in JoystickType
    BY <1>2, <2>1
  <2>3. CASE k \in P
    <3>1. y = [x EXCEPT !.stale = b]
      BY <1>1, <2>1, <2>3
    <3>2. /\ y \in JoystickType /\ y.allocated = x.allocated /\ y.connected = x.connected
          /\ y.xinput = x.xinput /\ y.index = x.index /\ y.device = x.device
          /\ y.axis = x.axis /\ y.button = x.button /\ y.hat = x.hat
          /\ y.low = x.low /\ y.high = x.high /\ y.stale /\ y.lost = x.lost
      BY <1>1, <2>2, <3>1, Restaled
    <3>3. QED
      BY <2>1, <2>3, <3>2
  <2>4. CASE k \notin P
    <3>1. y = x
      BY <2>1, <2>4
    <3>2. QED
      BY <2>1, <2>2, <2>4, <3>1
  <2>5. QED
    BY <2>3, <2>4
<1>4. js' \in [J!Slot -> JoystickType]
  BY <1>3
<1>5. QED
  BY <1>3, <1>4 DEF HardwareAs

LEMMA LostAs ==
  ASSUME SlotsTyped, SlotsOK, NEW d \in J!Device,
         js' = [k \in J!Slot |-> IF js[k].device = d
                                 THEN [js[k] EXCEPT !.lost = TRUE, !.stale = TRUE] ELSE js[k]]
  PROVE  HardwareAs /\ \A k \in J!Slot : /\ js[k].device = d => js'[k].stale /\ js'[k].lost
                                         /\ js[k].device # d => js'[k] = js[k]
<1>1. PICK b \in BOOLEAN : b = TRUE
  OBVIOUS
<1>2. js \in [J!Slot -> JoystickType] /\ d # NoDevice
  BY SlotsAre DEF SlotsTyped
<1>3. ASSUME NEW k \in J!Slot
      PROVE  /\ js'[k] \in JoystickType
             /\ ~js[k].allocated => js'[k] = js[k]
             /\ js'[k].allocated = js[k].allocated /\ js'[k].connected = js[k].connected
             /\ js'[k].xinput = js[k].xinput /\ js'[k].index = js[k].index
             /\ js'[k].device = js[k].device /\ js'[k].axis = js[k].axis
             /\ js'[k].button = js[k].button /\ js'[k].hat = js[k].hat
             /\ js'[k].low = js[k].low /\ js'[k].high = js[k].high
             /\ js[k].stale => js'[k].stale
             /\ js[k].device = d => js'[k].stale /\ js'[k].lost
             /\ js[k].device # d => js'[k] = js[k]
  <2>1. PICK x, y : x = js[k] /\ y = js'[k]
    OBVIOUS
  <2>2. x \in JoystickType
    BY <1>2, <2>1
  <2>3. CASE js[k].device = d
    <3>1. y = [x EXCEPT !.lost = b, !.stale = b]
      BY <1>1, <2>1, <2>3
    <3>2. /\ y \in JoystickType /\ y.allocated = x.allocated /\ y.connected = x.connected
          /\ y.xinput = x.xinput /\ y.index = x.index /\ y.device = x.device
          /\ y.axis = x.axis /\ y.button = x.button /\ y.hat = x.hat
          /\ y.low = x.low /\ y.high = x.high /\ y.stale /\ y.lost
      BY <1>1, <2>2, <3>1, LostIs
    <3>3. js[k].allocated
      BY <1>2, <2>3, FreeIs DEF SlotsOK, SlotOK
    <3>4. QED
      BY <2>1, <2>3, <3>2, <3>3
  <2>4. CASE js[k].device # d
    <3>1. y = x
      BY <2>1, <2>4
    <3>2. QED
      BY <2>1, <2>2, <2>4, <3>1
  <2>5. QED
    BY <2>3, <2>4
<1>4. js' \in [J!Slot -> JoystickType]
  BY <1>3
<1>5. QED
  BY <1>3, <1>4 DEF HardwareAs

\* What the slots and the calls are is not what the devices change.
LEMMA HardwareOK ==
  ASSUME SlotsTyped, RunOK(stack), HardwareAs, NEW u, u = stack,
         driver' = driver, xinput' = xinput, initialized' = initialized
  PROVE  /\ SlotsApart' /\ CallsOK(u)' /\ ClosingOK(u)'
         /\ Started(u)' <=> Started(u)
         /\ \A d : HasSlot(d)' <=> HasSlot(d)
         /\ \A i : IsListed(i)' <=> IsListed(i)
<1>1. /\ SlotsApart /\ CallsOK(u) /\ ClosingOK(u) /\ u \in Seq(J!Call)
  BY DEF RunOK, SlotsTyped
<1>2. \A k \in J!Slot : Closing(k)' <=> Closing(k)
  BY DEF Closing, HardwareAs
<1>3. SlotsApart'
  BY <1>1 DEF SlotsApart, Alike, HardwareAs
<1>4. CallsOK(u)'
  <2> SUFFICES ASSUME NEW i \in DOMAIN u
               PROVE  CallOK(u, i)'
    BY DEF CallsOK
  <2>1. CallOK(u, i) /\ u[i].slot \in J!Slot
    BY <1>1, StackHas, CallHas DEF CallsOK
  <2>2. u[i].fn = "close" => Closing(u[i].slot)'
    BY <1>2, <2>1 DEF CallOK
  <2>3. QED
    BY <2>1, <2>2 DEF CallOK, Starting
<1>5. ClosingOK(u)'
  BY <1>1, <1>2 DEF ClosingOK, Closes
<1>6. Started(u)' <=> Started(u)
  BY DEF Started, Starting
<1>7. \A d : HasSlot(d)' <=> HasSlot(d)
  BY DEF HasSlot, Has, HardwareAs
<1>8. \A i : IsListed(i)' <=> IsListed(i)
  BY DEF IsListed, HardwareAs
<1>9. QED
  BY <1>3, <1>4, <1>5, <1>6, <1>7, <1>8

\* A device that did not move, and that nobody says moved, is reported as it was.
LEMMA SameReport ==
  ASSUME HardwareAs, NEW u, NEW k \in J!Slot, NEW d, ReportOK(u, k, d), at'[d] = at[d],
         driver' = driver
  PROVE  ReportOK(u, k, d)'
<1>1. PICK p : p = at[d]
  OBVIOUS
<1>2. /\ J!Same(js[k].axis, J!AxisValue(<<js[k].low, js[k].high>>, p.axis)) \/ IsToRead(u, k, 0)
      /\ js[k].button = p.button \/ IsToRead(u, k, 1)
      /\ js[k].hat = p.hat \/ IsToRead(u, k, 2)
      /\ driver = "win32" => HaveSeen(u, k, p)
  BY <1>1 DEF ReportOK, AxisAgrees
<1>3. /\ js'[k].axis = js[k].axis /\ js'[k].low = js[k].low /\ js'[k].high = js[k].high
      /\ js'[k].button = js[k].button /\ js'[k].hat = js[k].hat /\ at'[d] = p
  BY <1>1 DEF HardwareAs
<1>4. AxisAgrees(k, d)' \/ IsToRead(u, k, 0)
  BY <1>2, <1>3 DEF AxisAgrees, J!Same, J!AxisValue
<1>5. QED
  BY <1>2, <1>3, <1>4 DEF ReportOK, IsToRead, HaveSeen

LEMMA MovedIsSafe ==
  ASSUME J!Alive, crash' = crash, SlotsTyped', NEW u, u = stack', RunOK(u)'
  PROVE  SlotsInv'
<1>1. RunOK(stack)'
  BY StackIs
<1>2. QED
  BY <1>1 DEF SlotsInv, CrashOK, J!Alive

LEMMA MoveIsSafe ==
  ASSUME SlotsInv, NEW d \in J!Device, J!Move(d)
  PROVE  SlotsInv'
<1>1. PICK u, P : u = stack /\ P = {k \in J!Slot : J!Reads(k, d)}
  OBVIOUS
<1>2. /\ J!Alive /\ d \in plugged /\ moves < MaxMoves /\ moves' = moves + 1
      /\ \E p \in PadPosition : (p.hat = J!Direction => xinput) /\ at' = [at EXCEPT ![d] = p]
      /\ js' = [k \in J!Slot |-> IF J!Reads(k, d) THEN [js[k] EXCEPT !.stale = TRUE] ELSE js[k]]
      /\ UNCHANGED <<driver, xinput, plugged, index, plugs, notices, initialized, stack,
                     crash, skipped, failures>>
  BY DEF J!Move
<1>3. SlotsTyped /\ RunOK(stack)
  BY <1>2 DEF SlotsInv
<1>4. /\ PadsOK /\ SlotsOK /\ StartOK(u) /\ Win32OK(u) /\ CocoaOK(u) /\ ReportsOK(u)
  BY <1>1, <1>3 DEF RunOK
<1>5. HardwareAs /\ \A k \in J!Slot : /\ js'[k].lost = js[k].lost
                                      /\ J!Reads(k, d) => js'[k].stale
                                      /\ ~J!Reads(k, d) => js'[k] = js[k]
  <2>1. js' = [k \in J!Slot |-> IF k \in P THEN [js[k] EXCEPT !.stale = TRUE] ELSE js[k]]
    BY <1>1, <1>2
  <2>2. \A k \in P : js[k].allocated
    BY <1>1, <1>4 DEF SlotsOK, SlotOK, J!Reads
  <2>3. P \in SUBSET J!Slot
    BY <1>1
  <2>4. /\ HardwareAs
        /\ \A k \in J!Slot : /\ js'[k].lost = js[k].lost /\ (k \in P => js'[k].stale)
                             /\ (k \notin P => js'[k] = js[k])
    BY <1>3, <2>1, <2>2, <2>3, StaleAs
  <2>5. QED
    BY <1>1, <2>4
<1>6. /\ SlotsApart' /\ CallsOK(u)' /\ ClosingOK(u)' /\ (Started(u)' <=> Started(u))
      /\ \A e : HasSlot(e)' <=> HasSlot(e)
      /\ \A i : IsListed(i)' <=> IsListed(i)
  BY <1>1, <1>2, <1>3, <1>5, HardwareOK
<1>7. PICK p \in PadPosition : (p.hat = J!Direction => xinput) /\ at' = [at EXCEPT ![d] = p]
  BY <1>2
<1>8. at \in [J!Device -> PadPosition] /\ \A e \in J!Device : e # d => at'[e] = at[e]
  BY <1>3, <1>7 DEF SlotsTyped
<1>9. PadsOK'
  BY <1>2, <1>4, <1>7, <1>8 DEF PadsOK
<1>10. SlotsOK'
  <2> SUFFICES ASSUME NEW k \in J!Slot
               PROVE  SlotOK(k)'
    BY DEF SlotsOK
  <2>1. SlotOK(k)
    BY <1>4 DEF SlotsOK
  <2>2. QED
    BY <1>2, <1>5, <2>1 DEF SlotOK, HardwareAs
<1>11. StartOK(u)'
  <2>1. \A k \in J!Slot : js[k] = J!Free => js'[k] = J!Free
    BY <1>5, FreeIs DEF HardwareAs
  <2>2. QED
    BY <1>2, <1>4, <1>6, <2>1 DEF StartOK, Starting
<1>12. Win32OK(u)'
  <2>1. \A k, e : GoesOn(u, k, e)' <=> GoesOn(u, k, e)
    BY <1>2 DEF GoesOn, Presence, ArrivalAfter
  <2>2. \A i : IsEmpty(i)' <=> IsEmpty(i)
    BY <1>2 DEF IsEmpty
  <2>3. DueOK(u) => DueOK(u)'
    BY <1>5, <2>1, <2>2 DEF DueOK, HardwareAs
  <2>4. ListedOK(u) => ListedOK(u)'
    BY <1>2, <1>6 DEF ListedOK, ArrivalAfter, Detection
  <2>5. SkippedOK => SkippedOK'
    BY <1>2, <1>6 DEF SkippedOK
  <2>6. QED
    BY <1>2, <1>4, <2>3, <2>4, <2>5 DEF Win32OK
<1>13. CocoaOK(u)'
  <2>1. NoticesOK => NoticesOK'
    BY <1>2 DEF NoticesOK, Comes
  <2>2. MatchedOK(u) => MatchedOK(u)'
    BY <1>2, <1>6 DEF MatchedOK, Comes
  <2>3. QED
    BY <1>2, <1>4, <2>1, <2>2 DEF CocoaOK
<1>14. ReportsOK(u)'
  <2> SUFFICES ASSUME NEW k \in J!Slot, NEW e \in plugged', J!Reads(k, e)', ~js'[k].stale
               PROVE  ReportOK(u, k, e)'
    BY DEF ReportsOK
  <2>1. J!Reads(k, e) /\ ~js[k].stale /\ e \in plugged
    BY <1>2, <1>5 DEF J!Reads, HardwareAs
  <2>2. e # d
    BY <1>5, <2>1
  <2>3. ReportOK(u, k, e)
    BY <1>4, <2>1 DEF ReportsOK
  <2>4. e \in J!Device
    BY <1>3, <2>1 DEF SlotsTyped
  <2>5. QED
    BY <1>2, <1>5, <1>8, <2>2, <2>3, <2>4, SameReport
<1>15. RunOK(u)'
  BY <1>6, <1>9, <1>10, <1>11, <1>12, <1>13, <1>14 DEF RunOK
<1>16. SlotsTyped'
  <2>1. at' \in [J!Device -> PadPosition] /\ js' \in [J!Slot -> JoystickType]
    BY <1>5, <1>7, <1>8 DEF HardwareAs
  <2>2. moves' \in 0..MaxMoves
    <3>1. moves \in 0..MaxMoves
      BY <1>3 DEF SlotsTyped
    <3>2. QED
      BY <1>2, <3>1, BoundsAre
  <2>3. QED
    BY <1>2, <1>3, <2>1, <2>2 DEF SlotsTyped
<1>17. QED
  BY <1>1, <1>2, <1>15, <1>16, MovedIsSafe

\* A notice is the last one.
LEMMA NoticeAdded ==
  ASSUME SlotsTyped, NEW r \in NoticeType, notices' = Append(notices, r),
         NEW m, m = Len(notices) + 1
  PROVE  /\ notices' \in Seq(NoticeType) /\ m \in Nat /\ m \in DOMAIN notices' /\ notices'[m] = r
         /\ \A i \in DOMAIN notices : /\ i \in Nat /\ 0 < i /\ i < m /\ i \in DOMAIN notices'
                                      /\ notices'[i] = notices[i]
         /\ \A i \in DOMAIN notices' : i \in DOMAIN notices \/ i = m
         /\ \A i : ArrivalAfter(i) => ArrivalAfter(i)'
         /\ \A e, what, i : Comes(e, what, i) => Comes(e, what, i)'
         /\ \A i \in DOMAIN notices \union {0} :
              /\ r.what = "arrival" => ArrivalAfter(i)'
              /\ Comes(r.device, r.what, i)'
<1>1. PICK q, t : q = notices /\ t = Append(q, r)
  OBVIOUS
<1>2. q \in Seq(NoticeType) /\ notices' = t
  BY <1>1 DEF SlotsTyped
<1>3. /\ t \in Seq(NoticeType) /\ DOMAIN q = 1..Len(q) /\ DOMAIN t = 1..(Len(q) + 1) /\ Len(q) \in Nat
      /\ \A i \in DOMAIN q : t[i] = q[i]
      /\ t[Len(q) + 1] = r
  BY <1>1, <1>2
<1>4. /\ notices' \in Seq(NoticeType) /\ m \in Nat /\ 0 < m /\ m \in DOMAIN notices' /\ notices'[m] = r
      /\ \A i \in DOMAIN notices : /\ i \in Nat /\ 0 < i /\ i < m /\ i \in DOMAIN notices'
                                   /\ notices'[i] = notices[i]
      /\ \A i \in DOMAIN notices' : i \in DOMAIN notices \/ i = m
  BY <1>1, <1>2, <1>3
<1>5. /\ \A i : ArrivalAfter(i) => ArrivalAfter(i)'
      /\ \A e, what, i : Comes(e, what, i) => Comes(e, what, i)'
  BY <1>4 DEF ArrivalAfter, Comes
<1>6. \A i \in DOMAIN notices \union {0} :
        /\ r.what = "arrival" => ArrivalAfter(i)'
        /\ Comes(r.device, r.what, i)'
  BY <1>4 DEF ArrivalAfter, Comes
<1>7. QED
  BY <1>4, <1>5, <1>6

\* Nobody is told while nothing runs on macOS.
LEMMA Notified ==
  ASSUME SlotsTyped, RunOK(stack), NEW u, u = stack, NEW what \in {"arrival", "removal"},
         NEW d \in J!Device, J!Notify(what, d), NEW r, r = [what |-> what, device |-> d]
  PROVE  /\ r \in NoticeType /\ r.what = what /\ r.device = d
         /\ \/ notices' = Append(notices, r)
            \/ driver = "cocoa" /\ ~Started(u) /\ notices' = <<>>
         /\ driver = "cocoa" /\ ~Started(u) => notices' = <<>>
         /\ notices' \in Seq(NoticeType)
<1>1. StartOK(u)
  BY DEF RunOK
<1>2. r \in NoticeType /\ r.what = what /\ r.device = d
  BY DEF NoticeType
<1>3. CASE driver = "cocoa" /\ ~initialized /\ stack = <<>>
  <2>1. notices' = notices
    BY <1>3 DEF J!Notify
  <2>2. ~Started(u)
    BY <1>3 DEF Started, Starting
  <2>3. notices = <<>>
    BY <1>1, <1>3, <2>2 DEF StartOK
  <2>4. <<>> \in Seq(NoticeType)
    OBVIOUS
  <2>5. QED
    BY <1>2, <1>3, <2>1, <2>2, <2>3, <2>4
<1>4. CASE ~(driver = "cocoa" /\ ~initialized /\ stack = <<>>)
  <2>1. notices' = Append(notices, r)
    BY <1>4 DEF J!Notify
  <2>2. ~(driver = "cocoa" /\ ~Started(u))
    BY <1>1, <1>4 DEF StartOK, Started
  <2>3. notices' \in Seq(NoticeType)
    <3>1. notices \in Seq(NoticeType)
      BY DEF SlotsTyped
    <3>2. QED
      BY <1>2, <2>1, <3>1
  <2>4. QED
    BY <1>2, <2>1, <2>2, <2>3
<1>5. QED
  BY <1>3, <1>4

LEMMA UnplugIsSafe ==
  ASSUME SlotsInv, NEW d \in J!Device, J!Unplug(d)
  PROVE  SlotsInv'
<1>1. PICK u, r, m : u = stack /\ r = [what |-> "removal", device |-> d] /\ m = Len(notices) + 1
  OBVIOUS
<1>2. /\ J!Alive /\ d \in plugged /\ plugged' = plugged \ {d} /\ skipped' = skipped \ {d}
      /\ js' = [k \in J!Slot |-> IF js[k].device = d
                                 THEN [js[k] EXCEPT !.lost = TRUE, !.stale = TRUE] ELSE js[k]]
      /\ J!Notify("removal", d)
      /\ UNCHANGED <<driver, xinput, index, at, plugs, moves, initialized, stack, crash,
                     failures>>
  BY DEF J!Unplug
<1>3. SlotsTyped /\ RunOK(stack)
  BY <1>2 DEF SlotsInv
<1>4. /\ PadsOK /\ SlotsOK /\ StartOK(u) /\ Win32OK(u) /\ CocoaOK(u) /\ ReportsOK(u)
  BY <1>1, <1>3 DEF RunOK
<1>5. HardwareAs /\ \A k \in J!Slot : /\ js[k].device = d => js'[k].stale /\ js'[k].lost
                                      /\ js[k].device # d => js'[k] = js[k]
  BY <1>2, <1>3, <1>4, LostAs
<1>6. /\ SlotsApart' /\ CallsOK(u)' /\ ClosingOK(u)' /\ (Started(u)' <=> Started(u))
      /\ \A e : HasSlot(e)' <=> HasSlot(e)
      /\ \A i : IsListed(i)' <=> IsListed(i)
  BY <1>1, <1>2, <1>3, <1>5, HardwareOK
<1>7. /\ r \in NoticeType /\ r.what = "removal" /\ r.device = d
      /\ \/ notices' = Append(notices, r)
         \/ driver = "cocoa" /\ ~Started(u) /\ notices' = <<>>
      /\ driver = "cocoa" /\ ~Started(u) => notices' = <<>>
      /\ notices' \in Seq(NoticeType)
  <2>1. PICK what \in {"arrival", "removal"} : what = "removal"
    OBVIOUS
  <2>2. J!Notify(what, d) /\ r = [what |-> what, device |-> d]
    BY <1>1, <1>2, <2>1
  <2>3. /\ r \in NoticeType /\ r.what = what /\ r.device = d
        /\ \/ notices' = Append(notices, r)
           \/ driver = "cocoa" /\ ~Started(u) /\ notices' = <<>>
        /\ driver = "cocoa" /\ ~Started(u) => notices' = <<>>
        /\ notices' \in Seq(NoticeType)
    BY <1>1, <1>3, <2>2, Notified
  <2>4. QED
    BY <2>1, <2>3
<1>8. ASSUME notices' = Append(notices, r)
      PROVE  /\ notices' \in Seq(NoticeType) /\ m \in Nat /\ m \in DOMAIN notices' /\ notices'[m] = r
             /\ \A i \in DOMAIN notices : /\ i \in Nat /\ 0 < i /\ i < m /\ i \in DOMAIN notices'
                                          /\ notices'[i] = notices[i]
             /\ \A i \in DOMAIN notices' : i \in DOMAIN notices \/ i = m
             /\ \A i : ArrivalAfter(i) => ArrivalAfter(i)'
             /\ \A e, what, i : Comes(e, what, i) => Comes(e, what, i)'
             /\ \A i \in DOMAIN notices \union {0} : Comes(d, "removal", i)'
  <2>1. /\ notices' \in Seq(NoticeType) /\ m \in Nat /\ m \in DOMAIN notices' /\ notices'[m] = r
        /\ \A i \in DOMAIN notices : /\ i \in Nat /\ 0 < i /\ i < m /\ i \in DOMAIN notices'
                                     /\ notices'[i] = notices[i]
        /\ \A i \in DOMAIN notices' : i \in DOMAIN notices \/ i = m
        /\ \A i : ArrivalAfter(i) => ArrivalAfter(i)'
        /\ \A e, what, i : Comes(e, what, i) => Comes(e, what, i)'
        /\ \A i \in DOMAIN notices \union {0} : Comes(r.device, r.what, i)'
    BY <1>1, <1>3, <1>7, <1>8, NoticeAdded
  <2>2. \A i \in DOMAIN notices \union {0} : Comes(d, "removal", i)'
    BY <1>7, <2>1 DEF Comes
  <2>3. QED
    BY <2>1, <2>2
<1>9. PadsOK'
  BY <1>2, <1>4 DEF PadsOK
<1>10. SlotsOK'
  <2> SUFFICES ASSUME NEW k \in J!Slot
               PROVE  SlotOK(k)'
    BY DEF SlotsOK
  <2>1. SlotOK(k)
    BY <1>4 DEF SlotsOK
  <2>2. CASE js[k].device = d
    <3>1. js'[k].lost /\ js'[k].stale
      BY <1>5, <2>2
    <3>2. js[k].allocated /\ ~js[k].xinput
      BY <2>1, <2>2, SlotsAre, FreeIs DEF SlotOK
    <3>3. /\ js'[k].allocated = js[k].allocated /\ js'[k].connected = js[k].connected
          /\ js'[k].xinput = js[k].xinput /\ js'[k].axis = js[k].axis
          /\ js'[k].device = js[k].device /\ js[k].axis[1] <= js[k].axis[2]
      BY <1>5, <2>1 DEF HardwareAs, SlotOK
    <3>4. js[k].device \in J!Device /\ (driver = "win32" => js[k].device \in Stick)
      BY <2>1, <3>2 DEF SlotOK
    <3>5. QED
      BY <1>2, <3>1, <3>2, <3>3, <3>4 DEF SlotOK
  <2>3. CASE js[k].device # d
    <3>1. js'[k] = js[k]
      BY <1>5, <2>3
    <3>2. QED
      BY <1>2, <2>1, <2>3, <3>1 DEF SlotOK
  <2>4. QED
    BY <2>2, <2>3
<1>11. StartOK(u)'
  <2>1. \A k \in J!Slot : js[k] = J!Free => js'[k] = J!Free
    BY <1>5, FreeIs DEF HardwareAs
  <2>2. skipped = {} => skipped' = {}
    BY <1>2
  <2>3. QED
    BY <1>2, <1>4, <1>6, <1>7, <2>1, <2>2 DEF StartOK, Starting
<1>12. Win32OK(u)'
  <2> SUFFICES ASSUME driver = "win32"
               PROVE  DueOK(u)' /\ ListedOK(u)' /\ SkippedOK'
    BY <1>2 DEF Win32OK
  <2>1. notices' = Append(notices, r) /\ DueOK(u) /\ ListedOK(u) /\ SkippedOK
    BY <1>4, <1>7 DEF Win32OK
  <2>2. \A e : e # d => \A k : GoesOn(u, k, e) => GoesOn(u, k, e)'
    BY <1>2, <1>8, <2>1 DEF GoesOn, Presence
  <2>3. \A e : e \notin plugged' => \A k : GoesOn(u, k, e)'
    BY <1>7, <1>8, <2>1 DEF GoesOn
  <2>4. DueOK(u)'
    <3> SUFFICES ASSUME NEW k \in J!Slot, js'[k].connected
                 PROVE  /\ (js[k].xinput /\ IsEmpty(js[k].index) => GoesOn(u, k, NoDevice))'
                        /\ (~js[k].xinput /\ js[k].lost => GoesOn(u, k, js[k].device))'
      BY DEF DueOK
    <3>1. GoesOn(u, k, NoDevice)'
      <4>1. NoDevice \notin plugged'
        BY <1>2, <1>3, SlotsAre DEF SlotsTyped
      <4>2. QED
        BY <2>3, <4>1
    <3>2. PICK e : e = js[k].device
      OBVIOUS
    <3>3. ~js'[k].xinput /\ js'[k].lost => GoesOn(u, k, e)'
      <4>1. CASE e = d
        BY <1>2, <2>3, <4>1
      <4>2. CASE e # d
        <5>1. js'[k] = js[k]
          BY <1>5, <3>2, <4>2
        <5>2. ~js[k].xinput /\ js[k].lost => GoesOn(u, k, e)
          BY <2>1, <3>2, <5>1 DEF DueOK
        <5>3. QED
          BY <2>2, <4>2, <5>1, <5>2
      <4>3. QED
        BY <4>1, <4>2
    <3>4. js'[k].device = e
      BY <1>5, <3>2 DEF HardwareAs
    <3>5. QED
      BY <3>1, <3>3, <3>4 DEF GoesOn
  <2>5. ListedOK(u)'
    <3>1. \A e \in plugged' : e \in plugged /\ (e \notin skipped' => e \notin skipped)
      BY <1>2
    <3>2. ArrivalAfter(0) => ArrivalAfter(0)'
      BY <1>8, <2>1
    <3>3. QED
      BY <1>2, <1>6, <2>1, <3>1, <3>2 DEF ListedOK, Detection
  <2>6. SkippedOK'
    BY <1>2, <1>6, <2>1 DEF SkippedOK
  <2>7. QED
    BY <2>4, <2>5, <2>6
<1>13. CocoaOK(u)'
  <2> SUFFICES ASSUME driver = "cocoa"
               PROVE  NoticesOK' /\ MatchedOK(u)' /\ skipped' = {}
    BY <1>2 DEF CocoaOK
  <2>1. NoticesOK /\ MatchedOK(u) /\ skipped = {}
    BY <1>4 DEF CocoaOK
  <2>2. skipped' = {}
    BY <1>2, <2>1
  <2>3. CASE notices' = <<>> /\ ~Started(u)
    <3>1. DOMAIN notices' = {}
      BY <2>3
    <3>2. QED
      BY <1>6, <2>2, <2>3, <3>1 DEF NoticesOK, MatchedOK
  <2>4. CASE notices' = Append(notices, r)
    <3>1. NoticesOK'
      <4>1. ASSUME NEW i \in DOMAIN notices', NEW e, e = notices'[i].device
            PROVE  /\ notices'[i].what = "arrival" => e \in plugged' \/ Comes(e, "removal", i)'
                   /\ notices'[i].what = "removal" => e \notin plugged' \/ Comes(e, "arrival", i)'
        <5>1. CASE i = m
          BY <1>2, <1>7, <1>8, <2>4, <4>1, <5>1
        <5>2. CASE i \in DOMAIN notices
          <6>1. notices'[i] = notices[i]
            BY <1>8, <2>4, <5>2
          <6>2. /\ notices[i].what = "arrival" => e \in plugged \/ Comes(e, "removal", i)
                /\ notices[i].what = "removal" => e \notin plugged \/ Comes(e, "arrival", i)
            BY <2>1, <4>1, <5>2, <6>1 DEF NoticesOK
          <6>3. /\ Comes(e, "removal", i) => Comes(e, "removal", i)'
                /\ Comes(e, "arrival", i) => Comes(e, "arrival", i)'
                /\ e = d => Comes(e, "removal", i)'
            BY <1>8, <2>4, <5>2
          <6>4. QED
            BY <1>2, <6>1, <6>2, <6>3
        <5>3. QED
          BY <1>8, <2>4, <5>1, <5>2
      <4>2. QED
        BY <4>1 DEF NoticesOK, Comes
    <3>2. MatchedOK(u)'
      <4> SUFFICES ASSUME Started(u), NEW e \in J!Device
                   PROVE  /\ e \in plugged' => HasSlot(e)' \/ Comes(e, "arrival", 0)'
                          /\ HasSlot(e)' => e \in plugged' \/ Comes(e, "removal", 0)'
        BY <1>6 DEF MatchedOK
      <4>1. /\ e \in plugged => HasSlot(e) \/ Comes(e, "arrival", 0)
            /\ HasSlot(e) => e \in plugged \/ Comes(e, "removal", 0)
        BY <2>1 DEF MatchedOK
      <4>2. /\ Comes(e, "removal", 0) => Comes(e, "removal", 0)'
            /\ Comes(e, "arrival", 0) => Comes(e, "arrival", 0)'
            /\ e = d => Comes(e, "removal", 0)'
        BY <1>8, <2>4
      <4>3. QED
        BY <1>2, <1>6, <4>1, <4>2
    <3>3. QED
      BY <2>2, <3>1, <3>2
  <2>5. QED
    BY <1>7, <2>3, <2>4
<1>14. ReportsOK(u)'
  <2> SUFFICES ASSUME NEW k \in J!Slot, NEW e \in plugged', J!Reads(k, e)', ~js'[k].stale
               PROVE  ReportOK(u, k, e)'
    BY DEF ReportsOK
  <2>1. J!Reads(k, e) /\ ~js[k].stale /\ e \in plugged
    BY <1>2, <1>5 DEF J!Reads, HardwareAs
  <2>2. ReportOK(u, k, e)
    BY <1>4, <2>1 DEF ReportsOK
  <2>3. at'[e] = at[e]
    BY <1>2
  <2>4. QED
    BY <1>2, <1>5, <2>2, <2>3, SameReport
<1>15. RunOK(u)'
  BY <1>6, <1>9, <1>10, <1>11, <1>12, <1>13, <1>14 DEF RunOK
<1>16. SlotsTyped'
  <2>1. js' \in [J!Slot -> JoystickType] /\ notices' \in Seq(NoticeType)
    BY <1>5, <1>7 DEF HardwareAs
  <2>2. IsFiniteSet(plugged')
    BY <1>2, <1>3, FS_RemoveElement DEF SlotsTyped
  <2>3. plugged' \subseteq J!Device /\ skipped' \subseteq plugged'
    BY <1>2, <1>3 DEF SlotsTyped
  <2>4. QED
    BY <1>2, <1>3, <2>1, <2>2, <2>3 DEF SlotsTyped
<1>17. QED
  BY <1>1, <1>2, <1>15, <1>16, MovedIsSafe

LEMMA PlugIsSafe ==
  ASSUME SlotsInv, NEW d \in J!Device, J!Plug(d)
  PROVE  SlotsInv'
<1>1. PICK u, r, m, n, P : /\ u = stack /\ r = [what |-> "arrival", device |-> d]
                           /\ m = Len(notices) + 1 /\ n = index'
                           /\ P = {k \in J!Slot : d \in Pad /\ js[k].xinput /\ js[k].index = n[d]}
  OBVIOUS
<1>2. /\ J!Alive /\ d \notin plugged /\ plugs < MaxPlugs /\ plugs' = plugs + 1
      /\ plugged' = plugged \union {d}
      /\ \/ d \in Stick /\ n = index
         \/ /\ d \in Pad
            /\ \E i \in J!Index : /\ \A p \in plugged \intersect Pad : index[p] # i
                                  /\ n = [index EXCEPT ![d] = i]
      /\ at' = [at EXCEPT ![d] = J!Rest]
      /\ J!Notify("arrival", d)
      /\ UNCHANGED <<driver, xinput, moves, initialized, stack, crash, skipped, failures>>
  BY <1>1 DEF J!Plug
<1>3. js' = [k \in J!Slot |-> IF k \in P THEN [js[k] EXCEPT !.stale = TRUE] ELSE js[k]]
  BY <1>1 DEF J!Plug
<1>4. SlotsTyped /\ RunOK(stack)
  BY <1>2 DEF SlotsInv
<1>5. /\ PadsOK /\ SlotsOK /\ StartOK(u) /\ Win32OK(u) /\ CocoaOK(u) /\ ReportsOK(u)
  BY <1>1, <1>4 DEF RunOK
<1>6. HardwareAs /\ \A k \in J!Slot : /\ js'[k].lost = js[k].lost /\ (k \in P => js'[k].stale)
                                      /\ (k \notin P => js'[k] = js[k])
  <2>1. \A k \in P : js[k].allocated
    BY <1>1, <1>5, FreeIs DEF SlotsOK, SlotOK
  <2>2. P \in SUBSET J!Slot
    BY <1>1
  <2>3. QED
    BY <1>3, <1>4, <2>1, <2>2, StaleAs
<1>7. /\ SlotsApart' /\ CallsOK(u)' /\ ClosingOK(u)' /\ (Started(u)' <=> Started(u))
      /\ \A e : HasSlot(e)' <=> HasSlot(e)
      /\ \A i : IsListed(i)' <=> IsListed(i)
  BY <1>1, <1>2, <1>4, <1>6, HardwareOK
<1>8. /\ r \in NoticeType /\ r.what = "arrival" /\ r.device = d
      /\ \/ notices' = Append(notices, r)
         \/ driver = "cocoa" /\ ~Started(u) /\ notices' = <<>>
      /\ driver = "cocoa" /\ ~Started(u) => notices' = <<>>
      /\ notices' \in Seq(NoticeType)
  <2>1. PICK what \in {"arrival", "removal"} : what = "arrival"
    OBVIOUS
  <2>2. J!Notify(what, d) /\ r = [what |-> what, device |-> d]
    BY <1>1, <1>2, <2>1
  <2>3. /\ r \in NoticeType /\ r.what = what /\ r.device = d
        /\ \/ notices' = Append(notices, r)
           \/ driver = "cocoa" /\ ~Started(u) /\ notices' = <<>>
        /\ driver = "cocoa" /\ ~Started(u) => notices' = <<>>
        /\ notices' \in Seq(NoticeType)
    BY <1>1, <1>4, <2>2, Notified
  <2>4. QED
    BY <2>1, <2>3
<1>9. ASSUME notices' = Append(notices, r)
      PROVE  /\ m \in DOMAIN notices' /\ notices'[m] = r
             /\ \A i \in DOMAIN notices : i \in DOMAIN notices' /\ notices'[i] = notices[i]
             /\ \A i \in DOMAIN notices' : i \in DOMAIN notices \/ i = m
             /\ \A e, what, i : Comes(e, what, i) => Comes(e, what, i)'
             /\ \A i \in DOMAIN notices \union {0} : ArrivalAfter(i)' /\ Comes(d, "arrival", i)'
  <2>1. /\ m \in DOMAIN notices' /\ notices'[m] = r
        /\ \A i \in DOMAIN notices : i \in DOMAIN notices' /\ notices'[i] = notices[i]
        /\ \A i \in DOMAIN notices' : i \in DOMAIN notices \/ i = m
        /\ \A e, what, i : Comes(e, what, i) => Comes(e, what, i)'
        /\ \A i \in DOMAIN notices \union {0} :
             /\ r.what = "arrival" => ArrivalAfter(i)'
             /\ Comes(r.device, r.what, i)'
    BY <1>1, <1>4, <1>8, <1>9, NoticeAdded
  <2>2. \A i \in DOMAIN notices \union {0} : ArrivalAfter(i)' /\ Comes(d, "arrival", i)'
    BY <1>8, <2>1 DEF Comes
  <2>3. QED
    BY <2>1, <2>2
<1>10. index \in [Pad -> J!Index] /\ at \in [J!Device -> PadPosition]
  BY <1>4 DEF SlotsTyped
<1>11. n \in [Pad -> J!Index] /\ \A p \in plugged \intersect Pad : n[p] = index[p]
  <2>1. CASE n = index
    BY <1>10, <2>1
  <2>2. CASE \E i \in J!Index : n = [index EXCEPT ![d] = i]
    BY <1>2, <1>10, <2>2
  <2>3. QED
    BY <1>2, <2>1, <2>2
<1>12. at' \in [J!Device -> PadPosition] /\ at'[d] = J!Rest
       /\ \A e \in J!Device : e # d => at'[e] = at[e]
  <2>1. J!Rest \in PadPosition
    BY PositionsAre
  <2>2. QED
    BY <1>2, <1>10, <2>1
<1>13. d \in Pad => \A p \in plugged \intersect Pad : n[p] # n[d]
  BY <1>2, <1>10, <1>11, SlotsAre
<1>14. PadsOK'
  <2>1. \A e \in J!Device : at'[e].hat = J!Direction => xinput'
    <3> SUFFICES ASSUME NEW e \in J!Device, at'[e].hat = J!Direction
                 PROVE  xinput
      BY <1>2
    <3>1. J!Rest.hat # J!Direction
      BY PositionsAre
    <3>2. e # d
      BY <1>12, <3>1
    <3>3. QED
      BY <1>5, <1>12, <3>2 DEF PadsOK
  <2>2. \A p, q \in plugged' \intersect Pad : n[p] = n[q] => p = q
    <3> SUFFICES ASSUME NEW p \in plugged' \intersect Pad, NEW q \in plugged' \intersect Pad,
                        n[p] = n[q], p # q
                 PROVE  FALSE
      OBVIOUS
    <3>1. p \in plugged /\ q \in plugged
      BY <1>2, <1>13
    <3>2. QED
      BY <1>5, <1>11, <3>1 DEF PadsOK
  <2>3. QED
    BY <1>1, <2>1, <2>2 DEF PadsOK
<1>15. SlotsOK'
  <2> SUFFICES ASSUME NEW k \in J!Slot
               PROVE  SlotOK(k)'
    BY DEF SlotsOK
  <2>1. SlotOK(k)
    BY <1>5 DEF SlotsOK
  <2>2. QED
    BY <1>2, <1>6, <2>1 DEF SlotOK, HardwareAs
<1>16. StartOK(u)'
  <2>1. \A k \in J!Slot : js[k] = J!Free => js'[k] = J!Free
    BY <1>6, FreeIs DEF HardwareAs
  <2>2. QED
    BY <1>2, <1>5, <1>7, <1>8, <2>1 DEF StartOK, Starting
<1>17. Win32OK(u)'
  <2> SUFFICES ASSUME driver = "win32"
               PROVE  DueOK(u)' /\ ListedOK(u)' /\ SkippedOK'
    BY <1>2 DEF Win32OK
  <2>1. notices' = Append(notices, r) /\ DueOK(u) /\ SkippedOK
    BY <1>5, <1>8 DEF Win32OK
  <2>2. ArrivalAfter(0)' /\ \A i \in DOMAIN notices : ArrivalAfter(i)'
    BY <1>9, <2>1
  <2>3. \A k, e : GoesOn(u, k, e) => GoesOn(u, k, e)'
    <3> SUFFICES ASSUME NEW k, NEW e, GoesOn(u, k, e)
                 PROVE  GoesOn(u, k, e)'
      OBVIOUS
    <3>1. CASE Presence(u, k)
      <4>1. Presence(u, k)'
        BY <3>1 DEF Presence
      <4>2. QED
        BY <2>2, <4>1 DEF GoesOn
    <3>2. CASE \E i \in DOMAIN notices : notices[i].what = "removal"
      BY <1>9, <2>1, <2>2, <3>2 DEF GoesOn
    <3>3. QED
      BY <3>1, <3>2 DEF GoesOn
  <2>4. DueOK(u)'
    <3>1. \A i : IsEmpty(i)' => IsEmpty(i)
      BY <1>1, <1>2, <1>11 DEF IsEmpty
    <3>2. QED
      BY <1>6, <2>1, <2>3, <3>1 DEF DueOK, HardwareAs
  <2>5. ListedOK(u)'
    BY <2>2 DEF ListedOK
  <2>6. SkippedOK'
    <3>1. \A e \in skipped \intersect Stick : ~HasSlot(e)'
      BY <1>7, <2>1 DEF SkippedOK
    <3>2. \A p \in skipped \intersect Pad : n[p] = index[p]
      BY <1>4, <1>11 DEF SlotsTyped
    <3>3. \A p \in skipped \intersect Pad : ~IsListed(n[p])' /\ xinput'
      BY <1>2, <1>7, <2>1, <3>2 DEF SkippedOK
    <3>4. QED
      BY <1>1, <1>2, <3>1, <3>3 DEF SkippedOK
  <2>7. QED
    BY <2>4, <2>5, <2>6
<1>18. CocoaOK(u)'
  <2> SUFFICES ASSUME driver = "cocoa"
               PROVE  NoticesOK' /\ MatchedOK(u)' /\ skipped' = {}
    BY <1>2 DEF CocoaOK
  <2>1. NoticesOK /\ MatchedOK(u) /\ skipped = {}
    BY <1>5 DEF CocoaOK
  <2>2. skipped' = {}
    BY <1>2, <2>1
  <2>3. CASE notices' = <<>> /\ ~Started(u)
    <3>1. DOMAIN notices' = {}
      BY <2>3
    <3>2. QED
      BY <1>7, <2>2, <2>3, <3>1 DEF NoticesOK, MatchedOK
  <2>4. CASE notices' = Append(notices, r)
    <3>1. NoticesOK'
      <4>1. ASSUME NEW i \in DOMAIN notices', NEW e, e = notices'[i].device
            PROVE  /\ notices'[i].what = "arrival" => e \in plugged' \/ Comes(e, "removal", i)'
                   /\ notices'[i].what = "removal" => e \notin plugged' \/ Comes(e, "arrival", i)'
        <5>1. CASE i = m
          BY <1>2, <1>8, <1>9, <2>4, <4>1, <5>1
        <5>2. CASE i \in DOMAIN notices
          <6>1. notices'[i] = notices[i]
            BY <1>9, <2>4, <5>2
          <6>2. /\ notices[i].what = "arrival" => e \in plugged \/ Comes(e, "removal", i)
                /\ notices[i].what = "removal" => e \notin plugged \/ Comes(e, "arrival", i)
            BY <2>1, <4>1, <5>2, <6>1 DEF NoticesOK
          <6>3. /\ Comes(e, "removal", i) => Comes(e, "removal", i)'
                /\ Comes(e, "arrival", i) => Comes(e, "arrival", i)'
                /\ e = d => Comes(e, "arrival", i)'
            BY <1>9, <2>4, <5>2
          <6>4. QED
            BY <1>2, <6>1, <6>2, <6>3
        <5>3. QED
          BY <1>9, <2>4, <5>1, <5>2
      <4>2. QED
        BY <4>1 DEF NoticesOK, Comes
    <3>2. MatchedOK(u)'
      <4> SUFFICES ASSUME Started(u), NEW e \in J!Device
                   PROVE  /\ e \in plugged' => HasSlot(e)' \/ Comes(e, "arrival", 0)'
                          /\ HasSlot(e)' => e \in plugged' \/ Comes(e, "removal", 0)'
        BY <1>7 DEF MatchedOK
      <4>1. /\ e \in plugged => HasSlot(e) \/ Comes(e, "arrival", 0)
            /\ HasSlot(e) => e \in plugged \/ Comes(e, "removal", 0)
        BY <2>1 DEF MatchedOK
      <4>2. /\ Comes(e, "removal", 0) => Comes(e, "removal", 0)'
            /\ Comes(e, "arrival", 0) => Comes(e, "arrival", 0)'
            /\ e = d => Comes(e, "arrival", 0)'
        BY <1>9, <2>4
      <4>3. QED
        BY <1>2, <1>7, <4>1, <4>2
    <3>3. QED
      BY <2>2, <3>1, <3>2
  <2>5. QED
    BY <1>8, <2>3, <2>4
<1>19. ReportsOK(u)'
  <2> SUFFICES ASSUME NEW k \in J!Slot, NEW e \in plugged', J!Reads(k, e)', ~js'[k].stale
               PROVE  ReportOK(u, k, e)'
    BY DEF ReportsOK
  <2>1. /\ js[k].connected
        /\ js[k].xinput => e \in Pad /\ js[k].index = n[e]
        /\ ~js[k].xinput => js[k].device = e
        /\ ~js[k].stale
    BY <1>1, <1>6 DEF J!Reads, HardwareAs
  <2>2. e # d
    <3> SUFFICES ASSUME e = d
                 PROVE  FALSE
      OBVIOUS
    <3>1. CASE js[k].xinput
      <4>1. k \in P
        BY <1>1, <2>1, <3>1
      <4>2. QED
        BY <1>6, <4>1
    <3>2. CASE ~js[k].xinput
      <4>1. SlotOK(k)
        BY <1>5 DEF SlotsOK
      <4>2. QED
        BY <1>2, <2>1, <3>2, <4>1 DEF SlotOK
    <3>3. QED
      BY <3>1, <3>2
  <2>3. e \in plugged /\ e \in J!Device
    BY <1>2, <1>4, <2>2 DEF SlotsTyped
  <2>4. J!Reads(k, e)
    BY <1>11, <2>1, <2>3 DEF J!Reads
  <2>5. ReportOK(u, k, e)
    BY <1>5, <2>1, <2>3, <2>4 DEF ReportsOK
  <2>6. at'[e] = at[e]
    BY <1>12, <2>2, <2>3
  <2>7. QED
    BY <1>2, <1>6, <2>5, <2>6, SameReport
<1>20. RunOK(u)'
  BY <1>7, <1>14, <1>15, <1>16, <1>17, <1>18, <1>19 DEF RunOK
<1>21. SlotsTyped'
  <2>1. /\ js' \in [J!Slot -> JoystickType] /\ notices' \in Seq(NoticeType)
        /\ at' \in [J!Device -> PadPosition] /\ index' \in [Pad -> J!Index]
    BY <1>1, <1>6, <1>8, <1>11, <1>12 DEF HardwareAs
  <2>2. IsFiniteSet(plugged')
    BY <1>2, <1>4, FS_AddElement DEF SlotsTyped
  <2>3. plugged' \subseteq J!Device /\ skipped' \subseteq plugged'
    BY <1>2, <1>4 DEF SlotsTyped
  <2>4. plugs' \in 0..MaxPlugs
    <3>1. plugs \in 0..MaxPlugs
      BY <1>4 DEF SlotsTyped
    <3>2. QED
      BY <1>2, <3>1, BoundsAre
  <2>5. QED
    BY <1>2, <1>4, <2>1, <2>2, <2>3, <2>4 DEF SlotsTyped
<1>22. QED
  BY <1>1, <1>2, <1>20, <1>21, MovedIsSafe

--------------------------------------------------------------------------------
(* What the invariant says *)

\* A device is read through one slot at most, on Win32 and on macOS.
LEMMA ReadOnce ==
  ASSUME SlotsTyped, SlotsOK, SlotsApart, NEW d \in J!Device,
         NEW k \in J!Slot, NEW l \in J!Slot, J!Reads(k, d), J!Reads(l, d)
  PROVE  k = l
<1>1. \A i \in J!Slot : /\ js[i].xinput => xinput
                        /\ js[i].connected /\ ~js[i].xinput /\ driver = "win32" =>
                             js[i].device \in Stick
  BY DEF SlotsOK, SlotOK
<1>2. xinput => driver = "win32"
  BY SlotsAre DEF SlotsTyped
<1>3. (js[k].xinput /\ ~js[l].xinput) \/ (js[l].xinput /\ ~js[k].xinput) => FALSE
  BY <1>1, <1>2, SlotsAre DEF J!Reads
<1>4. Alike(k, l)
  BY <1>3 DEF Alike, J!Reads
<1>5. QED
  BY <1>4 DEF SlotsApart

LEMMA SlotsMatch ==
  ASSUME SlotsInv, J!Idle, initialized, notices = <<>>
  PROVE  /\ \A d \in J!Device :
              (\E k \in J!Slot : J!Reads(k, d)) <=>
                d \in plugged \ skipped /\ (driver = "win32" /\ d \in Pad => xinput)
         /\ \A d \in J!Device : \A k, l \in J!Slot : J!Reads(k, d) /\ J!Reads(l, d) => k = l
         /\ \A k \in J!Slot : js[k].connected => \E d \in plugged : J!Reads(k, d)
<1>1. PICK u : u = stack
  OBVIOUS
<1>2. J!Alive /\ u = <<>>
  BY <1>1 DEF J!Idle
<1>3. SlotsTyped /\ RunOK(stack)
  BY <1>2 DEF SlotsInv
<1>4. SlotsOK /\ SlotsApart /\ Win32OK(u) /\ CocoaOK(u)
  BY <1>1, <1>3 DEF RunOK
<1>5. /\ \A k, e : ~GoesOn(u, k, e)
      /\ ~Detection(u) /\ Started(u)
      /\ \A i : ~ArrivalAfter(i)
      /\ \A e, what, i : ~Comes(e, what, i)
  <2>1. DOMAIN notices = {}
    OBVIOUS
  <2>2. QED
    BY <1>2, <2>1 DEF GoesOn, Presence, Detection, Started, ArrivalAfter, Comes
<1>6. driver = "win32" => DueOK(u) /\ ListedOK(u) /\ SkippedOK
  BY <1>4 DEF Win32OK
<1>7. driver = "cocoa" => MatchedOK(u) /\ skipped = {} /\ ~xinput
  BY <1>3, <1>4 DEF CocoaOK, SlotsTyped
<1>8. driver \in {"win32", "cocoa"} /\ plugged \subseteq J!Device /\ skipped \subseteq plugged
  BY <1>3, SlotsAre DEF SlotsTyped
<1>9. ASSUME NEW k \in J!Slot, js[k].connected
      PROVE  /\ js[k].xinput => xinput /\ ~IsEmpty(js[k].index)
             /\ ~js[k].xinput => /\ js[k].device \in plugged
                                 /\ driver = "win32" => js[k].device \in Stick
  <2>1. SlotOK(k)
    BY <1>4 DEF SlotsOK
  <2>2. CASE js[k].xinput
    <3>1. xinput /\ driver = "win32"
      BY <1>7, <1>8, <2>1, <2>2 DEF SlotOK
    <3>2. QED
      BY <1>5, <1>6, <1>9, <2>2, <3>1 DEF DueOK
  <2>3. CASE ~js[k].xinput
    <3>1. js[k].device \in J!Device /\ (driver = "win32" => js[k].device \in Stick)
      BY <1>9, <2>1, <2>3 DEF SlotOK
    <3>2. CASE driver = "win32"
      <4>1. ~js[k].lost
        BY <1>5, <1>6, <1>9, <2>3, <3>2 DEF DueOK
      <4>2. QED
        BY <1>9, <2>1, <2>3, <3>1, <4>1 DEF SlotOK
    <3>3. CASE driver = "cocoa"
      <4>1. HasSlot(js[k].device)
        BY <1>9, <2>3 DEF HasSlot, Has
      <4>2. QED
        BY <1>5, <1>7, <2>3, <3>1, <3>3, <4>1 DEF MatchedOK
    <3>4. QED
      BY <1>8, <3>2, <3>3
  <2>4. QED
    BY <2>2, <2>3
<1>10. ASSUME NEW k \in J!Slot, js[k].connected
       PROVE  \E d \in plugged : J!Reads(k, d)
  <2>1. CASE js[k].xinput
    <3>1. PICK p \in plugged \intersect Pad : index[p] = js[k].index
      BY <1>9, <1>10, <2>1 DEF IsEmpty
    <3>2. QED
      BY <1>10, <2>1, <3>1 DEF J!Reads
  <2>2. CASE ~js[k].xinput
    BY <1>9, <1>10, <2>2 DEF J!Reads
  <2>3. QED
    BY <2>1, <2>2
<1>11. ASSUME NEW d \in J!Device, NEW k \in J!Slot, J!Reads(k, d)
       PROVE  d \in plugged \ skipped /\ (driver = "win32" /\ d \in Pad => xinput)
  <2>1. CASE js[k].xinput
    <3>1. d \in plugged \intersect Pad /\ IsListed(index[d]) /\ xinput /\ driver = "win32"
      BY <1>7, <1>8, <1>9, <1>11, <2>1 DEF J!Reads, IsListed
    <3>2. d \notin skipped
      BY <1>6, <3>1 DEF SkippedOK
    <3>3. QED
      BY <3>1, <3>2
  <2>2. CASE ~js[k].xinput
    <3>1. js[k].connected /\ js[k].device = d
      BY <1>11, <2>2 DEF J!Reads
    <3>2. d \in plugged /\ HasSlot(d) /\ (driver = "win32" => d \in Stick /\ d \notin Pad)
      BY <1>9, <2>2, <3>1, SlotsAre DEF HasSlot, Has
    <3>3. d \notin skipped
      BY <1>6, <1>7, <1>8, <3>2 DEF SkippedOK
    <3>4. QED
      BY <3>2, <3>3
  <2>3. QED
    BY <2>1, <2>2
<1>12. ASSUME NEW d \in J!Device, d \in plugged \ skipped, driver = "win32" /\ d \in Pad => xinput
       PROVE  \E k \in J!Slot : J!Reads(k, d)
  <2>1. CASE driver = "win32" /\ d \in Pad
    <3>1. IsListed(index[d])
      BY <1>5, <1>6, <1>12, <2>1 DEF ListedOK
    <3>2. QED
      BY <1>12, <2>1, <3>1 DEF IsListed, J!Reads
  <2>2. CASE driver = "win32" /\ d \in Stick
    <3>1. HasSlot(d)
      BY <1>5, <1>6, <1>12, <2>2 DEF ListedOK
    <3>2. QED
      BY <3>1 DEF HasSlot, Has, J!Reads
  <2>3. CASE driver = "cocoa"
    <3>1. HasSlot(d)
      BY <1>5, <1>7, <1>12, <2>3 DEF MatchedOK
    <3>2. QED
      BY <3>1 DEF HasSlot, Has, J!Reads
  <2>4. QED
    BY <1>8, <2>1, <2>2, <2>3, SlotsAre
<1>13. \A d \in J!Device : \A k, l \in J!Slot : J!Reads(k, d) /\ J!Reads(l, d) => k = l
  BY <1>3, <1>4, ReadOnce
<1>14. QED
  BY <1>10, <1>11, <1>12, <1>13

\* What of the slots is so even when the program has died.
FreeOK ==
    \A k \in J!Slot :
      (js[k].connected => js[k].allocated) /\ (~js[k].allocated => js[k] = J!Free)

LEMMA SlotsInvSays ==
  ASSUME SlotsInv, FreeOK
  PROVE  J!TypeOK /\ J!SlotsMatchDevices /\ J!ReportsAreCurrent /\ J!CrashesAreKnown
<1>1. SlotsTyped
  BY DEF SlotsInv
<1>2. J!TypeOK
  <2>1. ASSUME NEW k \in J!Slot
        PROVE  /\ DOMAIN js[k] = DOMAIN J!Free
               /\ js[k].device \in J!Device \union {NoDevice}
    <3>1. js[k] \in JoystickType /\ J!Free \in JoystickType
      BY <1>1, FreeIs DEF SlotsTyped
    <3>2. \A x, y \in JoystickType : DOMAIN x = DOMAIN y
      BY DEF JoystickType
    <3>3. QED
      BY <3>1, <3>2, JoystickHas
  <2>2. notices \in Seq([what : {"arrival", "removal"}, device : J!Device])
    BY <1>1 DEF SlotsTyped, NoticeType
  <2>3. QED
    BY <1>1, <2>1, <2>2 DEF J!TypeOK, SlotsTyped, FreeOK
<1>3. J!SlotsMatchDevices
  <2> SUFFICES ASSUME J!Idle, initialized, notices = <<>>
               PROVE  /\ \A d \in J!Device :
                           J!Cardinality({s \in J!Slot : J!Reads(s, d)}) =
                             IF d \in plugged \ skipped /\ (driver = "win32" /\ d \in Pad => xinput)
                             THEN 1 ELSE 0
                      /\ \A s \in J!Slot : js[s].connected => \E d \in plugged : J!Reads(s, d)
    BY DEF J!SlotsMatchDevices
  <2>1. /\ \A d \in J!Device :
             (\E k \in J!Slot : J!Reads(k, d)) <=>
               d \in plugged \ skipped /\ (driver = "win32" /\ d \in Pad => xinput)
        /\ \A d \in J!Device : \A k, l \in J!Slot : J!Reads(k, d) /\ J!Reads(l, d) => k = l
        /\ \A k \in J!Slot : js[k].connected => \E d \in plugged : J!Reads(k, d)
    BY SlotsMatch
  <2>2. ASSUME NEW d \in J!Device
        PROVE  J!Cardinality({s \in J!Slot : J!Reads(s, d)}) =
                 IF d \in plugged \ skipped /\ (driver = "win32" /\ d \in Pad => xinput)
                 THEN 1 ELSE 0
    <3>1. PICK R : R = {s \in J!Slot : J!Reads(s, d)}
      OBVIOUS
    <3>2. J!Cardinality(R) = Cardinality(R)
      BY DEF J!Cardinality, Cardinality
    <3>3. CASE \E k \in J!Slot : J!Reads(k, d)
      <4>1. PICK k \in J!Slot : J!Reads(k, d)
        BY <3>3
      <4>2. R = {k}
        BY <2>1, <3>1, <4>1
      <4>3. Cardinality(R) = 1
        BY <4>2, FS_Singleton
      <4>4. QED
        BY <2>1, <3>1, <3>2, <3>3, <4>3
    <3>4. CASE ~\E k \in J!Slot : J!Reads(k, d)
      <4>1. R = {}
        BY <3>1, <3>4
      <4>2. Cardinality(R) = 0
        BY <4>1, FS_EmptySet
      <4>3. QED
        BY <2>1, <3>1, <3>2, <3>4, <4>2
    <3>5. QED
      BY <3>3, <3>4
  <2>3. QED
    BY <2>1, <2>2
<1>4. J!ReportsAreCurrent
  <2> SUFFICES ASSUME J!Alive, NEW s \in J!Slot
               PROVE  /\ js[s].axis[1] \in 0..js[s].axis[2]
                      /\ \A d \in plugged :
                           J!Idle /\ J!Reads(s, d) /\ ~js[s].stale =>
                             /\ AxisAgrees(s, d)
                             /\ js[s].button = at[d].button
                             /\ js[s].hat = at[d].hat
    BY DEF J!ReportsAreCurrent, AxisAgrees
  <2>1. RunOK(stack)
    BY DEF SlotsInv
  <2>2. js[s].axis[1] \in 0..js[s].axis[2]
    <3>1. js[s].axis \in Nat \X Nat /\ js[s].axis[1] <= js[s].axis[2]
      BY <1>1, <2>1, JoystickHas DEF SlotsTyped, RunOK, SlotsOK, SlotOK
    <3>2. QED
      BY <3>1
  <2>3. ASSUME NEW d \in plugged, J!Idle, J!Reads(s, d), ~js[s].stale
        PROVE  /\ AxisAgrees(s, d)
               /\ js[s].button = at[d].button
               /\ js[s].hat = at[d].hat
    <3>1. ReportOK(stack, s, d) /\ stack = <<>>
      BY <2>1, <2>3 DEF RunOK, ReportsOK, J!Idle
    <3>2. \A e : ~IsToRead(stack, s, e)
      BY <3>1 DEF IsToRead
    <3>3. QED
      BY <3>1, <3>2 DEF ReportOK
  <2>4. QED
    BY <2>2, <2>3
<1>5. J!CrashesAreKnown
  BY DEF SlotsInv, CrashOK, J!CrashesAreKnown, J!Alive
<1>6. QED
  BY <1>2, <1>3, <1>4, <1>5

--------------------------------------------------------------------------------
(* The invariant holds *)

LEMMA SlotsInit ==
  ASSUME J!Init
  PROVE  SlotsInv /\ FreeOK
<1>1. PICK u : u = stack
  OBVIOUS
<1>2. /\ driver \in Driver /\ xinput \in BOOLEAN /\ (driver = "cocoa" => ~xinput)
      /\ plugged = {} /\ index = [p \in Pad |-> 0] /\ at = [d \in J!Device |-> J!Rest]
      /\ notices = <<>> /\ initialized = FALSE /\ js = [s \in J!Slot |-> J!Free]
      /\ u = <<>> /\ crash = "none" /\ skipped = {} /\ plugs = 0 /\ moves = 0 /\ failures = 0
  BY <1>1 DEF J!Init
<1>3. \A k \in J!Slot : js[k] = J!Free /\ ~js[k].allocated /\ ~js[k].connected
                        /\ ~js[k].xinput /\ js[k].device = NoDevice /\ js[k].stale
                        /\ js[k].axis = <<1, 2>>
  BY <1>2, FreeIs
<1>4. J!Rest \in PadPosition /\ J!Rest.hat # J!Direction
  BY PositionsAre
<1>5. DOMAIN notices = {} /\ DOMAIN u = {}
  BY <1>2
<1>6. SlotsTyped
  <2>1. IsFiniteSet(plugged)
    BY <1>2, FS_EmptySet
  <2>2. /\ index \in [Pad -> J!Index] /\ at \in [J!Device -> PadPosition]
        /\ js \in [J!Slot -> JoystickType]
    BY <1>2, <1>4, FreeIs, SlotsAre
  <2>3. plugs \in 0..MaxPlugs /\ moves \in 0..MaxMoves /\ failures \in 0..MaxFailures
    BY <1>2, BoundsAre
  <2>4. notices \in Seq(NoticeType) /\ stack \in Seq(J!Call)
    BY <1>1, <1>2
  <2>5. QED
    BY <1>2, <2>1, <2>2, <2>3, <2>4 DEF SlotsTyped
<1>7. PadsOK
  BY <1>2, <1>4 DEF PadsOK
<1>8. SlotsOK /\ SlotsApart
  BY <1>3 DEF SlotsOK, SlotOK, SlotsApart, Alike
<1>9. CallsOK(stack) /\ ClosingOK(stack)
  BY <1>1, <1>3, <1>5 DEF CallsOK, ClosingOK, Closing
<1>10. StartOK(stack) /\ ~Started(stack)
  BY <1>1, <1>2, <1>3 DEF StartOK, Started, Starting
<1>11. Win32OK(stack)
  BY <1>2, <1>3, <1>10 DEF Win32OK, DueOK, ListedOK, SkippedOK
<1>12. CocoaOK(stack)
  BY <1>2, <1>5, <1>10 DEF CocoaOK, NoticesOK, MatchedOK
<1>13. ReportsOK(stack)
  BY <1>2 DEF ReportsOK
<1>14. RunOK(stack)
  BY <1>7, <1>8, <1>9, <1>10, <1>11, <1>12, <1>13 DEF RunOK
<1>15. QED
  BY <1>2, <1>3, <1>6, <1>14 DEF SlotsInv, CrashOK, FreeOK

\* A step that the program dies of leaves the slots as they are.
LEMMA CrashStops ==
  ASSUME SlotsTyped, J!Next
  PROVE  J!Alive /\ (crash' = crash \/ js' = js)
<1>1. CASE J!Hardware
  BY <1>1 DEF J!Hardware, J!Plug, J!Unplug, J!Move
<1>2. CASE J!Setup
  BY <1>2 DEF J!Setup, J!BeginInit, J!InitDone, J!Terminate, J!Idle, J!Running
<1>3. CASE J!HandleNotice
  <2>1. J!Alive
    BY <1>3 DEF J!HandleNotice, J!Idle, J!Running
  <2>2. PICK n : n = Head(notices)
    OBVIOUS
  <2>3. n.what \in {"arrival", "removal"} /\ driver \in {"win32", "cocoa"}
    <3>1. notices \in Seq(NoticeType) /\ notices # <<>>
      BY <1>3 DEF SlotsTyped, J!HandleNotice
    <3>2. n \in NoticeType
      BY <2>2, <3>1
    <3>3. QED
      BY <3>2, SlotsAre DEF SlotsTyped, NoticeType
  <2>4. J!Match(n.device, stack) \/ J!Remove(n.device, stack) \/ (js' = js /\ crash' = crash)
    BY <1>3, <2>2, <2>3 DEF J!HandleNotice
  <2>5. CASE J!Match(n.device, stack)
    <3>1. (crash' = "no slot" /\ js' = js) \/ crash' = crash
      BY <2>5 DEF J!Match
    <3>2. QED
      BY <2>1, <3>1
  <2>6. CASE J!Remove(n.device, stack)
    BY <2>1, <2>6 DEF J!Remove
  <2>7. QED
    BY <2>1, <2>4, <2>5, <2>6
<1>4. CASE J!DetectPad \/ J!DetectDone \/ J!EndClose \/ \E d \in J!Device : J!DetectStick(d)
  BY <1>4 DEF J!DetectPad, J!DetectDone, J!EndClose, J!DetectStick, J!OnlyStack, J!Detecting,
              J!Running
<1>5. CASE J!Loop("presence", "presence") \/ J!Loop("pollAll", "all") \/ J!PollDone
  BY <1>5 DEF J!Loop, J!PollDone, J!OnlyStack, J!Running
<1>6. CASE J!ReadAxis
  BY <1>6 DEF J!ReadAxis, J!Reading, J!Running
<1>7. CASE J!ReadButton
  BY <1>7 DEF J!ReadButton, J!Reading, J!Running
<1>8. CASE J!ReadHat
  BY <1>8 DEF J!ReadHat, J!Reading, J!Running
<1>9. CASE J!Application
  BY <1>9 DEF J!Application, J!PollAllJoysticks, J!CallbackReturns, J!PollJoystick, J!OnlyStack,
              J!Idle, J!AppRuns, J!Running
<1>10. QED
  BY <1>1, <1>2, <1>3, <1>4, <1>5, <1>6, <1>7, <1>8, <1>9
  DEF J!Next, J!Connections, J!Polling

LEMMA SlotsNext ==
  ASSUME SlotsInv, J!Next
  PROVE  SlotsInv' /\ FreeOK'
<1>1. SlotsInv'
  <2>1. CASE J!Hardware
    BY <2>1, PlugIsSafe, UnplugIsSafe, MoveIsSafe DEF J!Hardware
  <2>2. CASE J!Setup
    BY <2>2, BeginInitIsSafe, InitDoneIsSafe, TerminateIsSafe DEF J!Setup
  <2>3. CASE J!Connections
    BY <2>3, HandleNoticeIsSafe, DetectPadIsSafe, DetectDoneIsSafe, EndCloseIsSafe,
       DetectStickIsSafe DEF J!Connections
  <2>4. CASE J!Polling
    <3>1. CASE J!Loop("presence", "presence")
      <4>1. PICK fn \in {"presence", "pollAll"},
                 what \in {"presence", "axes", "buttons", "all"} : J!Loop(fn, what)
        BY <3>1
      <4>2. QED
        BY <4>1, LoopIsSafe
    <3>2. CASE J!Loop("pollAll", "all")
      <4>1. PICK fn \in {"presence", "pollAll"},
                 what \in {"presence", "axes", "buttons", "all"} : J!Loop(fn, what)
        BY <3>2
      <4>2. QED
        BY <4>1, LoopIsSafe
    <3>3. QED
      BY <2>4, <3>1, <3>2, ReadAxisIsSafe, ReadButtonIsSafe, ReadHatIsSafe, PollDoneIsSafe
      DEF J!Polling
  <2>5. CASE J!Application
    <3>1. CASE J!PollAllJoysticks \/ J!CallbackReturns
      BY <3>1, PollAllIsSafe, PollDoneIsSafe
    <3>2. CASE \E s \in J!Slot, what \in {"presence", "axes", "buttons", "all"} :
                  J!PollJoystick(s, what)
      <4>1. PICK k \in J!Slot, what \in {"presence", "axes", "buttons", "all"} :
                   J!PollJoystick(k, what)
        BY <3>2
      <4>2. QED
        BY <4>1, PollJoystickIsSafe
    <3>3. QED
      BY <2>5, <3>1, <3>2 DEF J!Application
  <2>6. QED
    BY <2>1, <2>2, <2>3, <2>4, <2>5 DEF J!Next
<1>2. FreeOK'
  <2>1. J!Alive /\ (crash' = crash \/ js' = js)
    BY CrashStops DEF SlotsInv
  <2>2. CASE crash' = crash
    <3>1. RunOK(stack)'
      BY <1>1, <2>1, <2>2 DEF SlotsInv, J!Alive
    <3>2. QED
      BY <3>1 DEF RunOK, SlotsOK, SlotOK, FreeOK
  <2>3. CASE js' = js
    <3>1. RunOK(stack)
      BY <2>1 DEF SlotsInv
    <3>2. FreeOK
      BY <3>1 DEF RunOK, SlotsOK, SlotOK, FreeOK
    <3>3. QED
      BY <2>3, <3>2 DEF FreeOK
  <2>4. QED
    BY <2>1, <2>2, <2>3
<1>3. QED
  BY <1>1, <1>2

LEMMA SlotsUnchanged ==
  ASSUME SlotsInv, FreeOK, UNCHANGED controllers
  PROVE  SlotsInv' /\ FreeOK'
<1>1. /\ UNCHANGED J!system /\ js' = js /\ stack' = stack /\ crash' = crash
      /\ UNCHANGED <<notices, initialized, skipped, failures>>
  BY DEF controllers, J!system
<1>2. SlotsTyped
  BY DEF SlotsInv
<1>3. J!Alive => SlotsInv'
  <2> SUFFICES ASSUME J!Alive
               PROVE  SlotsInv'
    OBVIOUS
  <2>1. PICK u \in Seq(J!Call) : u = stack
    BY <1>2 DEF SlotsTyped
  <2>2. RunOK(u)'
    BY <1>1, <1>2, <2>1, StillRunOK DEF SlotsInv, NothingElse, J!system
  <2>3. QED
    BY <1>1, <1>2, <2>1, <2>2, StepIsSafe DEF SlotsTyped
<1>4. ~J!Alive => SlotsInv'
  <2>1. SlotsTyped'
    BY <1>1, <1>2 DEF SlotsTyped, J!system
  <2>2. CrashOK'
    BY <1>1 DEF SlotsInv, CrashOK, J!HasSlot, J!system
  <2>3. QED
    BY <1>1, <2>1, <2>2 DEF SlotsInv, J!Alive
<1>5. FreeOK'
  BY <1>1 DEF FreeOK
<1>6. QED
  BY <1>3, <1>4, <1>5

\* Each device is in one slot, its state is current when it is read, and what the
\* program can die of is known, on any number of slots, indices and devices, whatever
\* comes, goes and moves and whatever the callbacks poll (win32_joystick.cpp and
\* cocoa_joystick.m).
THEOREM ControllersInSyncAlways == DevicesSpec => []ControllersInSync
<1> DEFINE Inv == subject = "controllers" => SlotsInv /\ FreeOK
<1>1. DevicesInit => Inv
  BY SlotsInit DEF DevicesInit
<1>2. Inv /\ [DevicesNext]_<<subject, vars, controllers, seatVars>> => Inv'
  <2> SUFFICES ASSUME Inv, [DevicesNext]_<<subject, vars, controllers, seatVars>>,
                      subject' = "controllers"
               PROVE  SlotsInv' /\ FreeOK'
    OBVIOUS
  <2>1. CASE subject = "controllers" /\ J!Next
    <3>1. SlotsInv
      BY <2>1
    <3>2. QED
      BY <2>1, <3>1, SlotsNext
  <2>2. CASE UNCHANGED controllers /\ UNCHANGED subject
    <3>1. SlotsInv /\ FreeOK
      BY <2>2
    <3>2. QED
      BY <2>2, <3>1, SlotsUnchanged
  <2>3. QED
    BY <2>1, <2>2 DEF DevicesNext
<1>3. Inv => ControllersInSync
  <2>1. SlotsInv /\ FreeOK => J!TypeOK /\ J!SlotsMatchDevices /\ J!ReportsAreCurrent
                              /\ J!CrashesAreKnown
    BY SlotsInvSays
  <2>2. QED
    BY <2>1 DEF ControllersInSync
<1>4. QED
  BY <1>1, <1>2, <1>3, PTL DEF DevicesSpec
================================================================================
