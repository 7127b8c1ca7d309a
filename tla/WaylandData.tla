------------------------------- MODULE WaylandData -------------------------------
(* The clipboard and drag and drop on Wayland (src/src/linux/wl_window.cpp). *)
(*                                                                           *)
(* The compositor announces a data offer, and then says what it is for: the  *)
(* selection, or a drag that has entered a surface.  The client owns the     *)
(* offer from then on, and must destroy it once.  The events wait on the     *)
(* wire; requests reach the compositor at once, since nobody sees the delay. *)
EXTENDS Integers, Sequences, FiniteSets

CONSTANTS
    Window, NoWindow,
    Offer, NoOffer,      \* the ids of data offers; an id is used again
    DataSource, NoSource,
    Text, NoText,        \* strings; NoText is the null pointer
    PeerText,            \* what another client has on the clipboard
    MaxEvents,           \* bound: events on the wire
    MaxFailures          \* bound: allocations that fail, requests that are ignored

ASSUME DataAssumption ==
    /\ NoOffer \notin Offer /\ NoSource \notin DataSource
    /\ NoWindow \notin Window /\ "frame" \notin Window
    /\ (Window \union {"frame", NoWindow}) \intersect (DataSource \union {NoSource}) = {}
    /\ NoText \notin Text \union {PeerText, "empty"}
    /\ MaxEvents \in Nat /\ MaxFailures \in Nat

VARIABLES
    open,                \* windows
    offers,              \* wl.offers: announced, and not yet for anything
    dragOffer, dragFocus,
    selectionOffer, selectionSource,
    clipboardString,
    live,                \* offers that have not been destroyed
    wire,                \* events that have not been dispatched
    owner,               \* the compositor: "us", "peer" or "nobody"
    peer,                \* the peer's selection: text, or data of other kinds
    focused,             \* the compositor: we have the keyboard focus
    drag,                \* the compositor: what the drag is over
    origin,              \* where the data of an offer comes from
    lost,                \* offers that an allocation failure has lost
    ignored,             \* the compositor has ignored our selection
    read,                \* what grwlGetClipboardString just now returned
    crashed, failures

client == <<open, offers, dragOffer, dragFocus, selectionOffer, selectionSource,
            clipboardString>>
compositor == <<owner, peer, focused, drag, origin>>
history == <<lost, ignored, failures>>
vars == <<client, live, wire, compositor, history, read, crashed>>

--------------------------------------------------------------------------------
(* The compositor. *)

NoRead == [quiet |-> FALSE, itself |-> FALSE, got |-> NoText,
           want |-> NoText]

Init ==
    /\ open = Window
    /\ offers = {} /\ live = {} /\ wire = <<>> /\ lost = {}
    /\ dragOffer = NoOffer /\ selectionOffer = NoOffer
    /\ dragFocus = NoWindow /\ drag = NoWindow
    /\ selectionSource = NoSource /\ clipboardString = NoText
    /\ owner = "nobody" /\ peer = "text" /\ focused = FALSE /\ ignored = FALSE
    /\ origin = [o \in Offer |-> "gone"]
    /\ read = NoRead
    /\ crashed = "none" /\ failures = 0

Announced == {wire[i].offer : i \in DOMAIN wire} \ {NoOffer}

FreeOffers == Offer \ (live \union Announced)

Event(kind, offer, mime, at) == [kind |-> kind, offer |-> offer, mime |-> mime, at |-> at]

Send(events) ==
    /\ Len(wire) + Len(events) <= MaxEvents
    /\ wire' = wire \o events

\* The source of the selection changes: what was offered of it is gone.
\* The client is told if it has the focus, and a source that lost, always.
Selects(who, kind, told) ==
    /\ owner' = who /\ peer' = IF who = "peer" THEN kind ELSE "text"
    /\ LET gone == [o \in Offer |-> IF origin[o] = "drag" THEN "drag" ELSE "gone"] IN
       IF ~focused \/ who = "nobody"
       THEN /\ origin' = gone
            /\ Send(told \o IF focused THEN <<Event("selection", NoOffer, "none", NoSource)>>
                                       ELSE <<>>)
       ELSE \E o \in FreeOffers :
              /\ origin' = [gone EXCEPT ![o] = who]
              /\ Send(told \o <<Event("offer", o, IF who = "us" THEN "text" ELSE kind, NoSource),
                                Event("selection", o, "none", NoSource)>>)

Cancelled ==
    IF owner = "us" THEN <<Event("cancelled", NoOffer, "none", selectionSource)>> ELSE <<>>

PeerSelects ==
    /\ \E kind \in {"text", "uri"} : Selects("peer", kind, Cancelled)
    /\ UNCHANGED <<client, live, focused, drag, history, crashed>>

PeerIsGone ==
    /\ owner = "peer" /\ Selects("nobody", peer, <<>>)
    /\ UNCHANGED <<client, live, focused, drag, history, crashed>>

\* With the keyboard focus comes the selection as it is.
FocusIn ==
    /\ ~focused /\ focused' = TRUE
    /\ IF owner = "nobody"
       THEN origin' = origin /\ Send(<<Event("selection", NoOffer, "none", NoSource)>>)
       ELSE \E o \in FreeOffers :
              /\ origin' = [origin EXCEPT ![o] = owner]
              /\ Send(<<Event("offer", o, IF owner = "us" THEN "text" ELSE peer, NoSource),
                        Event("selection", o, "none", NoSource)>>)
    /\ UNCHANGED <<client, live, owner, peer, drag, history, crashed>>

FocusOut ==
    /\ focused /\ focused' = FALSE
    /\ UNCHANGED <<client, live, wire, owner, peer, drag, origin, history, crashed>>

\* at: a window, or "frame", a surface that libdecor has made.
DragEnter ==
    /\ drag = NoWindow
    /\ \E o \in FreeOffers, at \in open \union {"frame"}, mime \in {"text", "uri"} :
         /\ drag' = at
         /\ origin' = [origin EXCEPT ![o] = "drag"]
         /\ Send(<<Event("offer", o, mime, NoSource), Event("enter", o, "none", at)>>)
    /\ UNCHANGED <<client, live, owner, peer, focused, history, crashed>>

DragEnds ==
    /\ drag # NoWindow
    /\ drag' = NoWindow
    /\ \E kind \in {"leave", "drop"} : Send(<<Event(kind, NoOffer, "none", NoSource)>>)
    /\ UNCHANGED <<client, live, owner, peer, focused, origin, history, crashed>>

\* The peer asks for our selection.
PeerReads ==
    /\ owner = "us"
    /\ Send(<<Event("send", NoOffer, "none", selectionSource)>>)
    /\ UNCHANGED <<client, live, compositor, history, crashed>>

--------------------------------------------------------------------------------
(* The handlers of the events. *)

Next1(kind) == crashed = "none" /\ wire # <<>> /\ Head(wire).kind = kind

\* dataDeviceHandleDataOffer, with the dataOfferHandleOffer that follow it.
HandleDataOffer ==
    /\ Next1("offer")
    /\ LET e == Head(wire) IN
       /\ live' = live \union {e.offer}
       /\ \/ /\ offers' = offers \union {[offer |-> e.offer, mime |-> e.mime]}
             /\ UNCHANGED history
          \/ /\ failures < MaxFailures /\ failures' = failures + 1
             /\ lost' = lost \union {e.offer}
             /\ UNCHANGED <<offers, ignored>>
    /\ wire' = Tail(wire)
    /\ UNCHANGED <<open, dragOffer, dragFocus, selectionOffer, selectionSource,
                   clipboardString, compositor, crashed>>

Listed(o) == \E r \in offers : r.offer = o

Has(o, mime) == [offer |-> o, mime |-> mime] \in offers

\* Fault: the array is not shortened when its last entry is taken.
WithoutLast(o) == IF Cardinality(offers) > 1 THEN {r \in offers : r.offer # o} ELSE offers

\* The entry is overwritten by the last one, and the array shortened.
Without(o) == {r \in offers : r.offer # o}

\* The window of the surface; a surface that is destroyed is null in the event.
Entered(at) == IF at \in open THEN at ELSE NoWindow

\* The window is not tested before its surface is compared, nor the surface
\* before its tag is.
EnterCrashes(e) ==
    IF e.at = "frame" THEN Listed(e.offer) ELSE e.at \notin open

HandleEnter ==
    /\ Next1("enter")
    /\ LET e == Head(wire)
           takes == Has(e.offer, "uri") IN
       IF EnterCrashes(e)
       THEN /\ crashed' = "enter"
            /\ UNCHANGED <<client, live, lost>>
       ELSE /\ dragOffer' = IF takes THEN e.offer ELSE NoOffer
            /\ dragFocus' = IF takes THEN Entered(e.at) ELSE NoWindow
            /\ offers' = Without(e.offer)
            /\ live' = (live \ {dragOffer})
                         \ (IF takes \/ e.at = "frame" THEN {} ELSE {e.offer})
            /\ lost' = IF e.at = "frame" THEN lost ELSE lost \ {e.offer}
            /\ UNCHANGED <<open, selectionOffer, selectionSource, clipboardString, crashed>>
    /\ wire' = Tail(wire)
    /\ UNCHANGED <<compositor, ignored, failures>>

HandleLeave ==
    /\ Next1("leave")
    /\ live' = live \ {dragOffer}
    /\ dragOffer' = NoOffer
    /\ dragFocus' = IF dragOffer = NoOffer THEN dragFocus ELSE NoWindow
    /\ wire' = Tail(wire)
    /\ UNCHANGED <<open, offers, selectionOffer, selectionSource, clipboardString,
                   compositor, history, crashed>>

\* The paths go to dragFocus, which may have been destroyed.  The offer is kept
\* until the next drag enters or leaves.
HandleDrop ==
    /\ Next1("drop")
    /\ crashed' = IF dragOffer # NoOffer /\ dragFocus \notin open THEN "drop" ELSE "none"
    /\ wire' = Tail(wire)
    /\ UNCHANGED <<client, live, compositor, history>>

HandleSelection ==
    /\ Next1("selection")
    /\ LET o == Head(wire).offer IN
       /\ selectionOffer' = IF Has(o, "text") THEN o ELSE NoOffer
       /\ live' = (live \ {selectionOffer}) \ (IF Has(o, "uri") THEN {o} ELSE {})
       /\ offers' = Without(o)
    /\ wire' = Tail(wire)
    /\ UNCHANGED <<open, dragOffer, dragFocus, selectionSource, clipboardString,
                   compositor, history, crashed>>

\* Fault: the pointer to the source is kept.
StillOursAfter(source) == selectionSource

\* Events of a source that the client has destroyed are dropped.
OursAfter(source) == IF selectionSource = source THEN NoSource ELSE selectionSource

HandleCancelled ==
    /\ Next1("cancelled")
    /\ selectionSource' = OursAfter(Head(wire).at)
    /\ wire' = Tail(wire)
    /\ UNCHANGED <<open, offers, dragOffer, dragFocus, selectionOffer, clipboardString,
                   live, compositor, history, crashed>>

\* The string is written without a test.
HandleSend ==
    /\ Next1("send")
    /\ crashed' = IF selectionSource = Head(wire).at /\ clipboardString = NoText
                 THEN "send" ELSE "none"
    /\ wire' = Tail(wire)
    /\ UNCHANGED <<client, live, compositor, history>>

--------------------------------------------------------------------------------
(* The program. *)

FreeSources == DataSource \ ({selectionSource} \union {wire[i].at : i \in DOMAIN wire})

\* To destroy the source of the selection is to clear the selection.
ClearSelection ==
    IF owner = "us" THEN Selects("nobody", peer, <<>>)
                    ELSE UNCHANGED <<owner, peer, origin, wire>>

\* The source exists when the selection is set; the compositor may ignore that
\* if the serial is too old.
SetClipboardString(text) ==
    /\ crashed = "none"
    /\ clipboardString' = text
    /\ \E s \in FreeSources :
         /\ selectionSource' = s
         /\ \/ ignored' = FALSE /\ Selects("us", peer, <<>>) /\ UNCHANGED failures
            \/ /\ failures < MaxFailures /\ failures' = failures + 1
               /\ ignored' = TRUE /\ ClearSelection
    /\ UNCHANGED <<open, offers, dragOffer, dragFocus, selectionOffer, live, lost,
                   focused, drag, crashed>>

\* The copy of the string, or the new source, cannot be had: the old source is
\* destroyed already.
FailToSetClipboardString(text) ==
    /\ crashed = "none" /\ failures < MaxFailures /\ failures' = failures + 1
    /\ selectionSource' = NoSource
    /\ clipboardString' \in {clipboardString, text}
    /\ ignored' = FALSE
    /\ ClearSelection
    /\ UNCHANGED <<open, offers, dragOffer, dragFocus, selectionOffer, live, lost,
                   focused, drag, crashed>>

\* What the other end of the pipe writes.  Our own source would never write.
Received(o) == IF origin[o] = "peer" THEN PeerText ELSE "empty"

Want ==
    CASE owner = "us" -> clipboardString
      [] owner = "peer" /\ peer = "text" -> PeerText
      [] OTHER -> NoText

\* Fault: the clipboard is read through the compositor, like any other.
GotByOffer == IF selectionOffer = NoOffer THEN NoText ELSE Received(selectionOffer)

Got ==
    IF selectionOffer = NoOffer THEN NoText
    ELSE IF selectionSource # NoSource THEN clipboardString
    ELSE Received(selectionOffer)

Kept == IF Got = NoText THEN clipboardString ELSE Got

GetClipboardString ==
    /\ crashed = "none"
    /\ read' = [quiet |-> /\ wire = <<>> /\ focused /\ ~ignored
                          /\ \A o \in lost : origin[o] \in {"drag", "gone"},
                itself |-> Got # NoText /\ selectionSource = NoSource
                           /\ origin[selectionOffer] = "us",
                got |-> Got, want |-> Want]
    /\ clipboardString' = Kept
    /\ UNCHANGED <<open, offers, dragOffer, dragFocus, selectionOffer, selectionSource,
                   live, wire, compositor, history, crashed>>

\* The compositor notices that the surface is gone; the client's pointers to
\* the window stay.
DestroyWindow(w) ==
    /\ crashed = "none" /\ w \in open
    /\ open' = open \ {w}
    /\ IF drag = w
       THEN drag' = NoWindow /\ Send(<<Event("leave", NoOffer, "none", NoSource)>>)
       ELSE UNCHANGED <<drag, wire>>
    /\ UNCHANGED <<offers, dragOffer, dragFocus, selectionOffer, selectionSource,
                   clipboardString, live, owner, peer, focused, origin, history, crashed>>

CreateWindow(w) ==
    /\ crashed = "none" /\ w \notin open
    /\ \A i \in DOMAIN wire : wire[i].at # w
    /\ dragFocus # w
    /\ open' = open \union {w}
    /\ UNCHANGED <<offers, dragOffer, dragFocus, selectionOffer, selectionSource,
                   clipboardString, live, wire, compositor, history, crashed>>

Next ==
    \/ GetClipboardString
    \/ /\ read' = NoRead
       /\ \/ crashed = "none" /\ (PeerSelects \/ PeerIsGone \/ FocusIn \/ FocusOut
                              \/ DragEnter \/ DragEnds \/ PeerReads)
          \/ HandleDataOffer \/ HandleEnter \/ HandleLeave \/ HandleDrop
          \/ HandleSelection \/ HandleCancelled \/ HandleSend
          \/ \E t \in Text : SetClipboardString(t) \/ FailToSetClipboardString(t)
          \/ \E w \in Window : DestroyWindow(w) \/ CreateWindow(w)

Spec == Init /\ [][Next]_vars

--------------------------------------------------------------------------------
(* Properties. *)

EventType == [kind : {"offer", "enter", "leave", "drop", "selection", "cancelled", "send"},
              offer : Offer \union {NoOffer}, mime : {"none", "text", "uri"},
              at : Window \union {"frame"} \union DataSource \union {NoSource}]

\* Types of the variables.
TypeOK ==
    /\ open \subseteq Window
    /\ offers \subseteq [offer : Offer, mime : {"text", "uri"}]
    /\ {dragOffer, selectionOffer} \subseteq Offer \union {NoOffer}
    /\ dragFocus \in Window \union {NoWindow}
    /\ selectionSource \in DataSource \union {NoSource}
    /\ clipboardString \in Text \union {NoText, PeerText, "empty"}
    /\ live \subseteq Offer /\ lost \subseteq Offer
    /\ wire \in Seq(EventType) /\ Len(wire) <= MaxEvents
    /\ drag \in Window \union {"frame", NoWindow}
    /\ owner \in {"us", "peer", "nobody"} /\ peer \in {"text", "uri"}
    /\ origin \in [Offer -> {"us", "peer", "drag", "gone"}]
    /\ focused \in BOOLEAN /\ ignored \in BOOLEAN /\ crashed \in {"none", "enter", "drop", "send"}
    /\ failures \in 0..MaxFailures

\* Every data offer has exactly one owner, so that it is destroyed once and not
\* twice, in whatever order selections and drags come and go; only an offer that
\* no entry could be allocated for has none (dataDeviceHandleDataOffer).
OffersOwned ==
    /\ live = {r.offer : r \in offers} \union ({dragOffer, selectionOffer} \ {NoOffer})
                \union lost
    /\ ~Listed(dragOffer) /\ ~Listed(selectionOffer)
    /\ dragOffer = selectionOffer => dragOffer = NoOffer

\* The clipboard that the program gets is the one that the compositor has, once
\* every event has been dispatched; unless the compositor has ignored our source,
\* which the client keeps for the selection, or no entry could be allocated for
\* its offer (_grwlGetClipboardStringWayland).
ReadsTheSelection == read.quiet => read.got = read.want

\* The client never waits for a pipe that it would have to write itself: that
\* would be for ever.
NeverReadsItself == ~read.itself

\* Our selection always has a string to send, whatever has been read into the
\* same variable since; drags can crash the program, over the frame of libdecor
\* and over a window that has been destroyed (dataSourceHandleSend).
CrashesOnlyOfDrags == crashed \in {"none", "enter", "drop"}

================================================================================
