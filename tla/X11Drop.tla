------------------------------- MODULE X11Drop -------------------------------
(* Drag and drop on X11 (the XDND messages in processEvent,                  *)
(* src/src/linux/x11_window.cpp): programs that drag something over the      *)
(* window, the window's event queue and what the window answers.             *)
EXTENDS Naturals, Sequences

CONSTANTS
    Source,          \* programs that drag
    NoSource,        \* no source yet
    Version,         \* protocol versions of the sources
    XDND_VERSION,    \* _GRWL_XDND_VERSION
    MaxEvents        \* bound: messages that wait

DropAssumption ==
    /\ NoSource \notin Source
    /\ Version \subseteq Nat /\ XDND_VERSION \in Nat /\ MaxEvents \in Nat

VARIABLES
    xdnd,            \* _grwl.x11.xdnd
    alive,           \* the window exists
    inbox,           \* its events
    phase,           \* what each source does
    version,         \* its protocol version
    offers,          \* the sources that offer a list of files
    status,          \* what each was told of its position
    finished,        \* what each was told of its drop
    owner,           \* owner of the selection XdndSelection
    asked,           \* conversions that a source has to do
    refused,         \* sources that have refused one
    overtaken,       \* sources whose drop another drag followed too soon
    delivered,       \* sources whose files the drop callback got
    crashed          \* the assertion of _grwlInputDrop has failed

vars == <<xdnd, alive, inbox, phase, version, offers, status, finished, owner, asked,
          refused, overtaken, delivered, crashed>>

sources == <<phase, version, offers, owner>>

Init ==
    /\ xdnd = [source |-> NoSource, version |-> 0, format |-> FALSE]
    /\ alive = TRUE /\ crashed = FALSE
    /\ inbox = <<>>
    /\ phase = [s \in Source |-> "idle"]
    /\ version \in [Source -> Version]
    /\ offers \in SUBSET Source
    /\ status = [s \in Source |-> "none"]
    /\ finished = [s \in Source |-> "none"]
    /\ owner = NoSource
    /\ asked = {} /\ refused = {} /\ overtaken = {} /\ delivered = {}

--------------------------------------------------------------------------------
(* The sources.  The pointer is with one of them; one that has dropped waits. *)

Post(type, s, data) ==
    IF alive THEN inbox' = Append(inbox, [type |-> type, from |-> s, data |-> data])
             ELSE UNCHANGED inbox

Fits == Len(inbox) < MaxEvents

DragEnters(s) ==
    /\ alive /\ Fits
    /\ phase[s] = "idle" /\ \A r \in Source : phase[r] # "over"
    /\ phase' = [phase EXCEPT ![s] = "over"]
    /\ status' = [status EXCEPT ![s] = "none"]
    /\ owner' = s
    /\ Post("enter", s, "none")
    /\ UNCHANGED <<xdnd, alive, version, offers, finished, asked, refused, overtaken,
                   delivered, crashed>>

DragMoves(s) ==
    /\ Fits /\ phase[s] = "over" /\ status[s] # "asked"
    /\ status' = [status EXCEPT ![s] = "asked"]
    /\ Post("position", s, "none")
    /\ UNCHANGED <<sources, xdnd, alive, finished, asked, refused, overtaken, delivered,
                   crashed>>

DragLeaves(s) ==
    /\ Fits /\ phase[s] = "over"
    /\ phase' = [phase EXCEPT ![s] = "idle"]
    /\ Post("leave", s, "none")
    /\ UNCHANGED <<xdnd, alive, version, offers, status, finished, owner, asked, refused,
                   overtaken, delivered, crashed>>

DragDrops(s) ==
    /\ Fits /\ phase[s] = "over"
    /\ phase' = [phase EXCEPT ![s] = "dropped"]
    /\ Post("drop", s, "none")
    /\ UNCHANGED <<xdnd, alive, version, offers, status, finished, owner, asked, refused,
                   overtaken, delivered, crashed>>

\* A source converts what it drags, but not for a time at which it was not yet
\* the owner.
SourceConverts(r) ==
    /\ r \in asked /\ Fits
    /\ asked' = asked \ {r}
    /\ \/ /\ r.time \in {NoSource, r.owner}
          /\ \E data \in {"files", "comments", "empty"} : Post("data", r.owner, data)
          /\ UNCHANGED refused
       \/ /\ refused' = refused \union {r.for}
          /\ Post("refusal", r.owner, "none")
    /\ UNCHANGED <<sources, xdnd, alive, status, finished, overtaken, delivered, crashed>>

--------------------------------------------------------------------------------
(* The window. *)

First(type) == alive /\ ~crashed /\ inbox # <<>> /\ Head(inbox).type = type

Supported == xdnd.version <= XDND_VERSION

\* The sources whose drop is not answered yet.
Unanswered == {s \in Source : phase[s] = "dropped" /\ finished[s] = "none"}

\* XdndEnter.  An unsupported source leaves without a format.
HandleEnter ==
    /\ First("enter")
    /\ LET s == Head(inbox).from IN
       /\ xdnd' = [source |-> s, version |-> version[s],
                   format |-> version[s] <= XDND_VERSION /\ s \in offers]
       /\ overtaken' = overtaken \union (Unanswered \ {s})
    /\ inbox' = Tail(inbox)
    /\ UNCHANGED <<sources, alive, status, finished, asked, refused, delivered, crashed>>

\* XdndPosition: the answer goes to the source of the last XdndEnter.
HandlePosition ==
    /\ First("position")
    /\ inbox' = Tail(inbox)
    /\ status' = IF Supported
                 THEN [status EXCEPT ![xdnd.source] = IF xdnd.format THEN "yes" ELSE "no"]
                 ELSE status
    /\ UNCHANGED <<sources, xdnd, alive, finished, asked, refused, overtaken, delivered,
                   crashed>>

\* Fault: the time of the drop is never passed on.
TimeIgnored(s) == NoSource

\* The first version has no time: the conversion is asked for the current one.
Time(s) == IF xdnd.version >= 1 THEN s ELSE NoSource

\* Fault: a drop that cannot be used is not answered.
RejectsSilently == FALSE

Rejects == ~xdnd.format /\ xdnd.version >= 2

HandleDrop ==
    /\ First("drop")
    /\ inbox' = Tail(inbox)
    /\ asked' = IF Supported /\ xdnd.format
                THEN asked \union {[owner |-> owner, for |-> Head(inbox).from,
                                    time |-> Time(Head(inbox).from)]}
                ELSE asked
    /\ finished' = IF Supported /\ Rejects
                   THEN [finished EXCEPT ![xdnd.source] = "rejected"]
                   ELSE finished
    /\ UNCHANGED <<sources, xdnd, alive, status, refused, overtaken, delivered, crashed>>

\* SelectionNotify with the files; a list of comments has no path and fails the
\* assertion.  XdndFinished goes to the source of the last XdndEnter.
HandleData ==
    /\ First("data")
    /\ inbox' = Tail(inbox)
    /\ LET event == Head(inbox) IN
       /\ delivered' = IF event.data = "files" THEN delivered \union {event.from} ELSE delivered
       /\ crashed' = (event.data = "comments")
       /\ finished' = IF xdnd.version >= 2 /\ event.data # "comments"
                      THEN [finished EXCEPT ![xdnd.source] =
                              IF event.data = "empty" THEN "rejected" ELSE "accepted"]
                      ELSE finished
    /\ UNCHANGED <<sources, xdnd, alive, status, asked, refused, overtaken>>

\* XdndLeave is not handled, and neither is an answer without a property.
HandleOther ==
    /\ First("leave") \/ First("refusal")
    /\ inbox' = Tail(inbox)
    /\ UNCHANGED <<sources, xdnd, alive, status, finished, asked, refused, overtaken,
                   delivered, crashed>>

\* Events of a window that has been destroyed are ignored.
DestroyWindow ==
    /\ alive /\ ~crashed
    /\ alive' = FALSE /\ inbox' = <<>>
    /\ UNCHANGED <<sources, xdnd, status, finished, asked, refused, overtaken, delivered,
                   crashed>>

Next ==
    \/ \E s \in Source : DragEnters(s) \/ DragMoves(s) \/ DragLeaves(s) \/ DragDrops(s)
    \/ \E r \in asked : SourceConverts(r)
    \/ HandleEnter \/ HandlePosition \/ HandleDrop \/ HandleData \/ HandleOther
    \/ DestroyWindow

Spec == Init /\ [][Next]_vars

--------------------------------------------------------------------------------
(* Properties. *)

\* Types of the variables.
TypeOK ==
    /\ xdnd \in [source : Source \union {NoSource}, version : Version \union {0},
                 format : BOOLEAN]
    /\ alive \in BOOLEAN /\ crashed \in BOOLEAN
    /\ inbox \in Seq([type : {"enter", "position", "leave", "drop", "data", "refusal"},
                      from : Source, data : {"none", "files", "comments", "empty"}])
    /\ Len(inbox) <= MaxEvents
    /\ phase \in [Source -> {"idle", "over", "dropped"}]
    /\ version \in [Source -> Version] /\ offers \subseteq Source
    /\ status \in [Source -> {"none", "asked", "yes", "no"}]
    /\ finished \in [Source -> {"none", "accepted", "rejected"}]
    /\ owner \in Source \union {NoSource}
    /\ asked \subseteq [owner : Source, for : Source, time : Source \union {NoSource}]
    /\ refused \subseteq Source /\ overtaken \subseteq Source /\ delivered \subseteq Source

\* The files that the drop callback gets are of a source that has dropped them,
\* and offers files at all: although another drag has begun by the time the
\* window handles the drop, and owns the selection.  Only a source without time
\* stamps spoils it.
FilesWereDropped ==
    \A s \in delivered :
      (phase[s] = "dropped" /\ s \in offers) \/ \E r \in Source : version[r] = 0

\* When nothing is under way any more, every source that has dropped has been
\* told how it ended, unless its protocol has no such message or is too new, it
\* has refused to convert, or the next drag came before the answer.
DropsAreAnswered ==
    (alive /\ ~crashed /\ inbox = <<>> /\ asked = {}) =>
      \A s \in Unanswered :
        version[s] < 2 \/ version[s] > XDND_VERSION \/ s \in refused \union overtaken
================================================================================
