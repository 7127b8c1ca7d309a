------------------------------ MODULE MC_Services ------------------------------
(* What the library takes from other programs and gives back: the clipboard  *)
(* and drags on Wayland (WaylandData), drags on X11 (X11Drop), the text that *)
(* input methods compose (Preedit), and all that initialization acquires     *)
(* (Platform).  They share no state: a behaviour is a behaviour of one of    *)
(* them; subject says which.                                                 *)
EXTENDS WaylandData, TLC

CONSTANTS
    Subject,                                    \* what to check
    Dragger, NoDragger, Version, XDND_VERSION,  \* X11Drop
    Method, Composed,                           \* Preedit
    Kind, MaxInits, MaxMissing, MaxUses         \* Platform

VARIABLES
    subject,
    xdnd, alive, inbox, phase, version, listed, status, finished, dragOwner, asked,
    refused, overtaken, delivered, asserted,
    method, im, pre, textRoom, blockRoom, bufferLost, seen, pending, charfun, partial,
    missed, allocations, dead,
    kind, job, at, held, kept, missing, ready, whole, again, blind, inits, uses

X == INSTANCE X11Drop
       WITH Source <- Dragger, NoSource <- NoDragger,
            offers <- listed, owner <- dragOwner, crashed <- asserted
I == INSTANCE Preedit
       WITH Platform <- Method, Text <- Composed,
            platform <- method, lost <- bufferLost, failures <- allocations
P == INSTANCE Platform WITH live <- held

MCComposed == LET L == "latin"  R == "rare"
              IN {<<L>>, <<R, L>>, <<L, R>>, <<R, R, R>>}

ASSUME ServicesAssumption == X!DropAssumption
ASSUME I!PlatformAssumption /\ I!TextAssumption

Symmetry == Permutations(Offer) \union Permutations(DataSource)

dataVars == <<open, offers, dragOffer, dragFocus, selectionOffer, selectionSource,
              clipboardString, live, wire, owner, peer, focused, drag, origin, lost,
              ignored, read, crashed, failures>>
dropVars == <<xdnd, alive, inbox, phase, version, listed, status, finished, dragOwner,
              asked, refused, overtaken, delivered, asserted>>
textVars == <<method, im, pre, textRoom, blockRoom, bufferLost, seen, pending, charfun,
              partial, missed, allocations, dead>>
initVars == <<kind, job, at, held, kept, missing, ready, whole, again, blind, inits, uses>>

\* What is not the subject stays in one of its initial states.
ServicesInit ==
    /\ subject \in Subject
    /\ Init /\ X!Init /\ I!Init /\ P!Init
    /\ subject # "drop" => listed = {}
                           /\ \A d \in Dragger : version[d] = 2
    /\ subject # "text" => method = "x11" /\ charfun

ServicesNext ==
    \/ subject = "data" /\ Next /\ UNCHANGED <<subject, dropVars, textVars, initVars>>
    \/ subject = "drop" /\ X!Next /\ UNCHANGED <<subject, dataVars, textVars, initVars>>
    \/ subject = "text" /\ I!Next /\ UNCHANGED <<subject, dataVars, dropVars, initVars>>
    \/ subject = "init" /\ P!Next /\ UNCHANGED <<subject, dataVars, dropVars, textVars>>

ServicesSpec ==
    ServicesInit /\ [][ServicesNext]_<<subject, dataVars, dropVars, textVars, initVars>>

--------------------------------------------------------------------------------
(* The properties of the modules, each with the types of its variables. *)

\* WaylandData: every offer is owned once, the clipboard is what is selected now,
\* never read from ourselves, and a program dies only of drags it cannot place.
ClipboardIsCurrent ==
    subject = "data" => /\ TypeOK /\ OffersOwned /\ ReadsTheSelection
                        /\ NeverReadsItself /\ CrashesOnlyOfDrags

\* X11Drop: files come from a drop, and every drop is answered.
DropsAreHonest ==
    subject = "drop" => X!TypeOK /\ X!FilesWereDropped /\ X!DropsAreAnswered

\* Preedit: the callback has been told of the text that is composed, and a
\* composition dies only of an allocation that failed or a missing callback.
PreeditIsTold ==
    subject = "text" => I!TypeOK /\ I!PreeditIsTold /\ I!DiesOnlyAsKnown

\* Platform: what was acquired is released, once, nothing is used that is not
\* there, and an API that is ready has all of its steps done.
ReleasedInOrder ==
    subject = "init" => /\ P!TypeOK /\ P!NothingStays /\ P!ReleasedOnce
                        /\ P!ReadyIsWhole /\ P!UsedAlive
================================================================================
