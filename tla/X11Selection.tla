------------------------------ MODULE X11Selection ------------------------------
(* Selections on X11 (src/src/linux/x11_window.cpp): several programs that   *)
(* use the library, another client, and the X server between them.           *)
(*                                                                           *)
(* A selection has no contents, only an owner, which converts it for each    *)
(* requestor.  A program answers requests when it processes events; while    *)
(* getSelectionString waits for an answer it processes none but that.        *)
EXTENDS Integers, Sequences

CONSTANTS
    Process,         \* programs that use the library
    Foreign,         \* another client, which also is the clipboard manager
    NoOne,           \* no owner; as a text: the null pointer
    Selection,       \* a subset of {"CLIPBOARD", "PRIMARY"}
    Targets,         \* bound: what the other client asks for
    MaxChunks        \* bound: parts of an incremental transfer

SelectionAssumption ==
    /\ Foreign \notin Process /\ NoOne \notin Process \union {Foreign}
    /\ Selection \subseteq {"CLIPBOARD", "PRIMARY"}
    /\ MaxChunks \in Nat

VARIABLES
    alive,           \* the programs that have not terminated the library
    crashed,         \* those that have dereferenced a null pointer
    owner,           \* the X server's owner of each selection
    string,          \* clipboardString and primarySelectionString, named for
                     \* whose text it is
    doing,           \* what each program waits for
    requests,        \* each program's SelectionRequest events
    asked,           \* the conversions that Foreign has to do
    answer,          \* each program's SelectionNotify event
    chunk,           \* each program's PropertyNotify event of a transfer
    sent,            \* parts that Foreign has sent to each
    seen             \* the owners of each selection since a program began to
                     \* read it and until it had

vars == <<alive, crashed, owner, string, doing, requests, asked, answer, chunk, sent, seen>>

--------------------------------------------------------------------------------
(* The X server. *)

Client == Process \union {Foreign}

Idle == [what |-> "idle", selection |-> "none", target |-> "none", from |-> NoOne]

NoAnswer == [kind |-> "nothing", text |-> NoOne]

Answer(kind, text) == [kind |-> kind, text |-> text]

Init ==
    /\ alive = Process /\ crashed = {}
    /\ owner = [s \in Selection |-> NoOne]
    /\ string = [p \in Process |-> [s \in Selection |-> NoOne]]
    /\ doing = [p \in Process |-> Idle]
    /\ requests = [p \in Process |-> <<>>]
    /\ asked = {}
    /\ answer = [c \in Client |-> NoAnswer]
    /\ chunk = [p \in Process |-> "none"]
    /\ sent = [p \in Process |-> 0]
    /\ seen = [p \in Process |-> [s \in Selection |-> {}]]

\* XSetSelectionOwner.
SetOwner(s, c) ==
    /\ owner' = [owner EXCEPT ![s] = c]
    /\ seen' = [p \in Process |->
                  IF doing[p].selection = s THEN [seen[p] EXCEPT ![s] = @ \union {c}]
                  ELSE seen[p]]

\* XConvertSelection: the owner gets the request; without an owner the server
\* answers that there is no conversion.
Convert(p, s, target) ==
    CASE owner[s] = NoOne ->
           /\ answer' = [answer EXCEPT ![p] = Answer("refused", NoOne)]
           /\ UNCHANGED <<requests, asked>>
      [] owner[s] = Foreign ->
           /\ asked' = asked \union {[by |-> p, selection |-> s, target |-> target]}
           /\ answer' = [answer EXCEPT ![p] = NoAnswer]
           /\ UNCHANGED requests
      [] OTHER ->
           /\ requests' = [requests EXCEPT ![owner[s]] =
                             Append(@, [by |-> p, selection |-> s, target |-> target])]
           /\ answer' = [answer EXCEPT ![p] = NoAnswer]
           /\ UNCHANGED asked

Runs(p) == p \in alive \ crashed

IsIdle(p) == Runs(p) /\ doing[p] = Idle

--------------------------------------------------------------------------------
(* A program. *)

\* grwlSetClipboardString and grwlSetX11SelectionString.
SetSelectionString(p, s) ==
    /\ IsIdle(p)
    /\ string' = [string EXCEPT ![p][s] = p]
    /\ SetOwner(s, p)
    /\ UNCHANGED <<alive, crashed, doing, requests, asked, answer, chunk, sent>>

\* Fault: the string is freed before the owner is looked up.
MayFreeFirst(p, s) == TRUE

\* What the program owns it returns as it is.
MayFree(p, s) == owner[s] # p

\* Fault: what was read before is kept until there is something new.
FreedLate(p, s) == string

Freed(p, s) == [string EXCEPT ![p][s] = NoOne]

\* getSelectionString, until it waits for the first conversion.
GetSelectionString(p, s) ==
    /\ IsIdle(p) /\ MayFree(p, s)
    /\ string' = Freed(p, s)
    /\ IF owner[s] = p
       THEN UNCHANGED <<doing, requests, asked, answer, seen>>
       ELSE /\ Convert(p, s, "UTF8_STRING")
            /\ doing' = [doing EXCEPT ![p] = [what |-> "notify", selection |-> s,
                                              target |-> "UTF8_STRING", from |-> owner[s]]]
            /\ seen' = [seen EXCEPT ![p][s] = {owner[s]}]
    /\ UNCHANGED <<alive, crashed, owner, chunk, sent>>

Return(p, text) ==
    /\ string' = [string EXCEPT ![p][doing[p].selection] = text]
    /\ doing' = [doing EXCEPT ![p] = Idle]
    /\ answer' = [answer EXCEPT ![p] = NoAnswer]
    /\ sent' = [sent EXCEPT ![p] = 0]
    /\ UNCHANGED <<requests, asked>>

\* The next target is tried, with whoever is the owner by then; after the last
\* the string is null, as it was since the call began.
TryNext(p) ==
    IF doing[p].target = "UTF8_STRING"
    THEN /\ Convert(p, doing[p].selection, "STRING")
         /\ doing' = [doing EXCEPT ![p] = [what |-> "notify", target |-> "STRING",
                                           selection |-> doing[p].selection,
                                           from |-> owner[doing[p].selection]]]
         /\ UNCHANGED <<string, sent>>
    ELSE Return(p, string[p][doing[p].selection])

\* The SelectionNotify event; every other event of the helper window is left.
Receive(p) ==
    /\ Runs(p) /\ doing[p].what = "notify"
    /\ \/ answer[p].kind = "refused" /\ TryNext(p)
       \/ answer[p].kind = "data" /\ Return(p, answer[p].text)
       \/ /\ answer[p].kind = "INCR"
          /\ doing' = [doing EXCEPT ![p].what = "chunks"]
          /\ UNCHANGED <<string, requests, asked, answer, sent>>
    /\ UNCHANGED <<alive, crashed, owner, chunk, seen>>

\* To read a part deletes it, and that asks for the next; an empty part is the
\* last.  No part at all is no string.
ReceiveChunk(p) ==
    /\ Runs(p) /\ doing[p].what = "chunks" /\ chunk[p] # "none"
    /\ chunk' = [chunk EXCEPT ![p] = "none"]
    /\ IF chunk[p] = "part"
       THEN UNCHANGED <<string, doing, requests, asked, answer, sent>>
       ELSE IF sent[p] = 0 THEN TryNext(p) ELSE Return(p, answer[p].text)
    /\ UNCHANGED <<alive, crashed, owner, seen>>

\* handleSelectionRequest.  The length of the string is taken without a test;
\* MULTIPLE takes it for every target that it knows.
Needed(target) == target \in {"UTF8_STRING", "STRING", "MULTIPLE"}

Converted(p, r) ==
    IF r.target \in {"TARGETS", "UTF8_STRING", "STRING", "MULTIPLE"}
    THEN Answer("data", IF Needed(r.target) THEN string[p][r.selection] ELSE NoOne)
    ELSE Answer("refused", NoOne)

\* Fault: nothing is served while the contents go to the clipboard manager.
ServesWhenIdle(p) == IsIdle(p)

\* Requests are served when events are processed, and while the contents of the
\* clipboard are pushed to the manager.
Serves(p) == Runs(p) /\ doing[p].what \in {"idle", "push"}

HandleSelectionRequest(p) ==
    /\ Serves(p) /\ requests[p] # <<>>
    /\ LET r == Head(requests[p]) IN
       IF Needed(r.target) /\ string[p][r.selection] = NoOne
       THEN crashed' = crashed \union {p} /\ UNCHANGED answer
       ELSE crashed' = crashed /\ answer' = [answer EXCEPT ![r.by] = Converted(p, r)]
    /\ requests' = [requests EXCEPT ![p] = Tail(@)]
    /\ UNCHANGED <<alive, owner, string, doing, asked, chunk, sent, seen>>

\* What the destruction of the helper window takes away.
Gone(p) ==
    /\ alive' = alive \ {p}
    /\ owner' = [s \in Selection |-> IF owner[s] = p THEN NoOne ELSE owner[s]]
    /\ requests' = [requests EXCEPT ![p] = <<>>]
    /\ string' = [string EXCEPT ![p] = [s \in Selection |-> NoOne]]
    /\ doing' = [doing EXCEPT ![p] = Idle]
    /\ sent' = [sent EXCEPT ![p] = 0]
    /\ seen' = [seen EXCEPT ![p] = [s \in Selection |-> {}]]

Pushes(p) == "CLIPBOARD" \in Selection /\ owner["CLIPBOARD"] = p

\* _grwlTerminateX11: without a clipboard manager the server answers at once.
Terminate(p) ==
    /\ IsIdle(p)
    /\ \/ /\ Pushes(p)
          /\ doing' = [doing EXCEPT ![p] = [Idle EXCEPT !.what = "push", !.from = Foreign]]
          /\ UNCHANGED <<alive, owner, requests, string, sent, seen>>
       \/ Gone(p)
    /\ UNCHANGED <<crashed, asked, answer, chunk>>

\* _grwlPushSelectionToManagerX11: the manager has read what it wanted, or has
\* found that the clipboard is another's.
Pushed(p) ==
    /\ Runs(p) /\ doing[p].what = "push"
    /\ answer[Foreign].kind # "nothing" \/ owner["CLIPBOARD"] # p
    /\ Gone(p)
    /\ UNCHANGED <<crashed, asked, answer, chunk>>

--------------------------------------------------------------------------------
(* The other client. *)

ForeignOwns(s) ==
    /\ owner[s] # Foreign /\ SetOwner(s, Foreign)
    /\ UNCHANGED <<alive, crashed, string, doing, requests, asked, answer, chunk, sent>>

ForeignAsks(s, target) ==
    /\ owner[s] \in Process
    /\ \A p \in Process : \A i \in DOMAIN requests[p] : requests[p][i].by # Foreign
    /\ Convert(Foreign, s, target)
    /\ UNCHANGED <<alive, crashed, owner, string, doing, chunk, sent, seen>>

ForeignForgets ==
    /\ answer[Foreign] # NoAnswer
    /\ answer' = [answer EXCEPT ![Foreign] = NoAnswer]
    /\ UNCHANGED <<alive, crashed, owner, string, doing, requests, asked, chunk, sent, seen>>

\* A manager that is asked to save the clipboard reads it.
ManagerAsks(p) ==
    /\ doing[p].what = "push" /\ answer[Foreign].kind = "nothing"
    /\ ForeignAsks("CLIPBOARD", "MULTIPLE")

\* An answer of another type counts as a refusal.
ForeignAnswers(r) ==
    /\ r \in asked
    /\ asked' = asked \ {r}
    /\ \E kind \in {"refused", "data", "INCR"} :
         answer' = [answer EXCEPT ![r.by] =
                      Answer(kind, IF kind \in {"data", "INCR"} THEN Foreign ELSE NoOne)]
    /\ UNCHANGED <<alive, crashed, owner, string, doing, requests, chunk, sent, seen>>

ForeignSends(p) ==
    /\ doing[p].what = "chunks" /\ chunk[p] = "none"
    /\ \/ /\ sent[p] < MaxChunks
          /\ chunk' = [chunk EXCEPT ![p] = "part"]
          /\ sent' = [sent EXCEPT ![p] = @ + 1]
       \/ chunk' = [chunk EXCEPT ![p] = "end"] /\ UNCHANGED sent
    /\ UNCHANGED <<alive, crashed, owner, string, doing, requests, asked, answer, seen>>

--------------------------------------------------------------------------------

Program(p) ==
    \/ \E s \in Selection : SetSelectionString(p, s) \/ GetSelectionString(p, s)
    \/ Receive(p) \/ ReceiveChunk(p) \/ HandleSelectionRequest(p)
    \/ Terminate(p) \/ Pushed(p)

Other ==
    \/ \E s \in Selection :
         \/ ForeignOwns(s)
         \/ \E target \in Targets : ForeignAsks(s, target)
    \/ ForeignForgets
    \/ \E r \in asked : ForeignAnswers(r)
    \/ \E p \in Process : ForeignSends(p) \/ ManagerAsks(p)

Next == (\E p \in Process : Program(p)) \/ Other

\* Every program goes on processing events, although not at any given moment;
\* the other client answers, and ends its transfers.
Fairness ==
    \A p \in Process :
      /\ WF_vars(Receive(p) \/ ReceiveChunk(p))
      /\ SF_vars(Pushed(p)) /\ SF_vars(HandleSelectionRequest(p))
      /\ WF_vars(ForeignSends(p) \/ \E r \in asked : r.by = p /\ ForeignAnswers(r))
      /\ SF_vars(ManagerAsks(p))

Spec == Init /\ [][Next]_vars /\ Fairness

--------------------------------------------------------------------------------
(* Properties. *)

Request == [by : Client, selection : Selection,
            target : {"UTF8_STRING", "STRING", "MULTIPLE"} \union Targets]

\* Types of the variables.
TypeOK ==
    /\ alive \subseteq Process /\ crashed \subseteq Process
    /\ owner \in [Selection -> Client \union {NoOne}]
    /\ string \in [Process -> [Selection -> Client \union {NoOne}]]
    /\ doing \in [Process -> [what : {"idle", "notify", "chunks", "push"},
                              selection : Selection \union {"none"},
                              target : {"none", "UTF8_STRING", "STRING"},
                              from : Client \union {NoOne}]]
    /\ requests \in [Process -> Seq(Request)] /\ asked \subseteq Request
    /\ answer \in [Client -> [kind : {"nothing", "refused", "data", "INCR"},
                              text : Client \union {NoOne}]]
    /\ chunk \in [Process -> {"none", "part", "end"}]
    /\ sent \in [Process -> 0..MaxChunks]
    /\ seen \in [Process -> [Selection -> SUBSET (Client \union {NoOne})]]

\* The owner of a selection holds the text that it has set, so that it can
\* convert it: what it has read of others since then is not in the way
\* (getSelectionString, writeTargetToProperty).
OwnerHasText == \A s \in Selection : owner[s] \in Process => string[owner[s]][s] = owner[s]

\* A program that reads a selection gets the text of one that has owned it
\* since the call began, however long the owner took to answer and although the
\* owner answers with what it may itself have read in the meantime.
ReadsWhatWasCurrent ==
    \A p \in alive, s \in Selection :
      LET text == string[p][s] IN
      (text \notin {p, NoOne} /\ doing[p] = Idle /\ owner[s] # p) => text \in seen[p][s]

\* Whoever waits for a selection, or for the clipboard manager, goes on: unless
\* the program that has to answer has ended before it did.
ReadEnds ==
    \A p \in Process :
      (doing[p].what # "idle") ~>
        (doing[p].what = "idle" \/ ~Runs(p)
           \/ (doing[p].from \in Process /\ ~Runs(doing[p].from)))
================================================================================
