--------------------------- MODULE Selections_proof ---------------------------
(***************************************************************************)
(* Selections on X11: what MC_Selections checks for two programs, for any  *)
(* number of them.                                                         *)
(*                                                                         *)
(* A program that reads a selection must not get what nobody has owned     *)
(* since, although the owner may have stopped to be it, and may itself     *)
(* have read the selection of others, before it answers.  The argument: an *)
(* owner that may answer from what it has read began to read after the     *)
(* program did, or with it, so that all that it may have read is current   *)
(* for the program too (RequestsAreOut).                                   *)
(***************************************************************************)
EXTENDS MC_Selections, SequenceTheorems, TLAPS

Waits(p, s) == doing[p].what \in {"notify", "chunks"} /\ doing[p].selection = s

\* What a program waits for names the selection.
DoingNames ==
    \A p \in Process :
      /\ doing[p].what \in {"idle", "push"} => doing[p].selection = "none"
      /\ doing[p].what \in {"notify", "chunks"} => doing[p].selection \in Selection
      /\ doing[p].what = "push" => "CLIPBOARD" \in Selection

\* Who waits for a selection has freed what it had, is not the owner, and has
\* seen the owner.
WaitsForOthers ==
    \A p \in Process, s \in Selection : Waits(p, s) =>
      /\ string[p][s] = NoOne
      /\ owner[s] # p
      /\ owner[s] \in seen[p][s] \union {NoOne}

\* A program holds its own text or that of one it has seen.
HoldsWhatItSaw ==
    \A p \in Process, s \in Selection : string[p][s] \in {p, NoOne} \union seen[p][s]

\* The program waits for the answer to this request.
IsOut(p, r) ==
    /\ doing[p].what = "notify" /\ r.selection = doing[p].selection
    /\ answer[p].kind = "nothing"

\* Whatever q may answer with is current for the program that asks.
MayAnswer(q, r) ==
    /\ q \in seen[r.by][r.selection]
    /\ \/ string[q][r.selection] = q
       \/ seen[q][r.selection] \subseteq seen[r.by][r.selection] \union {NoOne}

RequestsAreOut ==
    \A q \in Process : \A i \in DOMAIN requests[q] :
      requests[q][i].by \in Process =>
        IsOut(requests[q][i].by, requests[q][i]) /\ MayAnswer(q, requests[q][i])

AskedAreOut ==
    \A r \in asked :
      r.by \in Process /\ IsOut(r.by, r) /\ Foreign \in seen[r.by][r.selection]

\* No program has two requests.
OneRequest ==
    /\ \A q, o \in Process : \A i \in DOMAIN requests[q], j \in DOMAIN requests[o] :
         requests[q][i].by \in Process /\ requests[q][i].by = requests[o][j].by
           => q = o /\ i = j
    /\ \A r, t \in asked : r.by = t.by => r = t
    /\ \A q \in Process : \A i \in DOMAIN requests[q] : \A r \in asked :
         r.by # requests[q][i].by

\* An answer is the text of one that the program has seen.
AnswersAreSeen ==
    \A p \in Process, s \in Selection :
      Waits(p, s) => answer[p].text \in seen[p][s] \union {NoOne}

SelectionInv ==
    /\ TypeOK /\ OwnerHasText /\ DoingNames /\ WaitsForOthers /\ HoldsWhatItSaw
    /\ RequestsAreOut /\ AskedAreOut /\ OneRequest /\ AnswersAreSeen

LEMMA ConstantsFit ==
    /\ Foreign \notin Process /\ NoOne \notin Process /\ NoOne # Foreign
    /\ "none" \notin Selection /\ MaxChunks \in Nat
  BY SelectionAssumption DEF SelectionAssumption

LEMMA AppendIndices ==
    ASSUME NEW S, NEW q \in Seq(S), NEW e \in S, NEW i \in DOMAIN Append(q, e)
    PROVE  \/ i \in DOMAIN q /\ Append(q, e)[i] = q[i]
           \/ i = Len(q) + 1 /\ Append(q, e)[i] = e
  BY AppendProperties

LEMMA TailIndices ==
    ASSUME NEW S, NEW q \in Seq(S), q # <<>>
    PROVE  /\ 1 \in DOMAIN q /\ Head(q) = q[1] /\ Head(q) \in S /\ Tail(q) \in Seq(S)
           /\ \A i \in DOMAIN Tail(q) :
                i \in Nat \ {0} /\ i + 1 \in DOMAIN q /\ Tail(q)[i] = q[i + 1]
  BY HeadTailProperties, EmptySeq

LEMMA InitSelectionInv == Init => SelectionInv
<1> SUFFICES ASSUME Init PROVE SelectionInv
  OBVIOUS
<1>1. TypeOK
  <2>1. doing \in [Process -> [what : {"idle", "notify", "chunks", "push"},
                              selection : Selection \union {"none"},
                              target : {"none", "UTF8_STRING", "STRING"},
                              from : Client \union {NoOne}]]
    BY DEF Init, Idle
  <2>2. answer \in [Client -> [kind : {"nothing", "refused", "data", "INCR"},
                              text : Client \union {NoOne}]]
    BY DEF Init, NoAnswer
  <2>3. requests \in [Process -> Seq(Request)] /\ asked \subseteq Request
    <3>1. <<>> \in Seq(Request)
      OBVIOUS
    <3>2. QED
      BY <3>1 DEF Init
  <2>4. /\ alive \subseteq Process /\ crashed \subseteq Process
        /\ owner \in [Selection -> Client \union {NoOne}]
        /\ string \in [Process -> [Selection -> Client \union {NoOne}]]
        /\ chunk \in [Process -> {"none", "part", "end"}]
        /\ seen \in [Process -> [Selection -> SUBSET (Client \union {NoOne})]]
    BY DEF Init
  <2>5. sent \in [Process -> 0..MaxChunks]
    BY ConstantsFit DEF Init
  <2>6. QED
    BY <2>1, <2>2, <2>3, <2>4, <2>5 DEF TypeOK
<1>2. \A q \in Process : DOMAIN requests[q] = {}
  BY DEF Init
<1>3. RequestsAreOut /\ AskedAreOut /\ OneRequest
  BY <1>2 DEF Init, RequestsAreOut, AskedAreOut, OneRequest
<1>4. \A p \in Process : doing[p].what = "idle" /\ doing[p].selection = "none"
  <2>1. Idle.what = "idle" /\ Idle.selection = "none"
    BY DEF Idle
  <2>2. doing = [p \in Process |-> Idle]
    BY DEF Init
  <2>3. QED
    BY <2>1, <2>2, Zenon
<1>5. OwnerHasText /\ DoingNames /\ WaitsForOthers /\ HoldsWhatItSaw /\ AnswersAreSeen
  BY <1>4, ConstantsFit
     DEF Init, OwnerHasText, DoingNames, WaitsForOthers, HoldsWhatItSaw, AnswersAreSeen,
         Waits
<1>6. QED
  BY <1>1, <1>3, <1>5 DEF SelectionInv

\* A program that waits for no answer has no request.
LEMMA Settled ==
    ASSUME SelectionInv, NEW p \in Process,
           doing[p].what # "notify" \/ answer[p].kind # "nothing"
    PROVE  /\ \A q \in Process : \A i \in DOMAIN requests[q] : requests[q][i].by # p
           /\ \A r \in asked : r.by # p
  BY DEF SelectionInv, RequestsAreOut, AskedAreOut, IsOut

\* What is in the queues and in asked.
LEMMA RequestParts ==
    ASSUME TypeOK
    PROVE  /\ \A q \in Process : /\ requests[q] \in Seq(Request)
                                 /\ \A i \in DOMAIN requests[q] :
                                      /\ requests[q][i] \in Request
                                      /\ requests[q][i].by \in Client
                                      /\ requests[q][i].selection \in Selection
           /\ \A r \in asked : r \in Request /\ r.by \in Client /\ r.selection \in Selection
<1>1. requests \in [Process -> Seq(Request)] /\ asked \subseteq Request
  BY DEF TypeOK
<1>2. ASSUME NEW q \in Process, NEW i \in DOMAIN requests[q]
      PROVE  requests[q][i] \in Request
  <2>1. requests[q] \in Seq(Request)
    BY <1>1
  <2>2. QED
    BY <2>1, ElementOfSeq, LenProperties
<1>3. \A r \in Request : r.by \in Client /\ r.selection \in Selection
  BY DEF Request
<1>4. QED
  BY <1>1, <1>2, <1>3

(***************************************************************************)
(* The types.                                                              *)
(***************************************************************************)
LEMMA ConvertTypes ==
    ASSUME TypeOK, NEW p \in Client, NEW s \in Selection,
           NEW t \in {"UTF8_STRING", "STRING", "MULTIPLE"} \union Targets,
           Convert(p, s, t)
    PROVE  /\ requests' \in [Process -> Seq(Request)] /\ asked' \subseteq Request
           /\ answer' \in [Client -> [kind : {"nothing", "refused", "data", "INCR"},
                                      text : Client \union {NoOne}]]
<1> DEFINE r == [by |-> p, selection |-> s, target |-> t]
<1>1. r \in Request
  BY DEF Request
<1>2. /\ NoAnswer \in [kind : {"nothing", "refused", "data", "INCR"},
                       text : Client \union {NoOne}]
      /\ Answer("refused", NoOne) \in [kind : {"nothing", "refused", "data", "INCR"},
                                       text : Client \union {NoOne}]
  BY DEF NoAnswer, Answer
<1>3. /\ requests \in [Process -> Seq(Request)] /\ asked \subseteq Request
      /\ answer \in [Client -> [kind : {"nothing", "refused", "data", "INCR"},
                                text : Client \union {NoOne}]]
      /\ owner[s] \in Client \union {NoOne}
  BY DEF TypeOK
<1>4. answer' = [answer EXCEPT ![p] = NoAnswer]
      \/ answer' = [answer EXCEPT ![p] = Answer("refused", NoOne)]
  BY DEF Convert
<1>5. asked' = asked \union {r} \/ asked' = asked
  BY DEF Convert
<1>6. requests' \in [Process -> Seq(Request)]
  <2>1. CASE owner[s] \in {NoOne, Foreign}
    BY <1>3, <2>1 DEF Convert
  <2>2. CASE owner[s] \notin {NoOne, Foreign}
    <3>1. requests' = [requests EXCEPT ![owner[s]] = Append(@, r)] /\ owner[s] \in Process
      BY <1>3, <2>2 DEF Convert, Client
    <3>2. Append(requests[owner[s]], r) \in Seq(Request)
      BY <3>1, <1>1, <1>3, AppendProperties
    <3>3. QED
      BY <1>3, <3>1, <3>2
  <2>3. QED
    BY <2>1, <2>2
<1> HIDE DEF r
<1>7. QED
  BY <1>1, <1>2, <1>3, <1>4, <1>5, <1>6

LEMMA SetOwnerTypes ==
    ASSUME TypeOK, NEW s \in Selection, NEW c \in Client, SetOwner(s, c)
    PROVE  /\ owner' \in [Selection -> Client \union {NoOne}]
           /\ seen' \in [Process -> [Selection -> SUBSET (Client \union {NoOne})]]
<1>1. \A p \in Process : seen'[p] \in [Selection -> SUBSET (Client \union {NoOne})]
  BY DEF TypeOK, SetOwner
<1>2. QED
  BY <1>1 DEF TypeOK, SetOwner

LEMMA ReturnTypes ==
    ASSUME TypeOK, NEW p \in Process, NEW text \in Client \union {NoOne}, Return(p, text),
           UNCHANGED <<alive, crashed, owner, seen>>,
           chunk' \in [Process -> {"none", "part", "end"}]
    PROVE  TypeOK'
<1>1. /\ Idle \in [what : {"idle", "notify", "chunks", "push"},
                   selection : Selection \union {"none"},
                   target : {"none", "UTF8_STRING", "STRING"},
                   from : Client \union {NoOne}]
      /\ NoAnswer \in [kind : {"nothing", "refused", "data", "INCR"},
                       text : Client \union {NoOne}]
      /\ 0 \in 0..MaxChunks
  BY ConstantsFit DEF Idle, NoAnswer
<1>2. QED
  BY <1>1 DEF TypeOK, Return

LEMMA TryNextTypes ==
    ASSUME TypeOK, DoingNames, NEW p \in Process, doing[p].what \in {"notify", "chunks"},
           TryNext(p),
           UNCHANGED <<alive, crashed, owner, seen>>,
           chunk' \in [Process -> {"none", "part", "end"}]
    PROVE  TypeOK'
<1> DEFINE s == doing[p].selection
<1>1. s \in Selection /\ owner[s] \in Client \union {NoOne}
      /\ string[p][s] \in Client \union {NoOne} /\ p \in Client
  BY DEF DoingNames, TypeOK, Client
<1>2. CASE doing[p].target = "UTF8_STRING"
  <2>1. [what |-> "notify", target |-> "STRING", selection |-> s, from |-> owner[s]]
          \in [what : {"idle", "notify", "chunks", "push"},
               selection : Selection \union {"none"},
               target : {"none", "UTF8_STRING", "STRING"},
               from : Client \union {NoOne}]
    BY <1>1
  <2>2. Convert(p, s, "STRING") /\ UNCHANGED <<string, sent>>
        /\ doing' = [doing EXCEPT ![p] = [what |-> "notify", target |-> "STRING",
                                          selection |-> s, from |-> owner[s]]]
    BY <1>2 DEF TryNext
  <2>3. /\ requests' \in [Process -> Seq(Request)] /\ asked' \subseteq Request
        /\ answer' \in [Client -> [kind : {"nothing", "refused", "data", "INCR"},
                                   text : Client \union {NoOne}]]
    BY <1>1, <2>2, ConvertTypes
  <2>4. QED
    BY <2>1, <2>2, <2>3 DEF TypeOK
<1>3. CASE doing[p].target # "UTF8_STRING"
  BY <1>1, <1>3, ReturnTypes DEF TryNext
<1>4. QED
  BY <1>2, <1>3

LEMMA GoneTypes ==
    ASSUME TypeOK, NEW p \in Process, Gone(p), UNCHANGED <<crashed, asked, answer, chunk>>
    PROVE  TypeOK'
<1>1. /\ Idle \in [what : {"idle", "notify", "chunks", "push"},
                   selection : Selection \union {"none"},
                   target : {"none", "UTF8_STRING", "STRING"},
                   from : Client \union {NoOne}]
      /\ 0 \in 0..MaxChunks /\ <<>> \in Seq(Request)
  BY ConstantsFit DEF Idle
<1>2. /\ doing' \in [Process -> [what : {"idle", "notify", "chunks", "push"},
                              selection : Selection \union {"none"},
                              target : {"none", "UTF8_STRING", "STRING"},
                              from : Client \union {NoOne}]]
      /\ requests' \in [Process -> Seq(Request)] /\ sent' \in [Process -> 0..MaxChunks]
  BY <1>1 DEF TypeOK, Gone
<1>3. owner' \in [Selection -> Client \union {NoOne}] /\ alive' \subseteq Process
  BY DEF TypeOK, Gone
<1>4. /\ string' \in [Process -> [Selection -> Client \union {NoOne}]]
      /\ seen' \in [Process -> [Selection -> SUBSET (Client \union {NoOne})]]
  <2>1. /\ [s \in Selection |-> NoOne] \in [Selection -> Client \union {NoOne}]
        /\ [s \in Selection |-> {}] \in [Selection -> SUBSET (Client \union {NoOne})]
    OBVIOUS
  <2>2. QED
    BY <2>1 DEF TypeOK, Gone
<1>5. QED
  BY <1>2, <1>3, <1>4 DEF TypeOK

LEMMA TypesKept ==
    ASSUME TypeOK, UNCHANGED vars
    PROVE  TypeOK'
  BY DEF TypeOK, vars

LEMMA ProgramTypes ==
    ASSUME TypeOK, DoingNames, NEW p \in Process, Program(p)
    PROVE  TypeOK'
<1> p \in Client
  BY DEF Client
<1>1. ASSUME NEW s \in Selection, SetSelectionString(p, s)
      PROVE  TypeOK'
  <2>1. SetOwner(s, p) /\ string' = [string EXCEPT ![p][s] = p]
        /\ UNCHANGED <<alive, crashed, doing, requests, asked, answer, chunk, sent>>
    BY <1>1 DEF SetSelectionString
  <2>2. string' \in [Process -> [Selection -> Client \union {NoOne}]]
    BY <2>1 DEF TypeOK
  <2>3. QED
    BY <2>1, <2>2, SetOwnerTypes DEF TypeOK
<1>2. ASSUME NEW s \in Selection, GetSelectionString(p, s)
      PROVE  TypeOK'
  <2>1. /\ string' = [string EXCEPT ![p][s] = NoOne]
        /\ UNCHANGED <<alive, crashed, owner, chunk, sent>>
    BY <1>2 DEF GetSelectionString, Freed
  <2>2. string' \in [Process -> [Selection -> Client \union {NoOne}]]
    BY <2>1 DEF TypeOK
  <2>3. CASE owner[s] = p
    <3>1. UNCHANGED <<doing, requests, asked, answer, seen>>
      BY <1>2, <2>3 DEF GetSelectionString
    <3>2. QED
      BY <2>1, <2>2, <3>1 DEF TypeOK
  <2>4. CASE owner[s] # p
    <3>1. /\ Convert(p, s, "UTF8_STRING")
          /\ doing' = [doing EXCEPT ![p] = [what |-> "notify", selection |-> s,
                                            target |-> "UTF8_STRING", from |-> owner[s]]]
          /\ seen' = [seen EXCEPT ![p][s] = {owner[s]}]
      BY <1>2, <2>4 DEF GetSelectionString
    <3>2. owner[s] \in Client \union {NoOne}
      BY DEF TypeOK
    <3>3. [what |-> "notify", selection |-> s, target |-> "UTF8_STRING", from |-> owner[s]]
            \in [what : {"idle", "notify", "chunks", "push"},
                 selection : Selection \union {"none"},
                 target : {"none", "UTF8_STRING", "STRING"},
                 from : Client \union {NoOne}]
      BY <3>2
    <3>4. doing' \in [Process -> [what : {"idle", "notify", "chunks", "push"},
                                  selection : Selection \union {"none"},
                                  target : {"none", "UTF8_STRING", "STRING"},
                                  from : Client \union {NoOne}]]
      BY <3>1, <3>3 DEF TypeOK
    <3>5. seen' \in [Process -> [Selection -> SUBSET (Client \union {NoOne})]]
      BY <3>1, <3>2 DEF TypeOK
    <3>6. /\ requests' \in [Process -> Seq(Request)] /\ asked' \subseteq Request
          /\ answer' \in [Client -> [kind : {"nothing", "refused", "data", "INCR"},
                                     text : Client \union {NoOne}]]
      BY <3>1, ConvertTypes
    <3>7. QED
      BY <2>1, <2>2, <3>4, <3>5, <3>6 DEF TypeOK
  <2>5. QED
    BY <2>3, <2>4
<1>3. CASE Receive(p)
  <2>1. doing[p].what = "notify" /\ UNCHANGED <<alive, crashed, owner, chunk, seen>>
    BY <1>3 DEF Receive
  <2>2. chunk' \in [Process -> {"none", "part", "end"}]
    BY <2>1 DEF TypeOK
  <2>3. CASE TryNext(p)
    BY <2>1, <2>2, <2>3, TryNextTypes
  <2>4. CASE Return(p, answer[p].text)
    <3>1. answer[p].text \in Client \union {NoOne}
      BY DEF TypeOK
    <3>2. QED
      BY <2>1, <2>2, <2>4, <3>1, ReturnTypes
  <2>5. CASE /\ doing' = [doing EXCEPT ![p].what = "chunks"]
             /\ UNCHANGED <<string, requests, asked, answer, sent>>
    BY <2>1, <2>5 DEF TypeOK
  <2>6. QED
    BY <1>3, <2>3, <2>4, <2>5 DEF Receive
<1>4. CASE ReceiveChunk(p)
  <2>1. doing[p].what = "chunks" /\ UNCHANGED <<alive, crashed, owner, seen>>
        /\ chunk' = [chunk EXCEPT ![p] = "none"]
    BY <1>4 DEF ReceiveChunk
  <2>2. chunk' \in [Process -> {"none", "part", "end"}]
    BY <2>1 DEF TypeOK
  <2>3. CASE UNCHANGED <<string, doing, requests, asked, answer, sent>>
    BY <2>1, <2>2, <2>3 DEF TypeOK
  <2>4. CASE TryNext(p)
    BY <2>1, <2>2, <2>4, TryNextTypes
  <2>5. CASE Return(p, answer[p].text)
    <3>1. answer[p].text \in Client \union {NoOne}
      BY DEF TypeOK
    <3>2. QED
      BY <2>1, <2>2, <2>5, <3>1, ReturnTypes
  <2>6. QED
    BY <1>4, <2>3, <2>4, <2>5 DEF ReceiveChunk
<1>5. CASE HandleSelectionRequest(p)
  <2> DEFINE r == Head(requests[p])
  <2>1. /\ requests[p] # <<>> /\ requests' = [requests EXCEPT ![p] = Tail(@)]
        /\ UNCHANGED <<alive, owner, string, doing, asked, chunk, sent, seen>>
        /\ \/ crashed' = crashed \union {p} /\ UNCHANGED answer
           \/ crashed' = crashed /\ answer' = [answer EXCEPT ![r.by] = Converted(p, r)]
    BY <1>5 DEF HandleSelectionRequest
  <2>2. Tail(requests[p]) \in Seq(Request) /\ r \in Request
    BY <2>1, TailIndices DEF TypeOK
  <2>3. requests' \in [Process -> Seq(Request)] /\ crashed' \subseteq Process
    BY <2>1, <2>2 DEF TypeOK
  <2>4. r.selection \in Selection
    BY <2>2 DEF Request
  <2>5. string[p][r.selection] \in Client \union {NoOne}
    BY <2>4 DEF TypeOK
  <2> HIDE DEF r
  <2>6. Converted(p, r) \in [kind : {"nothing", "refused", "data", "INCR"},
                             text : Client \union {NoOne}]
    BY <2>5 DEF Converted, Answer
  <2>7. answer' \in [Client -> [kind : {"nothing", "refused", "data", "INCR"},
                                text : Client \union {NoOne}]]
    BY <2>1, <2>6 DEF TypeOK
  <2>8. QED
    BY <2>1, <2>3, <2>7 DEF TypeOK
<1>6. CASE Terminate(p)
  <2>1. UNCHANGED <<crashed, asked, answer, chunk>>
    BY <1>6 DEF Terminate
  <2>2. CASE Gone(p)
    BY <2>1, <2>2, GoneTypes
  <2>3. CASE /\ doing' = [doing EXCEPT ![p] = [Idle EXCEPT !.what = "push", !.from = Foreign]]
             /\ UNCHANGED <<alive, owner, requests, string, sent, seen>>
    <3>1. [Idle EXCEPT !.what = "push", !.from = Foreign]
            \in [what : {"idle", "notify", "chunks", "push"},
                 selection : Selection \union {"none"},
                 target : {"none", "UTF8_STRING", "STRING"},
                 from : Client \union {NoOne}]
      BY DEF Idle, Client
    <3>2. QED
      BY <2>1, <2>3, <3>1 DEF TypeOK
  <2>4. QED
    BY <1>6, <2>2, <2>3 DEF Terminate
<1>7. CASE Pushed(p)
  BY <1>7, GoneTypes DEF Pushed
<1>8. QED
  BY <1>1, <1>2, <1>3, <1>4, <1>5, <1>6, <1>7 DEF Program

LEMMA OtherTypes ==
    ASSUME TypeOK, DoingNames, Other
    PROVE  TypeOK'
<1> Foreign \in Client
  BY DEF Client
<1>1. ASSUME NEW s \in Selection, ForeignOwns(s)
      PROVE  TypeOK'
  BY <1>1, SetOwnerTypes DEF ForeignOwns, TypeOK
<1>2. ASSUME NEW s \in Selection, NEW t \in {"MULTIPLE"} \union Targets, ForeignAsks(s, t)
      PROVE  TypeOK'
  <2>1. Convert(Foreign, s, t)
        /\ UNCHANGED <<alive, crashed, owner, string, doing, chunk, sent, seen>>
    BY <1>2 DEF ForeignAsks
  <2>2. /\ requests' \in [Process -> Seq(Request)] /\ asked' \subseteq Request
        /\ answer' \in [Client -> [kind : {"nothing", "refused", "data", "INCR"},
                                   text : Client \union {NoOne}]]
    BY <2>1, ConvertTypes
  <2>3. QED
    BY <2>1, <2>2 DEF TypeOK
<1>3. CASE ForeignForgets
  <2>1. NoAnswer \in [kind : {"nothing", "refused", "data", "INCR"},
                      text : Client \union {NoOne}]
    BY DEF NoAnswer
  <2>2. QED
    BY <1>3, <2>1 DEF ForeignForgets, TypeOK
<1>4. ASSUME NEW r \in asked, ForeignAnswers(r)
      PROVE  TypeOK'
  <2>1. PICK kind \in {"refused", "data", "INCR"} :
          answer' = [answer EXCEPT ![r.by] =
                       Answer(kind, IF kind \in {"data", "INCR"} THEN Foreign ELSE NoOne)]
    BY <1>4 DEF ForeignAnswers
  <2>2. Answer(kind, IF kind \in {"data", "INCR"} THEN Foreign ELSE NoOne)
          \in [kind : {"nothing", "refused", "data", "INCR"}, text : Client \union {NoOne}]
    BY DEF Answer
  <2>3. answer' \in [Client -> [kind : {"nothing", "refused", "data", "INCR"},
                                text : Client \union {NoOne}]]
    BY <2>1, <2>2 DEF TypeOK
  <2>4. QED
    BY <1>4, <2>3 DEF ForeignAnswers, TypeOK
<1>5. ASSUME NEW p \in Process, ForeignSends(p)
      PROVE  TypeOK'
  <2>1. sent' \in [Process -> 0..MaxChunks]
    <3>1. CASE sent' = sent
      BY <3>1 DEF TypeOK
    <3>2. CASE sent[p] < MaxChunks /\ sent' = [sent EXCEPT ![p] = @ + 1]
      <4>1. sent[p] + 1 \in 0..MaxChunks
        BY <3>2, ConstantsFit DEF TypeOK
      <4>2. QED
        BY <3>2, <4>1 DEF TypeOK
    <3>3. QED
      BY <1>5, <3>1, <3>2 DEF ForeignSends
  <2>2. chunk' \in [Process -> {"none", "part", "end"}]
    <3>1. \/ chunk' = [chunk EXCEPT ![p] = "part"]
          \/ chunk' = [chunk EXCEPT ![p] = "end"]
      BY <1>5 DEF ForeignSends
    <3>2. QED
      BY <3>1 DEF TypeOK
  <2>3. QED
    BY <1>5, <2>1, <2>2 DEF ForeignSends, TypeOK
<1>6. ASSUME NEW p \in Process, ManagerAsks(p)
      PROVE  TypeOK'
  BY <1>2, <1>6 DEF ManagerAsks, DoingNames
<1>7. QED
  BY <1>1, <1>2, <1>3, <1>4, <1>5, <1>6 DEF Other

(***************************************************************************)
(* The invariant, step by step.  What changes for one program only leaves  *)
(* the rest as it was.                                                     *)
(***************************************************************************)
LEMMA ConvertParts ==
    ASSUME TypeOK, NEW p \in Client, NEW s \in Selection,
           NEW t \in {"UTF8_STRING", "STRING", "MULTIPLE"} \union Targets,
           Convert(p, s, t)
    PROVE  LET r == [by |-> p, selection |-> s, target |-> t] IN
           /\ \A x \in Process : x # p => answer'[x] = answer[x]
           /\ answer'[p].text = NoOne
           /\ owner[s] # NoOne => answer'[p].kind = "nothing"
           /\ asked' = asked \/ (owner[s] = Foreign /\ asked' = asked \union {r})
           /\ \A q \in Process : \A i \in DOMAIN requests'[q] :
                \/ i \in DOMAIN requests[q] /\ requests'[q][i] = requests[q][i]
                \/ /\ q = owner[s] /\ i = Len(requests[q]) + 1 /\ requests'[q][i] = r
                   /\ asked' = asked
<1> DEFINE r == [by |-> p, selection |-> s, target |-> t]
<1>1. /\ requests \in [Process -> Seq(Request)] /\ answer \in [Client -> [kind : {"nothing",
            "refused", "data", "INCR"}, text : Client \union {NoOne}]]
      /\ owner[s] \in Client \union {NoOne}
  BY DEF TypeOK
<1>2. r \in Request
  BY DEF Request
<1>3. CASE owner[s] = NoOne
  BY <1>1, <1>3, ConstantsFit DEF Convert, Answer, Client
<1>4. CASE owner[s] = Foreign
  <2>1. /\ asked' = asked \union {r} /\ answer' = [answer EXCEPT ![p] = NoAnswer]
        /\ requests' = requests
    BY <1>4, ConstantsFit DEF Convert
  <2> HIDE DEF r
  <2>2. answer'[p] = NoAnswer /\ \A x \in Process : x # p => answer'[x] = answer[x]
    BY <1>1, <2>1 DEF Client
  <2>3. QED
    BY <1>4, <2>1, <2>2 DEF NoAnswer, r
<1>5. CASE owner[s] \notin {NoOne, Foreign}
  <2>1. /\ requests' = [requests EXCEPT ![owner[s]] = Append(@, r)]
        /\ answer' = [answer EXCEPT ![p] = NoAnswer] /\ asked' = asked
    BY <1>5 DEF Convert
  <2> HIDE DEF r
  <2>2. answer'[p] = NoAnswer /\ \A x \in Process : x # p => answer'[x] = answer[x]
    BY <1>1, <2>1 DEF Client
  <2>3. answer'[p].text = NoOne /\ answer'[p].kind = "nothing"
    BY <2>2 DEF NoAnswer
  <2>4. owner[s] \in Process
    BY <1>1, <1>5 DEF Client
  <2>5. ASSUME NEW q \in Process, NEW i \in DOMAIN requests'[q]
        PROVE  \/ i \in DOMAIN requests[q] /\ requests'[q][i] = requests[q][i]
               \/ q = owner[s] /\ i = Len(requests[q]) + 1 /\ requests'[q][i] = r
    <3>1. CASE q = owner[s]
      <4>1. requests'[q] = Append(requests[q], r) /\ requests[q] \in Seq(Request)
        BY <1>1, <2>1, <3>1
      <4>2. QED
        BY <1>2, <3>1, <4>1, AppendIndices
    <3>2. CASE q # owner[s]
      BY <1>1, <2>1, <3>2
    <3>3. QED
      BY <3>1, <3>2
  <2>6. QED
    BY <2>1, <2>2, <2>3, <2>5 DEF r
<1>6. QED
  BY <1>3, <1>4, <1>5

\* A program begins to read a selection, or tries the next target.
LEMMA ConvertStep ==
    ASSUME SelectionInv, TypeOK', NEW p \in Process, NEW s \in Selection, owner[s] # p,
           NEW t \in {"UTF8_STRING", "STRING"}, NEW S,
           \A q \in Process : \A i \in DOMAIN requests[q] : requests[q][i].by # p,
           \A r \in asked : r.by # p,
           Convert(p, s, t), owner' = owner,
           doing' = [doing EXCEPT ![p] = [what |-> "notify", selection |-> s,
                                          target |-> t, from |-> owner[s]]],
           string' = [string EXCEPT ![p][s] = NoOne],
           seen' = [seen EXCEPT ![p][s] = S], owner[s] \in S \union {NoOne},
           S \subseteq {owner[s]} \/ (string[p][s] = NoOne /\ S = seen[p][s])
    PROVE  SelectionInv'
<1> DEFINE r == [by |-> p, selection |-> s, target |-> t]
<1>0. TypeOK
  BY DEF SelectionInv
<1>1. /\ p \in Client
      /\ doing'[p].what = "notify" /\ doing'[p].selection = s
      /\ string'[p][s] = NoOne /\ seen'[p][s] = S
      /\ \A u \in Selection \ {s} : string'[p][u] = string[p][u] /\ seen'[p][u] = seen[p][u]
  BY <1>0 DEF TypeOK, Client
<1>2. \A x \in Process \ {p} :
        doing'[x] = doing[x] /\ string'[x] = string[x] /\ seen'[x] = seen[x]
  BY <1>0 DEF TypeOK
<1>3. /\ \A x \in Process : x # p => answer'[x] = answer[x]
      /\ answer'[p].text = NoOne
      /\ owner[s] # NoOne => answer'[p].kind = "nothing"
      /\ asked' = asked \/ (owner[s] = Foreign /\ asked' = asked \union {r})
  BY <1>0, <1>1, ConvertParts
<1>4. \A q \in Process : \A i \in DOMAIN requests'[q] :
        \/ i \in DOMAIN requests[q] /\ requests'[q][i] = requests[q][i]
        \/ /\ q = owner[s] /\ i = Len(requests[q]) + 1 /\ requests'[q][i] = r
           /\ asked' = asked
  BY <1>0, <1>1, ConvertParts
<1>5. r.by = p /\ r.selection = s
  OBVIOUS
<1> HIDE DEF r
<1>6. OwnerHasText'
  BY <1>1, <1>2 DEF SelectionInv, OwnerHasText
<1>7. DoingNames'
  BY <1>1, <1>2 DEF SelectionInv, DoingNames
<1>8. WaitsForOthers'
  BY <1>1, <1>2 DEF SelectionInv, WaitsForOthers, Waits
<1>9. HoldsWhatItSaw'
  BY <1>1, <1>2 DEF SelectionInv, HoldsWhatItSaw
<1>10. AnswersAreSeen'
  BY <1>1, <1>2, <1>3 DEF SelectionInv, AnswersAreSeen, Waits
<1>11. owner[s] \in Process => IsOut(p, r)' /\ MayAnswer(owner[s], r)'
  <2> SUFFICES ASSUME owner[s] \in Process
               PROVE  IsOut(p, r)' /\ MayAnswer(owner[s], r)'
    OBVIOUS
  <2>1. owner[s] # NoOne /\ owner[s] # p /\ string[owner[s]][s] = owner[s]
    BY ConstantsFit DEF SelectionInv, OwnerHasText
  <2>2. string'[owner[s]][s] = owner[s] /\ owner[s] \in seen'[p][s]
    BY <2>1, <1>1, <1>2
  <2>3. QED
    BY <1>1, <1>3, <1>5, <2>1, <2>2 DEF IsOut, MayAnswer
<1>12. RequestsAreOut'
  <2> SUFFICES ASSUME NEW q \in Process, NEW i \in DOMAIN requests'[q],
                      requests'[q][i].by \in Process
               PROVE  IsOut(requests[q][i].by, requests[q][i])'
                      /\ MayAnswer(q, requests[q][i])'
    BY DEF RequestsAreOut
  <2>1. CASE q = owner[s] /\ requests'[q][i] = r
    BY <1>5, <1>11, <2>1 DEF IsOut, MayAnswer
  <2>2. CASE i \in DOMAIN requests[q] /\ requests'[q][i] = requests[q][i]
    <3> DEFINE o == requests[q][i]
    <3>1. o.by \in Process \ {p} /\ o.selection \in Selection
      BY <1>0, <2>2, RequestParts
    <3>2. IsOut(o.by, o) /\ MayAnswer(q, o)
      BY <2>2, <3>1 DEF SelectionInv, RequestsAreOut
    <3>0. requests'[q][i] = o
      BY <2>2
    <3> HIDE DEF o
    <3>3. /\ doing'[o.by].what = "notify" /\ o.selection = doing'[o.by].selection
          /\ answer'[o.by].kind = "nothing"
      BY <1>2, <1>3, <3>1, <3>2 DEF IsOut
    <3>4. q \in seen'[o.by][o.selection]
      BY <1>2, <3>1, <3>2 DEF MayAnswer
    <3>5. string'[q][o.selection] = q
          \/ seen'[q][o.selection] \subseteq seen'[o.by][o.selection] \union {NoOne}
      <4>1. CASE q # p \/ o.selection # s
        BY <1>1, <1>2, <3>1, <3>2, <4>1 DEF MayAnswer
      <4>2. CASE q = p /\ o.selection = s
        <5>1. Waits(o.by, s)
          BY <3>2, <4>2 DEF IsOut, Waits
        <5>2. owner[s] \in seen[o.by][s] \union {NoOne}
          BY <3>1, <5>1 DEF SelectionInv, WaitsForOthers
        <5>3. string[p][s] = NoOne => seen[p][s] \subseteq seen[o.by][s] \union {NoOne}
          BY <3>2, <4>2, ConstantsFit DEF MayAnswer
        <5>4. S \subseteq seen[o.by][s] \union {NoOne}
          BY <5>2, <5>3
        <5>5. QED
          BY <1>1, <1>2, <3>1, <4>2, <5>4
      <4>3. QED
        BY <4>1, <4>2
    <3>6. QED
      BY <3>0, <3>3, <3>4, <3>5 DEF IsOut, MayAnswer
  <2>3. QED
    BY <1>4, <2>1, <2>2
<1>13. AskedAreOut'
  <2> SUFFICES ASSUME NEW o \in asked'
               PROVE  o.by \in Process /\ IsOut(o.by, o)' /\ Foreign \in seen'[o.by][o.selection]
    BY DEF AskedAreOut, IsOut
  <2>1. CASE o \in asked
    <3>1. /\ o.by \in Process \ {p} /\ IsOut(o.by, o)
          /\ Foreign \in seen[o.by][o.selection]
      BY <2>1 DEF SelectionInv, AskedAreOut
    <3>2. QED
      BY <1>2, <1>3, <3>1 DEF IsOut
  <2>2. CASE o = r /\ owner[s] = Foreign
    BY <1>1, <1>3, <1>5, <2>2, ConstantsFit DEF IsOut
  <2>3. QED
    BY <1>3, <2>1, <2>2
<1>14. OneRequest'
  <2>1. ASSUME NEW q \in Process, NEW o \in Process,
               NEW i \in DOMAIN requests'[q], NEW j \in DOMAIN requests'[o],
               requests'[q][i].by \in Process, requests'[q][i].by = requests'[o][j].by
        PROVE  q = o /\ i = j
    BY <1>4, <1>5, <2>1 DEF SelectionInv, OneRequest
  <2>2. \A a, b \in asked' : a.by = b.by => a = b
    BY <1>3, <1>5 DEF SelectionInv, OneRequest
  <2>3. ASSUME NEW q \in Process, NEW i \in DOMAIN requests'[q], NEW a \in asked'
        PROVE  a.by # requests'[q][i].by
    <3>1. CASE i \in DOMAIN requests[q] /\ requests'[q][i] = requests[q][i]
      BY <1>3, <1>5, <3>1 DEF SelectionInv, OneRequest
    <3>2. CASE requests'[q][i] = r /\ asked' = asked
      BY <1>5, <3>2
    <3>3. QED
      BY <1>4, <3>1, <3>2
  <2>4. QED
    BY <2>1, <2>2, <2>3 DEF OneRequest
<1>15. QED
  BY <1>6, <1>7, <1>8, <1>9, <1>10, <1>12, <1>13, <1>14 DEF SelectionInv

\* A program goes on with the text of one that it has seen, or with none.
LEMMA ReturnStep ==
    ASSUME SelectionInv, TypeOK', NEW p \in Process, NEW text, Return(p, text),
           doing[p].what \in {"notify", "chunks"},
           text \in seen[p][doing[p].selection] \union {NoOne},
           doing[p].what # "notify" \/ answer[p].kind # "nothing",
           UNCHANGED <<owner, seen>>
    PROVE  SelectionInv'
<1> DEFINE s == doing[p].selection
<1>0. TypeOK /\ s \in Selection
  BY DEF SelectionInv, DoingNames
<1>1. /\ doing'[p] = Idle
      /\ string'[p][s] = text /\ \A u \in Selection \ {s} : string'[p][u] = string[p][u]
  BY <1>0 DEF TypeOK, Return
<1>2. \A x \in Process \ {p} :
        doing'[x] = doing[x] /\ string'[x] = string[x] /\ answer'[x] = answer[x]
  BY <1>0 DEF TypeOK, Return, Client
<1>3. doing'[p].what = "idle" /\ doing'[p].selection = "none"
  BY <1>1 DEF Idle
<1>4. string[p][s] = NoOne /\ owner[s] # p
  BY <1>0 DEF SelectionInv, WaitsForOthers, Waits
<1>5. /\ \A q \in Process : \A i \in DOMAIN requests[q] : requests[q][i].by # p
      /\ \A r \in asked : r.by # p
  BY Settled
<1>6. requests' = requests /\ asked' = asked /\ owner' = owner /\ seen' = seen
  BY DEF Return
<1> HIDE DEF s
<1>7. OwnerHasText'
  BY <1>1, <1>2, <1>4, <1>6 DEF SelectionInv, OwnerHasText
<1>8. DoingNames'
  BY <1>2, <1>3 DEF SelectionInv, DoingNames
<1>9. WaitsForOthers'
  BY <1>2, <1>3, <1>6 DEF SelectionInv, WaitsForOthers, Waits
<1>10. HoldsWhatItSaw'
  BY <1>1, <1>2, <1>6 DEF SelectionInv, HoldsWhatItSaw, s
<1>11. AnswersAreSeen'
  BY <1>2, <1>3, <1>6 DEF SelectionInv, AnswersAreSeen, Waits
<1>12. RequestsAreOut'
  <2> SUFFICES ASSUME NEW q \in Process, NEW i \in DOMAIN requests[q],
                      requests[q][i].by \in Process
               PROVE  IsOut(requests[q][i].by, requests[q][i])'
                      /\ MayAnswer(q, requests[q][i])'
    BY <1>6 DEF RequestsAreOut
  <2> DEFINE o == requests[q][i]
  <2>0. requests'[q][i] = o
    BY <1>6
  <2>1. o.by \in Process \ {p} /\ o.selection \in Selection
    BY <1>0, <1>5, RequestParts
  <2>2. IsOut(o.by, o) /\ MayAnswer(q, o)
    BY <2>1 DEF SelectionInv, RequestsAreOut
  <2> HIDE DEF o
  <2>3. /\ doing'[o.by].what = "notify" /\ o.selection = doing'[o.by].selection
        /\ answer'[o.by].kind = "nothing"
    BY <1>2, <2>1, <2>2 DEF IsOut
  <2>4. string'[q][o.selection] = q
        \/ seen[q][o.selection] \subseteq seen[o.by][o.selection] \union {NoOne}
    <3>1. CASE q # p \/ o.selection # s
      BY <1>1, <1>2, <2>1, <2>2, <3>1 DEF MayAnswer
    <3>2. CASE q = p /\ o.selection = s
      BY <1>4, <2>2, <3>2, ConstantsFit DEF MayAnswer
    <3>3. QED
      BY <3>1, <3>2
  <2>5. QED
    BY <1>6, <2>0, <2>2, <2>3, <2>4 DEF IsOut, MayAnswer
<1>13. AskedAreOut'
  BY <1>2, <1>5, <1>6 DEF SelectionInv, AskedAreOut, IsOut
<1>14. OneRequest'
  BY <1>6 DEF SelectionInv, OneRequest
<1>15. QED
  BY <1>7, <1>8, <1>9, <1>10, <1>11, <1>12, <1>13, <1>14 DEF SelectionInv

\* A selection gets a new owner: a program, which sets its text, or the other
\* client.
LEMMA SetOwnerStep ==
    ASSUME SelectionInv, TypeOK', NEW s \in Selection, NEW c \in Client, SetOwner(s, c),
           \/ c = Foreign /\ string' = string
           \/ c \in Process /\ doing[c] = Idle /\ string' = [string EXCEPT ![c][s] = c],
           UNCHANGED <<doing, requests, asked, answer>>
    PROVE  SelectionInv'
<1>0. TypeOK
  BY DEF SelectionInv
<1>1. /\ owner'[s] = c /\ \A u \in Selection \ {s} : owner'[u] = owner[u]
  BY <1>0 DEF TypeOK, SetOwner
<1>2. \A x \in Process, u \in Selection :
        seen'[x][u] = IF doing[x].selection = s /\ u = s THEN seen[x][u] \union {c}
                      ELSE seen[x][u]
  BY <1>0 DEF TypeOK, SetOwner
<1>3. \A x \in Process, u \in Selection :
        string'[x][u] = IF x = c /\ u = s THEN c ELSE string[x][u]
  BY <1>0, ConstantsFit DEF TypeOK
<1>4. c \in Process => doing[c].what = "idle"
  BY ConstantsFit DEF Idle
<1>5. doing' = doing /\ requests' = requests /\ asked' = asked /\ answer' = answer
  OBVIOUS
<1>6. OwnerHasText'
  BY <1>1, <1>3 DEF SelectionInv, OwnerHasText
<1>7. DoingNames'
  BY <1>5 DEF SelectionInv, DoingNames
<1>8. WaitsForOthers'
  <2> SUFFICES ASSUME NEW x \in Process, NEW u \in Selection, Waits(x, u)
               PROVE  /\ string'[x][u] = NoOne /\ owner'[u] # x
                      /\ owner'[u] \in seen'[x][u] \union {NoOne}
    BY <1>5 DEF WaitsForOthers, Waits
  <2>1. /\ string[x][u] = NoOne /\ owner[u] # x
        /\ owner[u] \in seen[x][u] \union {NoOne} /\ doing[x].selection = u
    BY DEF SelectionInv, WaitsForOthers, Waits
  <2>2. x # c
    BY <1>4 DEF Waits
  <2>3. QED
    BY <1>1, <1>2, <1>3, <2>1, <2>2
<1>9. HoldsWhatItSaw'
  BY <1>2, <1>3 DEF SelectionInv, HoldsWhatItSaw
<1>10. AnswersAreSeen'
  BY <1>2, <1>5 DEF SelectionInv, AnswersAreSeen, Waits
<1>11. RequestsAreOut'
  <2> SUFFICES ASSUME NEW q \in Process, NEW i \in DOMAIN requests[q],
                      requests[q][i].by \in Process
               PROVE  IsOut(requests[q][i].by, requests[q][i])'
                      /\ MayAnswer(q, requests[q][i])'
    BY <1>5 DEF RequestsAreOut
  <2> DEFINE o == requests[q][i]
  <2>0. requests'[q][i] = o
    BY <1>5
  <2>1. o.by \in Process /\ o.selection \in Selection
    BY <1>0, RequestParts
  <2>2. IsOut(o.by, o) /\ MayAnswer(q, o)
    BY <2>1 DEF SelectionInv, RequestsAreOut
  <2> HIDE DEF o
  <2>3. doing[o.by].selection = o.selection
    BY <2>2 DEF IsOut
  <2>4. seen[q][o.selection] \subseteq seen[o.by][o.selection] \union {NoOne} =>
          seen'[q][o.selection] \subseteq seen'[o.by][o.selection] \union {NoOne}
    BY <1>2, <2>1, <2>3
  <2>5. q \in seen'[o.by][o.selection]
    BY <1>2, <2>1, <2>2 DEF MayAnswer
  <2>6. string[q][o.selection] = q => string'[q][o.selection] = q
    BY <1>3, <2>1
  <2>7. QED
    BY <1>5, <2>0, <2>2, <2>4, <2>5, <2>6 DEF IsOut, MayAnswer
<1>12. AskedAreOut'
  <2>1. \A r \in asked : r.selection \in Selection
    BY <1>0, RequestParts
  <2>2. QED
    BY <1>2, <1>5, <2>1 DEF SelectionInv, AskedAreOut, IsOut
<1>13. OneRequest'
  BY <1>5 DEF SelectionInv, OneRequest
<1>14. QED
  BY <1>6, <1>7, <1>8, <1>9, <1>10, <1>11, <1>12, <1>13 DEF SelectionInv

\* A program has lost every request, text and selection.
LEMMA GoneStep ==
    ASSUME SelectionInv, TypeOK', NEW p \in Process, Gone(p),
           doing[p].what \in {"idle", "push"}, UNCHANGED <<asked, answer>>
    PROVE  SelectionInv'
<1>0. TypeOK
  BY DEF SelectionInv
<1>1. /\ doing'[p] = Idle
      /\ \A u \in Selection : string'[p][u] = NoOne /\ seen'[p][u] = {}
      /\ requests'[p] = <<>>
  BY <1>0 DEF TypeOK, Gone
<1>2. \A x \in Process \ {p} :
        /\ doing'[x] = doing[x] /\ string'[x] = string[x]
        /\ seen'[x] = seen[x] /\ requests'[x] = requests[x]
  BY <1>0 DEF TypeOK, Gone
<1>3. \A u \in Selection : owner'[u] = IF owner[u] = p THEN NoOne ELSE owner[u]
  BY DEF Gone
<1>4. doing'[p].what = "idle" /\ doing'[p].selection = "none" /\ DOMAIN requests'[p] = {}
  BY <1>1 DEF Idle
<1>5. /\ \A q \in Process : \A i \in DOMAIN requests[q] : requests[q][i].by # p
      /\ \A r \in asked : r.by # p
  BY Settled
<1>6. OwnerHasText'
  BY <1>2, <1>3, ConstantsFit DEF SelectionInv, OwnerHasText
<1>7. DoingNames'
  BY <1>2, <1>4 DEF SelectionInv, DoingNames
<1>8. WaitsForOthers'
  BY <1>2, <1>3, <1>4, ConstantsFit DEF SelectionInv, WaitsForOthers, Waits
<1>9. HoldsWhatItSaw'
  BY <1>1, <1>2 DEF SelectionInv, HoldsWhatItSaw
<1>10. AnswersAreSeen'
  BY <1>2, <1>4 DEF SelectionInv, AnswersAreSeen, Waits
<1>11. RequestsAreOut'
  <2> SUFFICES ASSUME NEW q \in Process, NEW i \in DOMAIN requests'[q],
                      requests'[q][i].by \in Process
               PROVE  IsOut(requests[q][i].by, requests[q][i])'
                      /\ MayAnswer(q, requests[q][i])'
    BY DEF RequestsAreOut
  <2> DEFINE o == requests[q][i]
  <2>0. q # p /\ requests'[q][i] = o /\ i \in DOMAIN requests[q]
    BY <1>2, <1>4
  <2>1. o.by \in Process \ {p} /\ o.selection \in Selection
    BY <1>0, <1>5, <2>0, RequestParts
  <2>2. IsOut(o.by, o) /\ MayAnswer(q, o)
    BY <2>0, <2>1 DEF SelectionInv, RequestsAreOut
  <2> HIDE DEF o
  <2>3. QED
    BY <1>2, <2>0, <2>1, <2>2 DEF IsOut, MayAnswer
<1>12. AskedAreOut'
  <2>1. \A r \in asked : r.selection \in Selection
    BY <1>0, RequestParts
  <2>2. QED
    BY <1>2, <1>5, <2>1 DEF SelectionInv, AskedAreOut, IsOut
<1>13. OneRequest'
  <2>1. \A q \in Process : \A i \in DOMAIN requests'[q] :
          i \in DOMAIN requests[q] /\ requests'[q][i] = requests[q][i]
    BY <1>2, <1>4
  <2>2. QED
    BY <2>1 DEF SelectionInv, OneRequest
<1>14. QED
  BY <1>6, <1>7, <1>8, <1>9, <1>10, <1>11, <1>12, <1>13 DEF SelectionInv

\* The answers that programs wait for stay as they are.
LEMMA AnswersKept ==
    ASSUME SelectionInv, TypeOK', \A x \in Process : answer'[x] = answer[x],
           UNCHANGED <<owner, string, doing, seen>>, asked' \subseteq asked,
           \A q \in Process : \A i \in DOMAIN requests'[q] :
             \/ i \in DOMAIN requests[q] /\ requests'[q][i] = requests[q][i]
             \/ requests'[q][i].by = Foreign
    PROVE  SelectionInv'
<1>1. /\ OwnerHasText' /\ DoingNames' /\ WaitsForOthers' /\ HoldsWhatItSaw'
  BY DEF SelectionInv, OwnerHasText, DoingNames, WaitsForOthers, HoldsWhatItSaw, Waits
<1>2. AnswersAreSeen'
  BY DEF SelectionInv, AnswersAreSeen, Waits
<1>3. RequestsAreOut'
  <2> SUFFICES ASSUME NEW q \in Process, NEW i \in DOMAIN requests'[q],
                      requests'[q][i].by \in Process
               PROVE  IsOut(requests[q][i].by, requests[q][i])'
                      /\ MayAnswer(q, requests[q][i])'
    BY DEF RequestsAreOut
  <2> DEFINE o == requests[q][i]
  <2>0. requests'[q][i] = o /\ i \in DOMAIN requests[q]
    BY ConstantsFit
  <2>1. IsOut(o.by, o) /\ MayAnswer(q, o) /\ o.by \in Process
    BY <2>0 DEF SelectionInv, RequestsAreOut
  <2> HIDE DEF o
  <2>2. QED
    BY <2>0, <2>1 DEF IsOut, MayAnswer
<1>4. AskedAreOut'
  BY DEF SelectionInv, AskedAreOut, IsOut
<1>5. OneRequest'
  <2>1. ASSUME NEW q \in Process, NEW o \in Process,
               NEW i \in DOMAIN requests'[q], NEW j \in DOMAIN requests'[o],
               requests'[q][i].by \in Process, requests'[q][i].by = requests'[o][j].by
        PROVE  q = o /\ i = j
    BY <2>1, ConstantsFit DEF SelectionInv, OneRequest
  <2>2. \A a, b \in asked' : a.by = b.by => a = b
    BY DEF SelectionInv, OneRequest
  <2>3. ASSUME NEW q \in Process, NEW i \in DOMAIN requests'[q], NEW a \in asked'
        PROVE  a.by # requests'[q][i].by
    <3>1. a \in asked /\ a.by \in Process
      BY DEF SelectionInv, AskedAreOut
    <3>2. QED
      BY <3>1, ConstantsFit DEF SelectionInv, OneRequest
  <2>4. QED
    BY <2>1, <2>2, <2>3 DEF OneRequest
<1>6. QED
  BY <1>1, <1>2, <1>3, <1>4, <1>5 DEF SelectionInv

\* A request leaves its queue; the program that gets the answer, if one does,
\* has no request after that.
LEMMA AnswerStep ==
    ASSUME SelectionInv, TypeOK', NEW x,
           \A y \in Process \ {x} : answer'[y] = answer[y],
           x \in Process =>
             /\ \A s \in Selection :
                  Waits(x, s) => answer'[x].text \in seen[x][s] \union {NoOne}
             /\ \A q \in Process : \A i \in DOMAIN requests'[q] : requests'[q][i].by # x
             /\ \A a \in asked' : a.by # x,
           UNCHANGED <<owner, string, doing, seen>>, asked' \subseteq asked,
           NEW k \in [Process -> {0, 1}],
           \A q \in Process : \A i \in DOMAIN requests'[q] :
             /\ i \in Nat /\ i + k[q] \in DOMAIN requests[q]
             /\ requests'[q][i] = requests[q][i + k[q]]
    PROVE  SelectionInv'
<1>1. /\ OwnerHasText' /\ DoingNames' /\ WaitsForOthers' /\ HoldsWhatItSaw'
  BY DEF SelectionInv, OwnerHasText, DoingNames, WaitsForOthers, HoldsWhatItSaw, Waits
<1>2. AnswersAreSeen'
  BY DEF SelectionInv, AnswersAreSeen, Waits
<1>3. RequestsAreOut'
  <2> SUFFICES ASSUME NEW q \in Process, NEW i \in DOMAIN requests'[q],
                      requests'[q][i].by \in Process
               PROVE  IsOut(requests[q][i].by, requests[q][i])'
                      /\ MayAnswer(q, requests[q][i])'
    BY DEF RequestsAreOut
  <2> DEFINE o == requests[q][i + k[q]]
  <2>0. requests'[q][i] = o /\ i + k[q] \in DOMAIN requests[q] /\ o.by # x
    OBVIOUS
  <2>1. IsOut(o.by, o) /\ MayAnswer(q, o) /\ o.by \in Process \ {x}
    BY <2>0 DEF SelectionInv, RequestsAreOut
  <2> HIDE DEF o
  <2>2. QED
    BY <2>0, <2>1 DEF IsOut, MayAnswer
<1>4. AskedAreOut'
  BY DEF SelectionInv, AskedAreOut, IsOut
<1>5. OneRequest'
  <2>1. ASSUME NEW q \in Process, NEW o \in Process,
               NEW i \in DOMAIN requests'[q], NEW j \in DOMAIN requests'[o],
               requests'[q][i].by \in Process, requests'[q][i].by = requests'[o][j].by
        PROVE  q = o /\ i = j
    <3>1. q = o /\ i + k[q] = j + k[o] /\ k[q] \in {0, 1} /\ i \in Nat /\ j \in Nat
      BY <2>1 DEF SelectionInv, OneRequest
    <3>2. QED
      BY <3>1
  <2>2. \A a, b \in asked' : a.by = b.by => a = b
    BY DEF SelectionInv, OneRequest
  <2>3. ASSUME NEW q \in Process, NEW i \in DOMAIN requests'[q], NEW a \in asked'
        PROVE  a.by # requests'[q][i].by
    BY DEF SelectionInv, OneRequest
  <2>4. QED
    BY <2>1, <2>2, <2>3 DEF OneRequest
<1>6. QED
  BY <1>1, <1>2, <1>3, <1>4, <1>5 DEF SelectionInv

LEMMA HandleStep ==
    ASSUME SelectionInv, TypeOK', NEW p \in Process, HandleSelectionRequest(p)
    PROVE  SelectionInv'
<1> DEFINE r == Head(requests[p])
           k == [q \in Process |-> IF q = p THEN 1 ELSE 0]
<1>0. TypeOK
  BY DEF SelectionInv
<1>1. /\ requests[p] # <<>> /\ requests' = [requests EXCEPT ![p] = Tail(@)]
      /\ owner' = owner /\ string' = string /\ doing' = doing /\ seen' = seen
      /\ asked' = asked
      /\ \/ answer' = answer
         \/ answer' = [answer EXCEPT ![r.by] = Converted(p, r)]
  BY DEF HandleSelectionRequest
<1>2. /\ requests[p] \in Seq(Request) /\ 1 \in DOMAIN requests[p] /\ r = requests[p][1]
      /\ \A i \in DOMAIN Tail(requests[p]) :
           /\ i \in Nat \ {0} /\ i + 1 \in DOMAIN requests[p]
           /\ Tail(requests[p])[i] = requests[p][i + 1]
  BY <1>0, <1>1, TailIndices, RequestParts
<1> HIDE DEF r
<1>3. \A q \in Process : \A i \in DOMAIN requests'[q] :
        /\ i \in Nat \ {0} /\ i + k[q] \in DOMAIN requests[q]
        /\ requests'[q][i] = requests[q][i + k[q]]
  <2> SUFFICES ASSUME NEW q \in Process, NEW i \in DOMAIN requests'[q]
               PROVE  /\ i \in Nat \ {0} /\ i + k[q] \in DOMAIN requests[q]
                      /\ requests'[q][i] = requests[q][i + k[q]]
    OBVIOUS
  <2>1. CASE q = p
    <3>1. requests'[q] = Tail(requests[p]) /\ k[q] = 1
      BY <1>0, <1>1, <2>1 DEF TypeOK
    <3>2. QED
      BY <1>2, <2>1, <3>1
  <2>2. CASE q # p
    <3>1. requests'[q] = requests[q] /\ k[q] = 0 /\ requests[q] \in Seq(Request)
      BY <1>0, <1>1, <2>2 DEF TypeOK
    <3>2. i \in Nat \ {0}
      BY <3>1
    <3>3. QED
      BY <3>1, <3>2
  <2>3. QED
    BY <2>1, <2>2
<1>4. k \in [Process -> {0, 1}] /\ k[p] = 1
  OBVIOUS
<1> HIDE DEF k
<1>5. CASE answer' = answer
  BY <1>1, <1>3, <1>4, <1>5, ConstantsFit, AnswerStep
<1>6. CASE answer' = [answer EXCEPT ![r.by] = Converted(p, r)]
  <2>1. \A y \in Process \ {r.by} : answer'[y] = answer[y]
    BY <1>0, <1>6 DEF TypeOK, Client
  <2>2. ASSUME r.by \in Process
        PROVE  /\ \A s \in Selection :
                    Waits(r.by, s) => answer'[r.by].text \in seen[r.by][s] \union {NoOne}
               /\ \A q \in Process : \A i \in DOMAIN requests'[q] : requests'[q][i].by # r.by
               /\ \A a \in asked' : a.by # r.by
    <3>1. IsOut(r.by, r) /\ MayAnswer(p, r) /\ r.selection \in Selection
      BY <1>0, <1>2, <2>2, RequestParts DEF SelectionInv, RequestsAreOut
    <3>2. answer'[r.by] = Converted(p, r)
      BY <1>0, <1>6, <2>2 DEF TypeOK, Client
    <3>3. answer'[r.by].text \in {string[p][r.selection], NoOne}
      BY <3>2 DEF Converted, Answer
    <3>4. string[p][r.selection] \in {p, NoOne} \union seen[p][r.selection]
      BY <3>1 DEF SelectionInv, HoldsWhatItSaw
    <3>5. answer'[r.by].text \in seen[r.by][r.selection] \union {NoOne}
      BY <3>1, <3>3, <3>4 DEF MayAnswer
    <3>6. \A s \in Selection : Waits(r.by, s) => s = r.selection
      BY <3>1 DEF Waits, IsOut
    <3>7. ASSUME NEW q \in Process, NEW i \in DOMAIN requests'[q],
                 requests'[q][i].by = r.by
          PROVE  FALSE
      <4>1. q = p /\ i + k[q] = 1
        BY <1>2, <1>3, <2>2, <3>7 DEF SelectionInv, OneRequest
      <4>2. QED
        BY <1>3, <1>4, <4>1
    <3>8. \A a \in asked' : a.by # r.by
      BY <1>1, <1>2 DEF SelectionInv, OneRequest
    <3>9. QED
      BY <3>5, <3>6, <3>7, <3>8
  <2>3. QED
    BY <1>1, <1>3, <1>4, <2>1, <2>2, AnswerStep
<1>7. QED
  BY <1>1, <1>5, <1>6

LEMMA TryNextStep ==
    ASSUME SelectionInv, TypeOK', NEW p \in Process, TryNext(p),
           doing[p].what \in {"notify", "chunks"},
           doing[p].what # "notify" \/ answer[p].kind # "nothing",
           UNCHANGED <<owner, seen>>
    PROVE  SelectionInv'
<1> DEFINE s == doing[p].selection
<1>0. TypeOK /\ s \in Selection /\ Waits(p, s)
  BY DEF SelectionInv, DoingNames, Waits
<1>1. /\ string[p][s] = NoOne /\ owner[s] # p
      /\ owner[s] \in seen[p][s] \union {NoOne}
  BY <1>0 DEF SelectionInv, WaitsForOthers
<1>2. CASE doing[p].target = "UTF8_STRING"
  <2>1. /\ Convert(p, s, "STRING") /\ string' = string
        /\ doing' = [doing EXCEPT ![p] = [what |-> "notify", target |-> "STRING",
                                          selection |-> s, from |-> owner[s]]]
    BY <1>2 DEF TryNext
  <2> HIDE DEF s
  <2>2. string' = [string EXCEPT ![p][s] = NoOne]
    BY <1>0, <1>1, <2>1 DEF TypeOK
  <2>3. seen' = [seen EXCEPT ![p][s] = seen[p][s]]
    BY <1>0 DEF TypeOK
  <2>4. doing' = [doing EXCEPT ![p] = [what |-> "notify", selection |-> s,
                                       target |-> "STRING", from |-> owner[s]]]
    BY <2>1
  <2>5. /\ \A q \in Process : \A i \in DOMAIN requests[q] : requests[q][i].by # p
        /\ \A r \in asked : r.by # p
    BY Settled
  <2>6. "STRING" \in {"UTF8_STRING", "STRING"} /\ owner' = owner
    OBVIOUS
  <2>7. QED
    BY <1>0, <1>1, <2>1, <2>2, <2>3, <2>4, <2>5, <2>6, ConvertStep
<1>3. CASE doing[p].target # "UTF8_STRING"
  <2>1. Return(p, string[p][s])
    BY <1>3 DEF TryNext
  <2>2. QED
    BY <1>1, <2>1, ReturnStep
<1>4. QED
  BY <1>2, <1>3

\* What a program does with doing, if it asks for nothing by it.
LEMMA DoingStep ==
    ASSUME SelectionInv, TypeOK', NEW p \in Process,
           doing[p].what # "notify" \/ answer[p].kind # "nothing",
           \A x \in Process \ {p} : doing'[x] = doing[x],
           \/ /\ doing'[p].what = "push" /\ doing'[p].selection = "none"
              /\ "CLIPBOARD" \in Selection
           \/ /\ doing[p].what = "notify" /\ doing'[p].what = "chunks"
              /\ doing'[p].selection = doing[p].selection,
           UNCHANGED <<owner, string, requests, asked, answer, seen>>
    PROVE  SelectionInv'
<1>1. \A x \in Process, s \in Selection : Waits(x, s)' => Waits(x, s)
  BY ConstantsFit DEF Waits
<1>2. OwnerHasText' /\ DoingNames' /\ HoldsWhatItSaw' /\ OneRequest'
  BY DEF SelectionInv, OwnerHasText, DoingNames, HoldsWhatItSaw, OneRequest
<1>3. WaitsForOthers' /\ AnswersAreSeen'
  BY <1>1 DEF SelectionInv, WaitsForOthers, AnswersAreSeen
<1>4. /\ \A q \in Process : \A i \in DOMAIN requests[q] : requests[q][i].by # p
      /\ \A r \in asked : r.by # p
  BY Settled
<1>5. RequestsAreOut' /\ AskedAreOut'
  BY <1>4 DEF SelectionInv, RequestsAreOut, AskedAreOut, IsOut, MayAnswer
<1>6. QED
  BY <1>2, <1>3, <1>5 DEF SelectionInv

LEMMA ProgramStep ==
    ASSUME SelectionInv, TypeOK', NEW p \in Process, Program(p)
    PROVE  SelectionInv'
<1>0. TypeOK /\ p \in Client
  BY DEF SelectionInv, Client
<1>1. ASSUME NEW s \in Selection, SetSelectionString(p, s)
      PROVE  SelectionInv'
  BY <1>0, <1>1, SetOwnerStep DEF SetSelectionString, IsIdle
<1>2. ASSUME NEW s \in Selection, GetSelectionString(p, s)
      PROVE  SelectionInv'
  <2>1. /\ doing[p] = Idle /\ owner[s] # p /\ owner' = owner
        /\ string' = [string EXCEPT ![p][s] = NoOne]
        /\ Convert(p, s, "UTF8_STRING")
        /\ doing' = [doing EXCEPT ![p] = [what |-> "notify", selection |-> s,
                                          target |-> "UTF8_STRING", from |-> owner[s]]]
        /\ seen' = [seen EXCEPT ![p][s] = {owner[s]}]
    BY <1>2 DEF GetSelectionString, MayFree, Freed, IsIdle
  <2>2. doing[p].what = "idle"
    BY <2>1 DEF Idle
  <2>3. /\ \A q \in Process : \A i \in DOMAIN requests[q] : requests[q][i].by # p
        /\ \A r \in asked : r.by # p
    BY <2>2, Settled
  <2>4. "UTF8_STRING" \in {"UTF8_STRING", "STRING"} /\ owner[s] \in {owner[s]} \union {NoOne}
    OBVIOUS
  <2>5. QED
    BY <2>1, <2>3, <2>4, ConvertStep
<1>3. CASE Receive(p)
  <2>1. doing[p].what = "notify" /\ UNCHANGED <<owner, seen>>
    BY <1>3 DEF Receive
  <2>2. CASE answer[p].kind = "refused" /\ TryNext(p)
    BY <2>1, <2>2, TryNextStep
  <2>3. CASE answer[p].kind = "data" /\ Return(p, answer[p].text)
    <3>1. answer[p].text \in seen[p][doing[p].selection] \union {NoOne}
      BY <2>1 DEF SelectionInv, AnswersAreSeen, DoingNames, Waits
    <3>2. QED
      BY <2>1, <2>3, <3>1, ReturnStep
  <2>4. CASE /\ answer[p].kind = "INCR" /\ doing' = [doing EXCEPT ![p].what = "chunks"]
             /\ UNCHANGED <<string, requests, asked, answer, sent>>
    <3>1. /\ doing'[p].what = "chunks" /\ doing'[p].selection = doing[p].selection
          /\ \A x \in Process \ {p} : doing'[x] = doing[x]
      BY <1>0, <2>4 DEF TypeOK
    <3>2. QED
      BY <2>1, <2>4, <3>1, DoingStep
  <2>5. QED
    BY <1>3, <2>2, <2>3, <2>4 DEF Receive
<1>4. CASE ReceiveChunk(p)
  <2>1. doing[p].what = "chunks" /\ UNCHANGED <<owner, seen>>
    BY <1>4 DEF ReceiveChunk
  <2>2. CASE UNCHANGED <<string, doing, requests, asked, answer, sent>>
    BY <2>1, <2>2, AnswersKept
  <2>3. CASE TryNext(p)
    BY <2>1, <2>3, TryNextStep
  <2>4. CASE Return(p, answer[p].text)
    <3>1. answer[p].text \in seen[p][doing[p].selection] \union {NoOne}
      BY <2>1 DEF SelectionInv, AnswersAreSeen, DoingNames, Waits
    <3>2. QED
      BY <2>1, <2>4, <3>1, ReturnStep
  <2>5. QED
    BY <1>4, <2>2, <2>3, <2>4 DEF ReceiveChunk
<1>5. CASE HandleSelectionRequest(p)
  BY <1>5, HandleStep
<1>6. CASE Terminate(p)
  <2>1. doing[p] = Idle /\ UNCHANGED <<asked, answer>>
    BY <1>6 DEF Terminate, IsIdle
  <2>2. doing[p].what = "idle"
    BY <2>1 DEF Idle
  <2>3. CASE Gone(p)
    BY <2>1, <2>2, <2>3, GoneStep
  <2>4. CASE /\ Pushes(p)
             /\ doing' = [doing EXCEPT ![p] = [Idle EXCEPT !.what = "push", !.from = Foreign]]
             /\ UNCHANGED <<alive, owner, requests, string, sent, seen>>
    <3>1. /\ [Idle EXCEPT !.what = "push", !.from = Foreign].what = "push"
          /\ [Idle EXCEPT !.what = "push", !.from = Foreign].selection = "none"
      BY DEF Idle
    <3>2. /\ doing'[p] = [Idle EXCEPT !.what = "push", !.from = Foreign]
          /\ \A x \in Process \ {p} : doing'[x] = doing[x]
      BY <1>0, <2>4 DEF TypeOK
    <3>3. QED
      BY <2>1, <2>2, <2>4, <3>1, <3>2, DoingStep DEF Pushes
  <2>5. QED
    BY <1>6, <2>3, <2>4 DEF Terminate
<1>7. CASE Pushed(p)
  BY <1>7, GoneStep DEF Pushed
<1>8. QED
  BY <1>1, <1>2, <1>3, <1>4, <1>5, <1>6, <1>7 DEF Program

LEMMA OtherStep ==
    ASSUME SelectionInv, TypeOK', Other
    PROVE  SelectionInv'
<1>0. TypeOK /\ Foreign \in Client /\ \A x \in Process : x \in Client /\ x # Foreign
  BY ConstantsFit DEF SelectionInv, Client
<1>1. ASSUME NEW s \in Selection, ForeignOwns(s)
      PROVE  SelectionInv'
  BY <1>0, <1>1, SetOwnerStep DEF ForeignOwns
<1>2. ASSUME NEW s \in Selection, NEW t \in {"MULTIPLE"} \union Targets, ForeignAsks(s, t)
      PROVE  SelectionInv'
  <2>1. /\ owner[s] \in Process /\ Convert(Foreign, s, t)
        /\ UNCHANGED <<owner, string, doing, seen>>
    BY <1>2 DEF ForeignAsks
  <2> DEFINE r == [by |-> Foreign, selection |-> s, target |-> t]
  <2>2. /\ \A x \in Process : x # Foreign => answer'[x] = answer[x]
        /\ asked' = asked \/ owner[s] = Foreign
        /\ \A q \in Process : \A i \in DOMAIN requests'[q] :
             \/ i \in DOMAIN requests[q] /\ requests'[q][i] = requests[q][i]
             \/ requests'[q][i] = r
    BY <1>0, <2>1, ConvertParts
  <2>3. r.by = Foreign
    OBVIOUS
  <2> HIDE DEF r
  <2>4. QED
    BY <1>0, <2>1, <2>2, <2>3, AnswersKept
<1>3. CASE ForeignForgets
  <2>1. \A x \in Process : answer'[x] = answer[x]
    BY <1>0, <1>3 DEF TypeOK, ForeignForgets
  <2>2. QED
    BY <1>3, <2>1, AnswersKept DEF ForeignForgets
<1>4. ASSUME NEW r \in asked, ForeignAnswers(r)
      PROVE  SelectionInv'
  <2> DEFINE k == [q \in Process |-> 0]
  <2>1. PICK kind \in {"refused", "data", "INCR"} :
          answer' = [answer EXCEPT ![r.by] =
                       Answer(kind, IF kind \in {"data", "INCR"} THEN Foreign ELSE NoOne)]
    BY <1>4 DEF ForeignAnswers
  <2>2. /\ asked' = asked \ {r} /\ requests' = requests
        /\ UNCHANGED <<owner, string, doing, seen>>
    BY <1>4 DEF ForeignAnswers
  <2>3. r.by \in Process /\ IsOut(r.by, r) /\ Foreign \in seen[r.by][r.selection]
    BY DEF SelectionInv, AskedAreOut
  <2>4. /\ \A y \in Process \ {r.by} : answer'[y] = answer[y]
        /\ answer'[r.by].text \in {Foreign, NoOne}
    BY <1>0, <2>1, <2>3 DEF TypeOK, Answer
  <2>5. \A s \in Selection :
          Waits(r.by, s) => answer'[r.by].text \in seen[r.by][s] \union {NoOne}
    BY <2>3, <2>4 DEF Waits, IsOut
  <2>6. /\ \A q \in Process : \A i \in DOMAIN requests'[q] : requests'[q][i].by # r.by
        /\ \A a \in asked' : a.by # r.by
    BY <2>2 DEF SelectionInv, OneRequest
  <2>7. \A q \in Process : \A i \in DOMAIN requests'[q] :
          /\ i \in Nat /\ i + k[q] \in DOMAIN requests[q]
          /\ requests'[q][i] = requests[q][i + k[q]]
    <3>1. \A q \in Process : requests[q] \in Seq(Request)
      BY <1>0, RequestParts
    <3>2. QED
      BY <2>2, <3>1
  <2>8. k \in [Process -> {0, 1}]
    OBVIOUS
  <2> HIDE DEF k
  <2>9. QED
    BY <2>2, <2>4, <2>5, <2>6, <2>7, <2>8, AnswerStep
<1>5. ASSUME NEW p \in Process, ForeignSends(p)
      PROVE  SelectionInv'
  BY <1>5, AnswersKept DEF ForeignSends
<1>6. ASSUME NEW p \in Process, ManagerAsks(p)
      PROVE  SelectionInv'
  BY <1>2, <1>6 DEF ManagerAsks, SelectionInv, DoingNames
<1>7. QED
  BY <1>1, <1>2, <1>3, <1>4, <1>5, <1>6 DEF Other

\* Whoever reads a selection gets the text of one that has owned it since the
\* call began, and who owns one still has its text to convert: X11Selection,
\* for any number of programs that serve each other's requests, read and give
\* up in any order (getSelectionString, handleSelectionRequest,
\* writeTargetToProperty).
THEOREM SelectionsAreTrueAlways == Spec => []SelectionsAreTrue
<1>1. Init => SelectionInv
  BY InitSelectionInv
<1>2. SelectionInv /\ [Next]_vars => SelectionInv'
  <2> SUFFICES ASSUME SelectionInv, [Next]_vars
               PROVE  SelectionInv'
    OBVIOUS
  <2>0. TypeOK /\ DoingNames
    BY DEF SelectionInv
  <2>1. ASSUME NEW p \in Process, Program(p)
        PROVE  SelectionInv'
    BY <2>0, <2>1, ProgramTypes, ProgramStep
  <2>2. CASE Other
    BY <2>0, <2>2, OtherTypes, OtherStep
  <2>3. CASE UNCHANGED vars
    <3>1. TypeOK'
      BY <2>0, <2>3, TypesKept
    <3>2. QED
      BY <2>3, <3>1, AnswersKept DEF vars
  <2>4. QED
    BY <2>1, <2>2, <2>3 DEF Next
<1>3. SelectionInv => SelectionsAreTrue
  <2> SUFFICES ASSUME SelectionInv PROVE ReadsWhatWasCurrent
    BY DEF SelectionInv, SelectionsAreTrue
  <2>1. alive \subseteq Process
    BY DEF SelectionInv, TypeOK
  <2>2. QED
    BY <2>1 DEF SelectionInv, ReadsWhatWasCurrent, HoldsWhatItSaw
<1>4. QED
  BY <1>1, <1>2, <1>3, PTL DEF Spec
=============================================================================
