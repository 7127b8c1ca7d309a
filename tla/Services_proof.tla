--------------------------- MODULE Services_proof ---------------------------
(* What the library takes from other programs and gives back, for any number *)
(* of programs, drags, offers, strings and windows, and queues of any length. *)
EXTENDS MC_Services, SequenceTheorems, TLAPS

--------------------------------------------------------------------------------
(* Drags on X11 *)

Message == [type : {"enter", "position", "leave", "drop", "data", "refusal"},
            from : Dragger, data : {"none", "files", "comments", "empty"}]

\* The last XdndEnter of the first i messages of q is of s, where x has sent the
\* last one before q.
LastEnter(q, i, s, x) ==
    \/ /\ x = s /\ \A k \in 1..i : q[k].type # "enter"
    \/ \E j \in 1..i : /\ q[j].type = "enter" /\ q[j].from = s
                       /\ \A k \in (j + 1)..i : q[k].type # "enter"

\* Between the XdndEnter of a source and its drop no other source enters: the
\* source that the window answers to is the one that has dropped.
DropsFollowEnter ==
    \A i \in 1..Len(inbox) : inbox[i].type = "drop" =>
        LastEnter(inbox, i, inbox[i].from, xdnd.source)
OverEnteredLast ==
    alive => \A s \in Dragger : phase[s] = "over" =>
        LastEnter(inbox, Len(inbox), s, xdnd.source)
OwnerIsThere == (\E s \in Dragger : phase[s] # "idle") => dragOwner \in Dragger
OneIsOver == \A r, s \in Dragger : phase[r] = "over" /\ phase[s] = "over" => r = s

DropsAreDropped ==
    \A i \in 1..Len(inbox) : inbox[i].type = "drop" => phase[inbox[i].from] = "dropped"

XdndIsOfSource ==
    /\ xdnd.source = NoDragger => xdnd.version = 0 /\ ~xdnd.format
    /\ xdnd.source # NoDragger =>
         /\ xdnd.version = version[xdnd.source]
         /\ xdnd.format => xdnd.source \in listed

\* A source that has a time converts for its own drop only.
AskedForDrops ==
    \A r \in asked :
        /\ phase[r.for] = "dropped" /\ r.for \in listed
        /\ version[r.for] >= 1 => r.time = r.for

Timeless == \E r \in Dragger : version[r] = 0
DroppedFiles(s) == (phase[s] = "dropped" /\ s \in listed) \/ Timeless

DataOfDrops ==
    \A i \in 1..Len(inbox) : inbox[i].type = "data" => DroppedFiles(inbox[i].from)
DeliveredDropped == \A s \in delivered : DroppedFiles(s)

\* A drop that is to be answered waits, or its conversion does, or the data.
Excused(s) ==
    version[s] < 2 \/ version[s] > XDND_VERSION \/ s \in refused \union overtaken
DropWaits(s) == \E i \in 1..Len(inbox) : inbox[i].type = "drop" /\ inbox[i].from = s
DataWaits == \E i \in 1..Len(inbox) : inbox[i].type = "data"
AnswerComes(s) ==
    DropWaits(s) \/ (xdnd.source = s /\ (DataWaits \/ \E r \in asked : r.for = s))
AnswersCome ==
    alive /\ ~asserted => \A s \in X!Unanswered : Excused(s) \/ AnswerComes(s)

NothingForTheDead == ~alive => inbox = <<>>

DropInv ==
    /\ X!TypeOK
    /\ DropsFollowEnter /\ OverEnteredLast /\ OneIsOver /\ DropsAreDropped /\ OwnerIsThere
    /\ XdndIsOfSource /\ AskedForDrops /\ DataOfDrops /\ DeliveredDropped
    /\ AnswersCome /\ NothingForTheDead

LEMMA LastEnterAppended ==
    ASSUME NEW q \in Seq(Message), NEW e \in Message, NEW i \in 0..Len(q), NEW s, NEW x,
           LastEnter(q, i, s, x)
    PROVE  LastEnter(Append(q, e), i, s, x)
<1> DEFINE p == Append(q, e)
<1>1. Len(q) \in Nat /\ \A k \in 1..i : p[k] = q[k]
  BY AppendProperties
<1>2. \A j \in 1..i : \A k \in (j + 1)..i : k \in 1..i
  BY <1>1
<1> HIDE DEF p
<1>3. LastEnter(p, i, s, x)
  BY <1>1, <1>2 DEF LastEnter
<1>4. QED
  BY <1>3 DEF p

LEMMA LastEnterOfNext ==
    ASSUME NEW q \in Seq(Message), NEW e \in Message, NEW s, NEW x,
           \/ e.type = "enter" /\ e.from = s
           \/ e.type # "enter" /\ LastEnter(q, Len(q), s, x)
    PROVE  LastEnter(Append(q, e), Len(q) + 1, s, x)
<1> DEFINE p == Append(q, e)   n == Len(q)
<1>1. n \in Nat /\ p[n + 1] = e /\ \A k \in 1..n : p[k] = q[k]
  BY AppendProperties
<1>2. n + 1 \in 1..(n + 1) /\ \A k \in (n + 1 + 1)..(n + 1) : FALSE
  BY <1>1
<1>3. \A j \in 1..n : j \in 1..(n + 1) /\ \A k \in (j + 1)..(n + 1) : k \in (j + 1)..n \/ k = n + 1
  BY <1>1
<1>4. \A k \in 1..(n + 1) : k \in 1..n \/ k = n + 1
  BY <1>1
<1>5. \A j \in 1..n : \A k \in (j + 1)..n : k \in 1..n
  BY <1>1
<1> HIDE DEF p, n
<1>6. CASE e.type = "enter" /\ e.from = s
  BY <1>1, <1>2, <1>6 DEF LastEnter, p, n
<1>7. CASE e.type # "enter" /\ LastEnter(q, n, s, x)
  <2>1. CASE x = s /\ \A k \in 1..n : q[k].type # "enter"
    <3>1. \A k \in 1..(n + 1) : p[k].type # "enter"
      BY <1>1, <1>4, <1>7, <2>1
    <3>2. QED
      BY <2>1, <3>1 DEF LastEnter, p, n
  <2>2. ASSUME NEW j \in 1..n, q[j].type = "enter", q[j].from = s,
               \A k \in (j + 1)..n : q[k].type # "enter"
        PROVE  LastEnter(p, n + 1, s, x)
    <3>1. p[j].type = "enter" /\ p[j].from = s
      BY <1>1, <2>2
    <3>2. \A k \in (j + 1)..(n + 1) : p[k].type # "enter"
      BY <1>1, <1>3, <1>5, <1>7, <2>2
    <3>3. QED
      BY <1>3, <3>1, <3>2 DEF LastEnter
  <2>3. QED
    BY <1>7, <2>1, <2>2 DEF LastEnter, p, n
<1>8. QED
  BY <1>6, <1>7 DEF n, p

LEMMA LastEnterOfTail ==
    ASSUME NEW q \in Seq(Message), q # <<>>, NEW i \in 1..Len(q), NEW s, NEW x,
           LastEnter(q, i, s, x)
    PROVE  LastEnter(Tail(q), i - 1, s, IF Head(q).type = "enter" THEN Head(q).from ELSE x)
<1> DEFINE t == Tail(q)   n == Len(q)   y == IF Head(q).type = "enter" THEN Head(q).from ELSE x
<1>1. /\ n \in Nat /\ q[1] = Head(q) /\ i \in 1..n
      /\ \A k \in 1..(i - 1) : t[k] = q[k + 1] /\ k + 1 \in 1..i
  BY HeadTailProperties
<1>2. 1 \in 1..i /\ \A k \in 1..(i - 1) : k + 1 \in 2..i
  BY <1>1
<1>3. \A j \in 1..i : j # 1 =>
        /\ j - 1 \in 1..(i - 1) /\ t[j - 1] = q[j]
        /\ \A k \in (j - 1 + 1)..(i - 1) : k \in 1..(i - 1) /\ k + 1 \in (j + 1)..i
  <2> TAKE j \in 1..i
  <2> HAVE j # 1
  <2>1. j - 1 \in 1..(i - 1) /\ j - 1 + 1 = j
    BY <1>1
  <2>2. t[j - 1] = q[j]
    BY <1>1, <2>1
  <2>3. \A k \in (j - 1 + 1)..(i - 1) : k \in 1..(i - 1) /\ k + 1 \in (j + 1)..i
    BY <1>1, <2>1
  <2>4. QED
    BY <2>1, <2>2, <2>3
<1> HIDE DEF t, n
<1>4. CASE x = s /\ \A k \in 1..i : q[k].type # "enter"
  <2>1. \A k \in 1..(i - 1) : t[k].type # "enter"
    BY <1>1, <1>4
  <2>2. QED
    BY <1>1, <1>2, <1>4, <2>1 DEF LastEnter, t
<1>5. ASSUME NEW j \in 1..i, q[j].type = "enter", q[j].from = s,
             \A k \in (j + 1)..i : q[k].type # "enter"
      PROVE  LastEnter(t, i - 1, s, y)
  <2>1. CASE j = 1
    <3>1. \A k \in 1..(i - 1) : k + 1 \in (j + 1)..i
      BY <1>1, <2>1
    <3>2. \A k \in 1..(i - 1) : t[k].type # "enter"
      BY <1>1, <1>5, <3>1
    <3>3. y = s
      BY <1>1, <1>5, <2>1
    <3>4. QED
      BY <3>2, <3>3 DEF LastEnter
  <2>2. CASE j # 1
    <3>1. \A k \in (j - 1 + 1)..(i - 1) : t[k].type # "enter"
      BY <1>1, <1>3, <1>5, <2>2
    <3>2. j - 1 \in 1..(i - 1) /\ t[j - 1].type = "enter" /\ t[j - 1].from = s
      BY <1>3, <1>5, <2>2
    <3>3. QED
      BY <3>1, <3>2 DEF LastEnter
  <2>3. QED
    BY <2>1, <2>2
<1>6. \/ x = s /\ \A k \in 1..i : q[k].type # "enter"
      \/ \E j \in 1..i : /\ q[j].type = "enter" /\ q[j].from = s
                         /\ \A k \in (j + 1)..i : q[k].type # "enter"
  BY DEF LastEnter
<1>7. QED
  BY <1>4, <1>5, <1>6 DEF t

LEMMA DropTypes ==
    ASSUME X!TypeOK
    PROVE  /\ inbox \in Seq(Message) /\ Len(inbox) \in Nat
           /\ \A i \in 1..Len(inbox) : inbox[i] \in Message
<1>1. inbox \in Seq(Message)
  BY DEF X!TypeOK, Message
<1>2. QED
  BY <1>1, ElementOfSeq, LenProperties

\* A message is posted.
LEMMA Posted ==
    ASSUME DropInv, NEW m \in Message, inbox' = Append(inbox, m), xdnd' = xdnd
    PROVE  /\ inbox' \in Seq(Message) /\ Len(inbox') = Len(inbox) + 1
           /\ \A i \in 1..Len(inbox') : inbox'[i] = m \/ (i \in 1..Len(inbox) /\ inbox'[i] = inbox[i])
           /\ (m.type # "drop" \/ LastEnter(inbox, Len(inbox), m.from, xdnd.source)) =>
                DropsFollowEnter'
           /\ \A s : (\/ m.type = "enter" /\ m.from = s
                      \/ m.type # "enter" /\ LastEnter(inbox, Len(inbox), s, xdnd.source))
                => LastEnter(inbox', Len(inbox'), s, xdnd'.source)
           /\ \A s : DropWaits(s) \/ (m.type = "drop" /\ m.from = s) => DropWaits(s)'
           /\ DataWaits \/ m.type = "data" => DataWaits'
<1> DEFINE n == Len(inbox)
<1>1. /\ inbox \in Seq(Message) /\ n \in Nat /\ inbox' \in Seq(Message) /\ Len(inbox') = n + 1
      /\ inbox'[n + 1] = m /\ \A i \in 1..n : inbox'[i] = inbox[i]
  BY DropTypes, AppendProperties DEF DropInv
<1>2. \A i \in 1..(n + 1) : i = n + 1 \/ i \in 1..n
  BY <1>1
<1>3. n + 1 \in 1..(n + 1) /\ \A i \in 1..n : i \in 1..(n + 1) /\ i \in 0..n
  BY <1>1
<1>4. \A s : (\/ m.type = "enter" /\ m.from = s
              \/ m.type # "enter" /\ LastEnter(inbox, Len(inbox), s, xdnd.source))
        => LastEnter(inbox', Len(inbox'), s, xdnd'.source)
  BY <1>1, LastEnterOfNext
<1>5. ASSUME m.type # "drop" \/ LastEnter(inbox, n, m.from, xdnd.source)
      PROVE  DropsFollowEnter'
  <2> SUFFICES ASSUME NEW i \in 1..(n + 1), inbox'[i].type = "drop"
               PROVE  LastEnter(inbox', i, inbox'[i].from, xdnd.source)
    BY <1>1 DEF DropsFollowEnter
  <2>1. CASE i = n + 1
    BY <1>1, <1>4, <1>5, <2>1
  <2>2. CASE i # n + 1
    <3>1. i \in 1..n /\ i \in 0..n /\ inbox[i] = inbox'[i]
      BY <1>1, <1>2, <1>3, <2>2
    <3>2. LastEnter(inbox, i, inbox[i].from, xdnd.source)
      BY <3>1 DEF DropInv, DropsFollowEnter
    <3>3. QED
      BY <1>1, <3>1, <3>2, LastEnterAppended
  <2>3. QED
    BY <2>1, <2>2
<1>6. \A s : DropWaits(s) \/ (m.type = "drop" /\ m.from = s) => DropWaits(s)'
  BY <1>1, <1>3 DEF DropWaits
<1>7. DataWaits \/ m.type = "data" => DataWaits'
  BY <1>1, <1>3 DEF DataWaits
<1>8. QED
  BY <1>1, <1>2, <1>4, <1>5, <1>6, <1>7

\* The first message is handled.
LEMMA Popped ==
    ASSUME DropInv, inbox # <<>>, inbox' = Tail(inbox),
           xdnd'.source = IF Head(inbox).type = "enter" THEN Head(inbox).from
                          ELSE xdnd.source
    PROVE  /\ inbox' \in Seq(Message) /\ Len(inbox') = Len(inbox) - 1 /\ Len(inbox) \in Nat
           /\ Head(inbox) = inbox[1] /\ Head(inbox) \in Message /\ 1 \in 1..Len(inbox)
           /\ \A i \in 1..Len(inbox') : i + 1 \in 1..Len(inbox) /\ inbox'[i] = inbox[i + 1]
           /\ DropsFollowEnter'
           /\ \A s : LastEnter(inbox, Len(inbox), s, xdnd.source) =>
                LastEnter(inbox', Len(inbox'), s, xdnd'.source)
           /\ \A s : DropWaits(s) =>
                DropWaits(s)' \/ (Head(inbox).type = "drop" /\ Head(inbox).from = s)
           /\ DataWaits => DataWaits' \/ Head(inbox).type = "data"
<1> DEFINE n == Len(inbox)
<1>1. /\ inbox \in Seq(Message) /\ n \in Nat /\ inbox' \in Seq(Message) /\ Len(inbox') = n - 1
      /\ Head(inbox) = inbox[1] /\ n >= 1
      /\ \A i \in 1..(n - 1) : inbox'[i] = inbox[i + 1]
  BY DropTypes, HeadTailProperties DEF DropInv
<1>2. 1 \in 1..n /\ Head(inbox) \in Message /\ n \in 1..n
  BY <1>1, DropTypes DEF DropInv
<1>3. \A i \in 1..(n - 1) : i + 1 \in 1..n /\ i + 1 - 1 = i
  BY <1>1
<1>4. \A i \in 1..n : i = 1 \/ (i - 1 \in 1..(n - 1) /\ i - 1 + 1 = i)
  BY <1>1
<1>5. \A i \in 1..n : \A s : LastEnter(inbox, i, s, xdnd.source) =>
        LastEnter(inbox', i - 1, s, xdnd'.source)
  BY <1>1, LastEnterOfTail
<1>6. DropsFollowEnter'
  <2> SUFFICES ASSUME NEW i \in 1..(n - 1), inbox'[i].type = "drop"
               PROVE  LastEnter(inbox', i, inbox'[i].from, xdnd'.source)
    BY <1>1 DEF DropsFollowEnter
  <2>1. i + 1 \in 1..n /\ inbox[i + 1] = inbox'[i]
    BY <1>1, <1>3
  <2>2. LastEnter(inbox, i + 1, inbox[i + 1].from, xdnd.source)
    BY <2>1 DEF DropInv, DropsFollowEnter
  <2>3. LastEnter(inbox', i + 1 - 1, inbox[i + 1].from, xdnd'.source)
    BY <1>5, <2>1, <2>2
  <2>4. QED
    BY <1>3, <2>1, <2>3
<1>7. \A s : DropWaits(s) =>
        DropWaits(s)' \/ (Head(inbox).type = "drop" /\ Head(inbox).from = s)
  <2> SUFFICES ASSUME NEW s, NEW i \in 1..n, inbox[i].type = "drop", inbox[i].from = s
               PROVE  DropWaits(s)' \/ (Head(inbox).type = "drop" /\ Head(inbox).from = s)
    BY DEF DropWaits
  <2>1. CASE i = 1
    BY <1>1, <2>1
  <2>2. CASE i # 1
    <3>1. i - 1 \in 1..Len(inbox') /\ inbox'[i - 1] = inbox[i]
      BY <1>1, <1>4, <2>2
    <3>2. QED
      BY <3>1 DEF DropWaits
  <2>3. QED
    BY <2>1, <2>2
<1>8. DataWaits => DataWaits' \/ Head(inbox).type = "data"
  BY <1>1, <1>4 DEF DataWaits
<1>9. \A s : LastEnter(inbox, n, s, xdnd.source) =>
        LastEnter(inbox', Len(inbox'), s, xdnd'.source)
  BY <1>1, <1>2, <1>5
<1>10. QED
  BY <1>1, <1>2, <1>3, <1>6, <1>7, <1>8, <1>9

\* A source posts a message of type t.
SourcePosts(s, t) ==
    /\ X!Post(t, s, "none") /\ X!Fits
    /\ t = "enter" => /\ alive /\ phase[s] = "idle" /\ \A r \in Dragger : phase[r] # "over"
                      /\ phase' = [phase EXCEPT ![s] = "over"]
    /\ t = "position" => phase[s] = "over" /\ phase' = phase
    /\ t = "leave" => phase[s] = "over" /\ phase' = [phase EXCEPT ![s] = "idle"]
    /\ t = "drop" => phase[s] = "over" /\ phase' = [phase EXCEPT ![s] = "dropped"]
    /\ status' \in [Dragger -> {"none", "asked", "yes", "no"}]
    /\ dragOwner' = IF t = "enter" THEN s ELSE dragOwner
    /\ UNCHANGED <<xdnd, alive, version, listed, finished, asked, refused, overtaken,
                   delivered, asserted>>

LEMMA SourceStep ==
    ASSUME X!DropAssumption, DropInv, NEW s \in Dragger,
           NEW t \in {"enter", "position", "leave", "drop"}, SourcePosts(s, t)
    PROVE  DropInv'
<1> DEFINE m == [type |-> t, from |-> s, data |-> "none"]
<1>1. /\ X!Fits /\ Len(inbox) \in Nat /\ inbox \in Seq(Message)
      /\ UNCHANGED <<xdnd, alive, version, listed, finished, asked, refused, overtaken,
                     delivered, asserted>>
  BY DropTypes DEF DropInv, SourcePosts
<1>2. /\ m \in Message /\ m.type = t /\ m.from = s
      /\ inbox' = IF alive THEN Append(inbox, m) ELSE inbox
  BY DEF Message, SourcePosts, X!Post
<1> HIDE DEF m
<1>3. /\ phase' \in [Dragger -> {"idle", "over", "dropped"}]
      /\ status' \in [Dragger -> {"none", "asked", "yes", "no"}]
      /\ dragOwner' \in Dragger \union {NoDragger} /\ OwnerIsThere'
  <2>1. /\ phase \in [Dragger -> {"idle", "over", "dropped"}]
        /\ dragOwner \in Dragger \union {NoDragger} /\ OwnerIsThere
    BY DEF DropInv, X!TypeOK
  <2>2. QED
    BY <2>1 DEF SourcePosts, OwnerIsThere
<1>4. \A r \in Dragger :
        /\ phase[r] = "dropped" => phase'[r] = "dropped"
        /\ phase'[r] = "over" => phase[r] = "over" \/ (r = s /\ m.type = "enter")
        /\ phase'[r] = "dropped" => phase[r] = "dropped" \/ (r = s /\ m.type = "drop")
        /\ m.type = "drop" => phase'[s] = "dropped"
        /\ m.type \in {"leave", "drop"} => phase'[r] # "over"
  <2>1. phase \in [Dragger -> {"idle", "over", "dropped"}] /\ OneIsOver
    BY DEF DropInv, X!TypeOK
  <2>2. QED
    BY <1>2, <2>1 DEF SourcePosts, OneIsOver
<1>5. OneIsOver'
  <2>1. phase \in [Dragger -> {"idle", "over", "dropped"}] /\ OneIsOver
    BY DEF DropInv, X!TypeOK
  <2>2. QED
    BY <2>1 DEF SourcePosts, OneIsOver
<1>6. CASE ~alive
  <2>1. inbox' = inbox
    BY <1>2, <1>6
  <2>2. X!TypeOK'
    BY <1>1, <1>3, <2>1 DEF DropInv, X!TypeOK
  <2>3. QED
    <3>1. inbox = <<>> /\ Len(inbox) = 0 /\ \A i \in 1..0 : FALSE
      BY <1>6 DEF DropInv, NothingForTheDead
    <3>2. /\ DropsFollowEnter' /\ OverEnteredLast' /\ DropsAreDropped' /\ DataOfDrops'
          /\ NothingForTheDead'
      BY <1>1, <1>6, <2>1, <3>1
      DEF DropsFollowEnter, OverEnteredLast, DropsAreDropped, DataOfDrops, NothingForTheDead
    <3>3. XdndIsOfSource' /\ AskedForDrops' /\ DeliveredDropped' /\ AnswersCome'
      BY <1>1, <1>4, <1>6 DEF DropInv, XdndIsOfSource, AskedForDrops, DeliveredDropped,
         DroppedFiles, Timeless, X!TypeOK, AnswersCome
    <3>4. QED
      BY <1>3, <1>5, <2>2, <3>2, <3>3 DEF DropInv
<1>7. CASE alive
  <2>1. inbox' = Append(inbox, m) /\ xdnd' = xdnd
    BY <1>1, <1>2, <1>7
  <2>2. /\ inbox' \in Seq(Message) /\ Len(inbox') = Len(inbox) + 1
        /\ \A i \in 1..Len(inbox') :
             inbox'[i] = m \/ (i \in 1..Len(inbox) /\ inbox'[i] = inbox[i])
        /\ (m.type # "drop" \/ LastEnter(inbox, Len(inbox), m.from, xdnd.source)) =>
             DropsFollowEnter'
        /\ \A r : (\/ m.type = "enter" /\ m.from = r
                   \/ m.type # "enter" /\ LastEnter(inbox, Len(inbox), r, xdnd.source))
             => LastEnter(inbox', Len(inbox'), r, xdnd'.source)
        /\ \A r : DropWaits(r) \/ (m.type = "drop" /\ m.from = r) => DropWaits(r)'
        /\ DataWaits \/ m.type = "data" => DataWaits'
    BY <1>2, <2>1, Posted
  <2>3. Len(inbox') <= MaxEvents
    BY <1>1, <2>2 DEF X!Fits, X!DropAssumption
  <2>4. X!TypeOK'
    BY <1>1, <1>3, <2>2, <2>3 DEF DropInv, X!TypeOK, Message
  <2>5. DropsFollowEnter'
    <3>1. t = "drop" => LastEnter(inbox, Len(inbox), s, xdnd.source)
      BY <1>7 DEF DropInv, OverEnteredLast, SourcePosts
    <3>2. QED
      BY <1>2, <2>2, <3>1
  <2>6. OverEnteredLast'
    <3>1. \A r \in Dragger : phase'[r] = "over" =>
            \/ m.type = "enter" /\ m.from = r
            \/ m.type # "enter" /\ LastEnter(inbox, Len(inbox), r, xdnd.source)
      <4>1. t = "enter" => \A r \in Dragger : phase[r] # "over"
        BY DEF SourcePosts
      <4>2. QED
        BY <1>2, <1>4, <1>7, <4>1 DEF DropInv, OverEnteredLast
    <3>2. QED
      BY <2>2, <3>1 DEF OverEnteredLast
  <2>7. DropsAreDropped' /\ DataOfDrops'
    <3>1. \A i \in 1..Len(inbox) : inbox[i].from \in Dragger
      BY DropTypes DEF DropInv, Message
    <3>2. \A r \in Dragger : DroppedFiles(r) => DroppedFiles(r)'
      BY <1>1, <1>4 DEF DroppedFiles, Timeless
    <3>3. DropsAreDropped'
      BY <1>2, <1>4, <2>2, <3>1 DEF DropInv, DropsAreDropped
    <3>4. DataOfDrops'
      BY <1>2, <2>2, <3>1, <3>2 DEF DropInv, DataOfDrops
    <3>5. QED
      BY <3>3, <3>4
  <2>8. XdndIsOfSource' /\ AskedForDrops' /\ DeliveredDropped'
    BY <1>1, <1>4 DEF DropInv, XdndIsOfSource, AskedForDrops, DeliveredDropped, DroppedFiles,
       Timeless, X!TypeOK
  <2>9. AnswersCome'
    <3>1. \A r \in Dragger : r \in X!Unanswered' =>
            r \in X!Unanswered \/ (m.type = "drop" /\ m.from = r)
      BY <1>1, <1>2, <1>4 DEF X!Unanswered
    <3>2. \A r \in Dragger : AnswerComes(r) => AnswerComes(r)'
      BY <1>1, <2>2 DEF AnswerComes
    <3>3. \A r \in Dragger : m.type = "drop" /\ m.from = r => AnswerComes(r)'
      BY <2>2 DEF AnswerComes
    <3>4. QED
      BY <1>1, <3>1, <3>2, <3>3 DEF DropInv, AnswersCome, Excused, X!Unanswered
  <2>10. QED
    BY <1>1, <1>3, <1>5, <1>7, <2>4, <2>5, <2>6, <2>7, <2>8, <2>9 DEF DropInv, NothingForTheDead
<1>8. QED
  BY <1>6, <1>7

LEMMA DragStep ==
    ASSUME X!DropAssumption, DropInv, NEW s \in Dragger,
           X!DragEnters(s) \/ X!DragMoves(s) \/ X!DragLeaves(s) \/ X!DragDrops(s)
    PROVE  DropInv'
<1>1. /\ status \in [Dragger -> {"none", "asked", "yes", "no"}]
      /\ dragOwner \in Dragger \union {NoDragger}
  BY DEF DropInv, X!TypeOK
<1>2. CASE X!DragEnters(s)
  <2>1. SourcePosts(s, "enter")
    BY <1>1, <1>2 DEF X!DragEnters, SourcePosts
  <2>2. QED
    BY <2>1, SourceStep
<1>3. CASE X!DragMoves(s)
  <2>1. SourcePosts(s, "position")
    BY <1>1, <1>3 DEF X!DragMoves, X!sources, SourcePosts
  <2>2. QED
    BY <2>1, SourceStep
<1>4. CASE X!DragLeaves(s)
  <2>1. SourcePosts(s, "leave")
    BY <1>1, <1>4 DEF X!DragLeaves, SourcePosts
  <2>2. QED
    BY <2>1, SourceStep
<1>5. CASE X!DragDrops(s)
  <2>1. SourcePosts(s, "drop")
    BY <1>1, <1>5 DEF X!DragDrops, SourcePosts
  <2>2. QED
    BY <2>1, SourceStep
<1>6. QED
  BY <1>2, <1>3, <1>4, <1>5

\* A conversion is answered with data, of a source that has dropped, or refused.
LEMMA SourceConvertsStep ==
    ASSUME X!DropAssumption, DropInv, NEW r \in asked, X!SourceConverts(r)
    PROVE  DropInv'
<1>1. /\ r \in [owner : Dragger, for : Dragger, time : Dragger \union {NoDragger}]
      /\ asked' = asked \ {r} /\ X!Fits /\ refused \subseteq Dragger
      /\ Len(inbox) \in Nat /\ inbox \in Seq(Message)
      /\ UNCHANGED <<phase, version, listed, dragOwner, xdnd, alive, status, finished,
                     overtaken, delivered, asserted>>
  BY DropTypes DEF DropInv, X!TypeOK, X!SourceConverts, X!sources
<1>2. PICK m \in Message :
        /\ m.from = r.owner /\ inbox' = IF alive THEN Append(inbox, m) ELSE inbox
        /\ \/ m.type = "data" /\ r.time \in {NoDragger, r.owner} /\ refused' = refused
           \/ m.type = "refusal" /\ refused' = refused \union {r.for}
  <2>1. CASE /\ r.time \in {NoDragger, r.owner} /\ refused' = refused
             /\ \E data \in {"files", "comments", "empty"} : X!Post("data", r.owner, data)
    <3>1. PICK data \in {"files", "comments", "empty"} : X!Post("data", r.owner, data)
      BY <2>1
    <3>2. [type |-> "data", from |-> r.owner, data |-> data] \in Message
      BY <1>1 DEF Message
    <3>3. QED
      BY <2>1, <3>1, <3>2 DEF X!Post
  <2>2. CASE refused' = refused \union {r.for} /\ X!Post("refusal", r.owner, "none")
    <3>1. [type |-> "refusal", from |-> r.owner, data |-> "none"] \in Message
      BY <1>1 DEF Message
    <3>2. QED
      BY <2>2, <3>1 DEF X!Post
  <2>3. QED
    BY <2>1, <2>2 DEF X!SourceConverts
<1>3. m.type = "data" => DroppedFiles(m.from)
  <2>1. /\ phase[r.for] = "dropped" /\ r.for \in listed /\ r.for \in Dragger
        /\ version[r.for] >= 1 => r.time = r.for
    BY <1>1 DEF DropInv, AskedForDrops
  <2>2. version[r.for] \in Nat
    BY <2>1 DEF DropInv, X!TypeOK, X!DropAssumption
  <2>3. version[r.for] = 0 \/ version[r.for] >= 1
    BY <2>2
  <2>4. QED
    BY <1>2, <2>1, <2>3 DEF X!DropAssumption, DroppedFiles, Timeless
<1>4. /\ AskedForDrops' /\ OneIsOver' /\ XdndIsOfSource' /\ DeliveredDropped'
      /\ OwnerIsThere'
  BY <1>1 DEF DropInv, AskedForDrops, OneIsOver, XdndIsOfSource, DeliveredDropped, Timeless,
     DroppedFiles, OwnerIsThere
<1>5. refused' \subseteq Dragger /\ asked' \subseteq asked
  BY <1>1, <1>2
<1>6. CASE ~alive
  <2>1. inbox' = inbox
    BY <1>2, <1>6
  <2>2. X!TypeOK'
    BY <1>1, <1>5, <2>1 DEF DropInv, X!TypeOK
  <2>3. /\ DropsFollowEnter' /\ OverEnteredLast' /\ DropsAreDropped' /\ DataOfDrops'
        /\ NothingForTheDead' /\ AnswersCome'
    BY <1>1, <1>6, <2>1
    DEF DropInv, DropsFollowEnter, OverEnteredLast, DropsAreDropped, DataOfDrops,
        NothingForTheDead, AnswersCome, DroppedFiles, Timeless
  <2>4. QED
    BY <1>4, <2>2, <2>3 DEF DropInv
<1>7. CASE alive
  <2>1. inbox' = Append(inbox, m) /\ xdnd' = xdnd
    BY <1>1, <1>2, <1>7
  <2>2. /\ inbox' \in Seq(Message) /\ Len(inbox') = Len(inbox) + 1
        /\ \A i \in 1..Len(inbox') :
             inbox'[i] = m \/ (i \in 1..Len(inbox) /\ inbox'[i] = inbox[i])
        /\ (m.type # "drop" \/ LastEnter(inbox, Len(inbox), m.from, xdnd.source)) =>
             DropsFollowEnter'
        /\ \A s : (\/ m.type = "enter" /\ m.from = s
                   \/ m.type # "enter" /\ LastEnter(inbox, Len(inbox), s, xdnd.source))
             => LastEnter(inbox', Len(inbox'), s, xdnd'.source)
        /\ \A s : DropWaits(s) \/ (m.type = "drop" /\ m.from = s) => DropWaits(s)'
        /\ DataWaits \/ m.type = "data" => DataWaits'
    BY <1>2, <2>1, Posted
  <2>3. Len(inbox') <= MaxEvents
    BY <1>1, <2>2 DEF X!Fits, X!DropAssumption
  <2>4. X!TypeOK'
    BY <1>1, <1>5, <2>2, <2>3 DEF DropInv, X!TypeOK, Message
  <2>5. DropsFollowEnter' /\ OverEnteredLast'
    BY <1>1, <1>2, <2>2 DEF DropInv, OverEnteredLast
  <2>6. DropsAreDropped' /\ DataOfDrops'
    BY <1>1, <1>2, <1>3, <2>2
    DEF DropInv, DropsAreDropped, DataOfDrops, DroppedFiles, Timeless
  <2>7. AnswersCome'
    <3>1. X!Unanswered' = X!Unanswered /\ X!Unanswered \subseteq Dragger
      BY <1>1 DEF X!Unanswered
    <3>2. \A s \in Dragger : AnswerComes(s) => AnswerComes(s)' \/ s \in refused'
      BY <1>1, <1>2, <2>2 DEF AnswerComes
    <3>3. \A s \in Dragger : Excused(s) => Excused(s)'
      BY <1>1, <1>2 DEF Excused
    <3>4. QED
      BY <1>1, <3>1, <3>2, <3>3 DEF DropInv, AnswersCome, Excused
  <2>8. QED
    BY <1>1, <1>4, <1>7, <2>4, <2>5, <2>6, <2>7 DEF DropInv, NothingForTheDead
<1>8. QED
  BY <1>6, <1>7

\* The window handles its first message.
Handles ==
    /\ inbox # <<>> /\ inbox' = Tail(inbox) /\ alive /\ ~asserted
    /\ UNCHANGED <<phase, version, listed, dragOwner, alive, refused>>

LEMMA HandlesStep ==
    ASSUME X!DropAssumption, DropInv, Handles,
           xdnd'.source = IF Head(inbox).type = "enter" THEN Head(inbox).from
                          ELSE xdnd.source
    PROVE  /\ inbox' \in Seq(Message) /\ Len(inbox') \in Nat /\ Len(inbox') <= MaxEvents
           /\ DropsFollowEnter' /\ OverEnteredLast' /\ OneIsOver' /\ DropsAreDropped'
           /\ OwnerIsThere' /\ DataOfDrops' /\ NothingForTheDead'
<1>1. /\ inbox' \in Seq(Message) /\ Len(inbox') = Len(inbox) - 1 /\ Len(inbox) \in Nat
      /\ \A i \in 1..Len(inbox') : i + 1 \in 1..Len(inbox) /\ inbox'[i] = inbox[i + 1]
      /\ DropsFollowEnter' /\ 1 \in 1..Len(inbox)
      /\ \A s : LastEnter(inbox, Len(inbox), s, xdnd.source) =>
           LastEnter(inbox', Len(inbox'), s, xdnd'.source)
  BY Popped DEF Handles
<1>2. Len(inbox') \in Nat /\ Len(inbox') <= MaxEvents
  BY <1>1 DEF DropInv, X!TypeOK, X!DropAssumption
<1>3. OverEnteredLast' /\ OneIsOver' /\ OwnerIsThere' /\ NothingForTheDead'
  BY <1>1 DEF DropInv, Handles, OverEnteredLast, OneIsOver, OwnerIsThere, NothingForTheDead
<1>4. DropsAreDropped' /\ DataOfDrops'
  BY <1>1 DEF DropInv, Handles, DropsAreDropped, DataOfDrops, DroppedFiles, Timeless
<1>5. QED
  BY <1>1, <1>2, <1>3, <1>4

LEMMA FirstMessage ==
    ASSUME DropInv, NEW t, X!First(t), inbox' = Tail(inbox),
           UNCHANGED <<phase, version, listed, dragOwner, alive, refused>>
    PROVE  /\ Handles /\ Head(inbox) \in Message /\ Head(inbox).type = t
           /\ Head(inbox) = inbox[1] /\ 1 \in 1..Len(inbox)
           /\ Head(inbox).from \in Dragger /\ version[Head(inbox).from] \in Version
           /\ xdnd'.source = (IF t = "enter" THEN Head(inbox).from ELSE xdnd.source) =>
                /\ \A s : DropWaits(s) =>
                     DropWaits(s)' \/ (t = "drop" /\ Head(inbox).from = s)
                /\ DataWaits => DataWaits' \/ t = "data"
<1>1. Handles /\ Head(inbox).type = t
  BY DEF X!First, Handles
<1>2. Head(inbox) = inbox[1] /\ 1 \in 1..Len(inbox) /\ Head(inbox) \in Message
  BY <1>1, DropTypes, HeadTailProperties DEF DropInv, Handles
<1>3. Head(inbox).from \in Dragger /\ version[Head(inbox).from] \in Version
  BY <1>2 DEF Message, DropInv, X!TypeOK
<1>4. QED
  BY <1>1, <1>2, <1>3, Popped DEF Handles

\* An answer that comes still does, or has come.
LEMMA AnswersKept ==
    ASSUME DropInv, alive, ~asserted, UNCHANGED <<phase, version, alive>>,
           overtaken \subseteq overtaken', refused \subseteq refused',
           \A s \in Dragger : finished[s] # "none" => finished'[s] # "none",
           \A s \in X!Unanswered \intersect X!Unanswered' :
               AnswerComes(s) /\ ~Excused(s) => AnswerComes(s)' \/ Excused(s)'
    PROVE  AnswersCome'
<1>1. \A s \in X!Unanswered' : s \in X!Unanswered
  BY DEF X!Unanswered
<1>2. \A s : Excused(s) => Excused(s)'
  BY DEF Excused
<1>3. \A s \in X!Unanswered : Excused(s) \/ AnswerComes(s)
  BY DEF DropInv, AnswersCome
<1>4. QED
  BY <1>1, <1>2, <1>3 DEF AnswersCome

LEMMA HandleEnterStep ==
    ASSUME X!DropAssumption, DropInv, X!HandleEnter
    PROVE  DropInv'
<1>1. PICK s : s = Head(inbox).from
  OBVIOUS
<1>2. /\ X!First("enter") /\ inbox' = Tail(inbox)
      /\ UNCHANGED <<phase, version, listed, dragOwner, alive, status, finished, asked,
                     refused, delivered, asserted>>
      /\ xdnd' = [source |-> s, version |-> version[s],
                  format |-> version[s] <= XDND_VERSION /\ s \in listed]
      /\ overtaken' = overtaken \union (X!Unanswered \ {s})
  BY <1>1 DEF X!HandleEnter, X!sources
<1>3. /\ Handles /\ s \in Dragger /\ version[s] \in Version /\ Head(inbox).type = "enter"
      /\ xdnd'.source = s
      /\ \A r : DropWaits(r) => DropWaits(r)'
      /\ DataWaits => DataWaits'
  BY <1>1, <1>2, FirstMessage
<1>4. /\ inbox' \in Seq(Message) /\ Len(inbox') \in Nat /\ Len(inbox') <= MaxEvents
      /\ DropsFollowEnter' /\ OverEnteredLast' /\ OneIsOver' /\ DropsAreDropped'
      /\ OwnerIsThere' /\ DataOfDrops' /\ NothingForTheDead'
  BY <1>1, <1>3, HandlesStep
<1>5. X!TypeOK'
  <2>1. (version[s] <= XDND_VERSION /\ s \in listed) \in BOOLEAN
    OBVIOUS
  <2>2. xdnd' \in [source : Dragger \union {NoDragger}, version : Version \union {0},
                   format : BOOLEAN]
    BY <1>2, <1>3, <2>1
  <2>3. overtaken' \subseteq Dragger
    BY <1>2 DEF DropInv, X!TypeOK, X!Unanswered
  <2>4. QED
    BY <1>2, <1>4, <2>2, <2>3 DEF DropInv, X!TypeOK, Message
<1>6. XdndIsOfSource' /\ AskedForDrops' /\ DeliveredDropped'
  BY <1>2, <1>3 DEF DropInv, XdndIsOfSource, AskedForDrops, DeliveredDropped, DroppedFiles,
     Timeless, X!DropAssumption
<1>7. AnswersCome'
  <2>1. \A r \in X!Unanswered : r # s => Excused(r)'
    BY <1>2 DEF Excused
  <2>2. AnswerComes(s) => AnswerComes(s)'
    BY <1>2, <1>3 DEF AnswerComes
  <2>3. alive /\ ~asserted /\ overtaken \subseteq overtaken'
    BY <1>2, <1>3 DEF Handles
  <2>4. QED
    BY <1>2, <2>1, <2>2, <2>3, AnswersKept
<1>8. QED
  BY <1>4, <1>5, <1>6, <1>7 DEF DropInv

LEMMA HandlePositionStep ==
    ASSUME X!DropAssumption, DropInv, X!HandlePosition \/ X!HandleOther
    PROVE  DropInv'
<1>1. PICK t \in {"position", "leave", "refusal"} : X!First(t)
  BY DEF X!HandlePosition, X!HandleOther
<1>2. /\ inbox' = Tail(inbox)
      /\ UNCHANGED <<xdnd, phase, version, listed, dragOwner, alive, finished, asked, refused,
                     overtaken, delivered, asserted>>
  BY DEF X!HandlePosition, X!HandleOther, X!sources
<1>3. /\ Handles /\ Head(inbox).type = t /\ t \notin {"enter", "drop", "data"}
      /\ \A r : DropWaits(r) => DropWaits(r)'
      /\ DataWaits => DataWaits'
  BY <1>1, <1>2, FirstMessage
<1>4. /\ inbox' \in Seq(Message) /\ Len(inbox') \in Nat /\ Len(inbox') <= MaxEvents
      /\ DropsFollowEnter' /\ OverEnteredLast' /\ OneIsOver' /\ DropsAreDropped'
      /\ OwnerIsThere' /\ DataOfDrops' /\ NothingForTheDead'
  BY <1>2, <1>3, HandlesStep
<1>5. status' \in [Dragger -> {"none", "asked", "yes", "no"}]
  <2>1. status \in [Dragger -> {"none", "asked", "yes", "no"}]
    BY DEF DropInv, X!TypeOK
  <2>2. \A v \in {"yes", "no"} :
          [status EXCEPT ![xdnd.source] = v] \in [Dragger -> {"none", "asked", "yes", "no"}]
    BY <2>1
  <2>3. QED
    BY <2>1, <2>2 DEF X!HandlePosition, X!HandleOther
<1>6. X!TypeOK'
  BY <1>2, <1>4, <1>5 DEF DropInv, X!TypeOK, Message
<1>7. XdndIsOfSource' /\ AskedForDrops' /\ DeliveredDropped'
  BY <1>2 DEF DropInv, XdndIsOfSource, AskedForDrops, DeliveredDropped, DroppedFiles, Timeless
<1>8. AnswersCome'
  <2>1. \A r : AnswerComes(r) => AnswerComes(r)'
    BY <1>2, <1>3 DEF AnswerComes
  <2>2. QED
    BY <1>2, <1>3, <2>1, AnswersKept DEF Handles
<1>9. QED
  BY <1>4, <1>6, <1>7, <1>8 DEF DropInv

LEMMA HandleDropStep ==
    ASSUME X!DropAssumption, DropInv, X!HandleDrop
    PROVE  DropInv'
<1>1. PICK d : d = Head(inbox).from
  OBVIOUS
<1> DEFINE r == [owner |-> dragOwner, for |-> d, time |-> X!Time(d)]
<1>2. /\ X!First("drop") /\ inbox' = Tail(inbox)
      /\ UNCHANGED <<xdnd, phase, version, listed, dragOwner, alive, status, refused, overtaken,
                     delivered, asserted>>
      /\ asked' = IF X!Supported /\ xdnd.format THEN asked \union {r} ELSE asked
      /\ finished' = IF X!Supported /\ X!Rejects
                     THEN [finished EXCEPT ![xdnd.source] = "rejected"] ELSE finished
  BY <1>1 DEF X!HandleDrop, X!sources
<1>3. /\ Handles /\ d \in Dragger /\ version[d] \in Version /\ Head(inbox).type = "drop"
      /\ Head(inbox) = inbox[1] /\ 1 \in 1..Len(inbox)
      /\ \A s : DropWaits(s) => DropWaits(s)' \/ d = s
      /\ DataWaits => DataWaits'
  BY <1>1, <1>2, FirstMessage
<1>4. phase[d] = "dropped" /\ dragOwner \in Dragger
  BY <1>1, <1>3 DEF DropInv, DropsAreDropped, OwnerIsThere
<1>5. xdnd.source = d
  <2>1. LastEnter(inbox, 1, d, xdnd.source)
    BY <1>1, <1>3 DEF DropInv, DropsFollowEnter
  <2>2. QED
    BY <1>3, <2>1 DEF LastEnter
<1>6. /\ xdnd.version = version[d] /\ version[d] \in Nat
      /\ xdnd.format => d \in listed
  BY <1>3, <1>5 DEF DropInv, XdndIsOfSource, X!DropAssumption
<1>7. /\ inbox' \in Seq(Message) /\ Len(inbox') \in Nat /\ Len(inbox') <= MaxEvents
      /\ DropsFollowEnter' /\ OverEnteredLast' /\ OneIsOver' /\ DropsAreDropped'
      /\ OwnerIsThere' /\ DataOfDrops' /\ NothingForTheDead'
  BY <1>2, <1>3, HandlesStep
<1>8. /\ r \in [owner : Dragger, for : Dragger, time : Dragger \union {NoDragger}]
      /\ r.for = d
      /\ version[d] >= 1 => r.time = d
  BY <1>3, <1>4, <1>6 DEF X!Time
<1> HIDE DEF r
<1>9. finished' \in [Dragger -> {"none", "accepted", "rejected"}]
      /\ \A s \in Dragger : finished[s] # "none" => finished'[s] # "none"
  <2>1. finished \in [Dragger -> {"none", "accepted", "rejected"}]
    BY DEF DropInv, X!TypeOK
  <2>2. QED
    BY <1>2, <2>1
<1>10. X!TypeOK'
  BY <1>2, <1>7, <1>8, <1>9 DEF DropInv, X!TypeOK, Message
<1>11. XdndIsOfSource' /\ DeliveredDropped'
  BY <1>2 DEF DropInv, XdndIsOfSource, DeliveredDropped, DroppedFiles, Timeless
<1>12. AskedForDrops'
  BY <1>2, <1>4, <1>6, <1>8 DEF DropInv, AskedForDrops
<1>13. AnswersCome'
  <2>1. ASSUME NEW s \in X!Unanswered, AnswerComes(s), ~Excused(s), s \in X!Unanswered'
        PROVE  AnswerComes(s)'
    <3>1. CASE s = d
      <4>1. X!Supported /\ xdnd.version >= 2
        BY <1>5, <1>6, <2>1, <3>1 DEF Excused, X!Supported, X!DropAssumption
      <4>2. CASE xdnd.format
        BY <1>2, <1>5, <1>8, <3>1, <4>1, <4>2 DEF AnswerComes
      <4>3. CASE ~xdnd.format
        <5>1. finished'[d] = "rejected"
          BY <1>2, <1>3, <1>5, <4>1, <4>3 DEF X!Rejects, DropInv, X!TypeOK
        <5>2. QED
          BY <2>1, <3>1, <5>1 DEF X!Unanswered
      <4>4. QED
        BY <4>2, <4>3
    <3>2. CASE s # d
      BY <1>2, <1>3, <2>1, <3>2 DEF AnswerComes
    <3>3. QED
      BY <3>1, <3>2
  <2>2. QED
    BY <1>2, <1>3, <1>9, <2>1, AnswersKept DEF Handles
<1>14. QED
  BY <1>7, <1>10, <1>11, <1>12, <1>13 DEF DropInv

LEMMA HandleDataStep ==
    ASSUME X!DropAssumption, DropInv, X!HandleData
    PROVE  DropInv'
<1> DEFINE e == Head(inbox)
<1>1. /\ X!First("data") /\ inbox' = Tail(inbox)
      /\ UNCHANGED <<xdnd, phase, version, listed, dragOwner, alive, status, asked, refused,
                     overtaken>>
      /\ delivered' = IF e.data = "files" THEN delivered \union {e.from} ELSE delivered
      /\ asserted' = (e.data = "comments")
      /\ finished' = IF xdnd.version >= 2 /\ e.data # "comments"
                     THEN [finished EXCEPT ![xdnd.source] =
                             IF e.data = "empty" THEN "rejected" ELSE "accepted"]
                     ELSE finished
  BY DEF X!HandleData, X!sources
<1>2. /\ Handles /\ e.from \in Dragger /\ e.type = "data" /\ e = inbox[1]
      /\ 1 \in 1..Len(inbox)
      /\ \A s : DropWaits(s) => DropWaits(s)'
  BY <1>1, FirstMessage
<1>3. DroppedFiles(e.from)
  BY <1>2 DEF DropInv, DataOfDrops
<1> HIDE DEF e
<1>4. /\ inbox' \in Seq(Message) /\ Len(inbox') \in Nat /\ Len(inbox') <= MaxEvents
      /\ DropsFollowEnter' /\ OverEnteredLast' /\ OneIsOver' /\ DropsAreDropped'
      /\ OwnerIsThere' /\ DataOfDrops' /\ NothingForTheDead'
  BY <1>1, <1>2, HandlesStep DEF e
<1>5. /\ finished' \in [Dragger -> {"none", "accepted", "rejected"}]
      /\ \A s \in Dragger : finished[s] # "none" => finished'[s] # "none"
      /\ xdnd.version >= 2 /\ e.data # "comments" /\ xdnd.source \in Dragger =>
           finished'[xdnd.source] # "none"
  <2>1. finished \in [Dragger -> {"none", "accepted", "rejected"}]
    BY DEF DropInv, X!TypeOK
  <2> DEFINE v == IF e.data = "empty" THEN "rejected" ELSE "accepted"
  <2>2. v \in {"accepted", "rejected"} /\ v # "none"
    OBVIOUS
  <2>3. finished' = IF xdnd.version >= 2 /\ e.data # "comments"
                    THEN [finished EXCEPT ![xdnd.source] = v] ELSE finished
    BY <1>1
  <2> HIDE DEF v
  <2>4. QED
    BY <2>1, <2>2, <2>3
<1>6. X!TypeOK'
  BY <1>1, <1>2, <1>4, <1>5 DEF DropInv, X!TypeOK, Message
<1>7. XdndIsOfSource' /\ AskedForDrops'
  BY <1>1 DEF DropInv, XdndIsOfSource, AskedForDrops
<1>8. DeliveredDropped'
  BY <1>1, <1>3 DEF DropInv, DeliveredDropped, DroppedFiles, Timeless
<1>9. AnswersCome'
  <2>1. CASE e.data = "comments"
    BY <1>1, <2>1 DEF AnswersCome
  <2>2. CASE e.data # "comments"
    <3>1. ASSUME NEW s \in X!Unanswered, AnswerComes(s), ~Excused(s), s \in X!Unanswered'
          PROVE  AnswerComes(s)'
      <4>1. CASE DropWaits(s)
        BY <1>2, <4>1 DEF AnswerComes
      <4>2. CASE xdnd.source = s
        <5>1. s \in Dragger /\ finished'[s] = "none"
          BY <3>1 DEF X!Unanswered
        <5>2. xdnd.version = version[s] /\ version[s] \in Nat
          BY <4>2, <5>1 DEF DropInv, XdndIsOfSource, X!DropAssumption, X!TypeOK
        <5>3. xdnd.version >= 2
          BY <3>1, <5>2 DEF Excused
        <5>4. QED
          BY <1>5, <2>2, <4>2, <5>1, <5>3
      <4>3. QED
        BY <3>1, <4>1, <4>2 DEF AnswerComes
    <3>2. QED
      BY <1>1, <1>2, <1>5, <3>1, AnswersKept DEF Handles
  <2>3. QED
    BY <2>1, <2>2
<1>10. QED
  BY <1>4, <1>6, <1>7, <1>8, <1>9 DEF DropInv

LEMMA DropNext ==
    ASSUME X!DropAssumption, DropInv, X!Next \/ UNCHANGED dropVars
    PROVE  DropInv'
<1>1. CASE X!DestroyWindow
  <2>1. /\ ~alive' /\ inbox' = <<>> /\ Len(inbox') = 0 /\ MaxEvents >= 0
        /\ UNCHANGED <<phase, version, listed, dragOwner, xdnd, status, finished, asked, refused,
                       overtaken, delivered, asserted>>
    BY <1>1 DEF X!DestroyWindow, X!sources, X!DropAssumption
  <2>2. X!TypeOK'
    <3>1. inbox' \in Seq(Message)
      BY <2>1
    <3>2. Len(inbox') <= MaxEvents
      BY <2>1
    <3>3. QED
      BY <1>1, <2>1, <3>1, <3>2 DEF DropInv, X!TypeOK, Message, X!DestroyWindow
  <2>3. \A i \in 1..0 : FALSE
    OBVIOUS
  <2>4. QED
    BY <2>1, <2>2, <2>3
    DEF DropInv, DropsFollowEnter, OverEnteredLast, OneIsOver, DropsAreDropped, OwnerIsThere,
        XdndIsOfSource, AskedForDrops, DataOfDrops, DeliveredDropped, DroppedFiles, Timeless,
        AnswersCome, NothingForTheDead
<1>2. CASE UNCHANGED dropVars
  <2>1. UNCHANGED <<xdnd, alive, inbox, phase, version, listed, status, finished, dragOwner,
                    asked, refused, overtaken, delivered, asserted>>
    BY <1>2 DEF dropVars
  <2>2. X!TypeOK'
    BY <2>1 DEF DropInv, X!TypeOK
  <2>3. DropsFollowEnter' /\ OverEnteredLast' /\ OneIsOver' /\ DropsAreDropped' /\ OwnerIsThere'
    BY <2>1
    DEF DropInv, DropsFollowEnter, OverEnteredLast, OneIsOver, DropsAreDropped, OwnerIsThere
  <2>4. /\ XdndIsOfSource' /\ AskedForDrops' /\ DataOfDrops' /\ DeliveredDropped'
        /\ NothingForTheDead'
    BY <2>1
    DEF DropInv, XdndIsOfSource, AskedForDrops, DataOfDrops, DeliveredDropped, DroppedFiles,
        Timeless, NothingForTheDead
  <2>5. AnswersCome'
    BY <2>1
    DEF DropInv, AnswersCome, X!Unanswered, Excused, AnswerComes, DropWaits, DataWaits
  <2>6. QED
    BY <2>2, <2>3, <2>4, <2>5 DEF DropInv
<1>3. QED
  BY <1>1, <1>2, DragStep, SourceConvertsStep, HandleEnterStep, HandlePositionStep,
     HandleDropStep, HandleDataStep DEF X!Next

LEMMA DropStart == ASSUME X!DropAssumption, X!Init PROVE DropInv
<1>1. inbox = <<>> /\ Len(inbox) = 0 /\ \A i \in 1..0 : FALSE
  BY DEF X!Init
<1>2. X!TypeOK
  <2>1. inbox \in Seq(Message) /\ Len(inbox) <= MaxEvents
    BY <1>1 DEF X!DropAssumption
  <2>2. xdnd \in [source : Dragger \union {NoDragger}, version : Version \union {0},
                  format : BOOLEAN]
    BY DEF X!Init
  <2>3. /\ phase \in [Dragger -> {"idle", "over", "dropped"}]
        /\ status \in [Dragger -> {"none", "asked", "yes", "no"}]
        /\ finished \in [Dragger -> {"none", "accepted", "rejected"}]
    BY DEF X!Init
  <2>4. /\ alive \in BOOLEAN /\ asserted \in BOOLEAN /\ version \in [Dragger -> Version]
        /\ listed \subseteq Dragger /\ dragOwner \in Dragger \union {NoDragger}
        /\ asked = {} /\ refused = {} /\ overtaken = {} /\ delivered = {}
    BY DEF X!Init
  <2>5. QED
    BY <2>1, <2>2, <2>3, <2>4 DEF X!TypeOK, Message
<1>3. /\ DropsFollowEnter /\ OverEnteredLast /\ OneIsOver /\ DropsAreDropped
      /\ OwnerIsThere /\ DataOfDrops /\ NothingForTheDead
  BY <1>1
  DEF X!Init, DropsFollowEnter, OverEnteredLast, OneIsOver, DropsAreDropped, OwnerIsThere,
      DataOfDrops, NothingForTheDead
<1>4. XdndIsOfSource /\ AskedForDrops /\ DeliveredDropped /\ AnswersCome
  BY DEF X!Init, XdndIsOfSource, AskedForDrops, DeliveredDropped, AnswersCome, X!Unanswered
<1>5. QED
  BY <1>2, <1>3, <1>4 DEF DropInv

LEMMA DropsHonest == ASSUME DropInv PROVE X!TypeOK /\ X!FilesWereDropped /\ X!DropsAreAnswered
<1>1. X!FilesWereDropped
  BY DEF DropInv, DeliveredDropped, DroppedFiles, Timeless, X!FilesWereDropped
<1>2. X!DropsAreAnswered
  BY DEF DropInv, AnswersCome, AnswerComes, DropWaits, DataWaits, Excused, X!DropsAreAnswered
<1>3. QED
  BY <1>1, <1>2 DEF DropInv

\* Files come only from a drop, unless some source has no time stamps, and every
\* drop on a window that is there is answered once the queue is empty, whatever
\* other sources send meanwhile; excepted are sources that need no answer, have
\* refused to convert or were overtaken by another drag (processEvent).
THEOREM DropsAreHonestAlways == ServicesSpec => []DropsAreHonest
<1> DEFINE Inv == subject = "drop" => DropInv
<1>1. ServicesInit => Inv
  BY DropStart, ServicesAssumption DEF ServicesInit
<1>2. Inv /\ [ServicesNext]_<<subject, dataVars, dropVars, textVars, initVars>> => Inv'
  <2> SUFFICES ASSUME Inv, [ServicesNext]_<<subject, dataVars, dropVars, textVars, initVars>>,
                      subject' = "drop"
               PROVE  DropInv'
    OBVIOUS
  <2>1. DropInv /\ (X!Next \/ UNCHANGED dropVars)
    BY DEF ServicesNext
  <2>2. QED
    BY <2>1, DropNext, ServicesAssumption
<1>3. Inv => DropsAreHonest
  BY DropsHonest DEF DropsAreHonest
<1>4. QED
  BY <1>1, <1>2, <1>3, PTL DEF ServicesSpec

--------------------------------------------------------------------------------
(* The clipboard and drags on Wayland *)

Uses(e, o) == e.kind \in {"enter", "selection"} /\ e.offer = o
Needs(e) == e.kind = "enter" \/ (e.kind = "selection" /\ e.offer # NoOffer)

\* On the wire w every offer is followed by the event that says what it is for,
\* and is announced once; until then it is not alive.
OffersUsed(w, lv) ==
    \A i \in 1..Len(w) : w[i].kind = "offer" =>
        /\ w[i].offer \in Offer \ lv /\ w[i].mime \in {"text", "uri"}
        /\ i + 1 \in 1..Len(w) /\ Uses(w[i + 1], w[i].offer)
AnnouncedOnce(w) ==
    \A i, j \in 1..Len(w) :
        w[i].kind = "offer" /\ w[j].kind = "offer" /\ w[i].offer = w[j].offer => i = j

\* What such an event is for has been announced just before, or is known.
UsesAnnounced(w, kn) ==
    \A i \in 1..Len(w) : Needs(w[i]) =>
        IF i = 1 THEN w[1].offer \in kn
        ELSE w[i - 1].kind = "offer" /\ w[i - 1].offer = w[i].offer
DragsEnter(w, org) == \A i \in 1..Len(w) : w[i].kind = "enter" => org[w[i].offer] = "drag"
SendsAreOurs(w) == \A i \in 1..Len(w) : w[i].kind = "send" => w[i].at \in DataSource

WireOK(w, lv, kn, org) ==
    /\ OffersUsed(w, lv) /\ AnnouncedOnce(w) /\ UsesAnnounced(w, kn)
    /\ DragsEnter(w, org) /\ SendsAreOurs(w)

LEMMA WireAppend ==
    ASSUME NEW w \in Seq(EventType), NEW e \in EventType, NEW lv, NEW kn, NEW org,
           WireOK(w, lv, kn, org), e.kind # "offer", ~Needs(e),
           e.kind = "send" => e.at \in DataSource
    PROVE  WireOK(Append(w, e), lv, kn, org)
<1> DEFINE p == Append(w, e)   n == Len(w)
<1>1. /\ n \in Nat /\ Len(p) = n + 1 /\ p[n + 1] = e /\ \A i \in 1..n : p[i] = w[i]
  BY AppendProperties
<1>2. /\ \A i \in 1..(n + 1) : i = n + 1 \/ i \in 1..n
      /\ \A i \in 1..n : i \in 1..(n + 1)
      /\ \A i \in 1..n : i # 1 => i - 1 \in 1..n
  BY <1>1
<1> HIDE DEF p, n
<1>3. OffersUsed(p, lv)
  BY <1>1, <1>2 DEF WireOK, OffersUsed, n
<1>4. AnnouncedOnce(p)
  BY <1>1, <1>2 DEF WireOK, AnnouncedOnce, n
<1>5. UsesAnnounced(p, kn)
  BY <1>1, <1>2 DEF WireOK, UsesAnnounced, n
<1>6. DragsEnter(p, org) /\ SendsAreOurs(p)
  BY <1>1, <1>2 DEF WireOK, DragsEnter, SendsAreOurs, Needs, n
<1>7. QED
  BY <1>3, <1>4, <1>5, <1>6 DEF WireOK, p

LEMMA WireAppendPair ==
    ASSUME NEW w \in Seq(EventType), NEW e \in EventType, NEW u \in EventType,
           NEW lv, NEW kn, NEW org, WireOK(w, lv, kn, org),
           e.kind = "offer", e.offer \in Offer \ lv, e.mime \in {"text", "uri"},
           \A i \in 1..Len(w) : w[i].offer # e.offer,
           Uses(u, e.offer), u.kind = "enter" => org[u.offer] = "drag"
    PROVE  WireOK(Append(Append(w, e), u), lv, kn, org)
<1> DEFINE q == Append(w, e)   p == Append(q, u)   n == Len(w)
<1>1. /\ n \in Nat /\ q \in Seq(EventType) /\ Len(q) = n + 1 /\ q[n + 1] = e
      /\ \A i \in 1..n : q[i] = w[i]
  BY AppendProperties
<1>2. Len(p) = n + 1 + 1 /\ p[n + 1 + 1] = u /\ \A i \in 1..(n + 1) : p[i] = q[i]
  BY <1>1, AppendProperties
<1>3. /\ \A i \in 1..(n + 1 + 1) : i = n + 1 + 1 \/ i = n + 1 \/ i \in 1..n
      /\ \A i \in 1..n : i \in 1..(n + 1) /\ i \in 1..(n + 1 + 1) /\ i # n + 1 /\ i # n + 1 + 1
      /\ \A i \in 1..n : i # 1 => i - 1 \in 1..n
      /\ n + 1 \in 1..(n + 1) /\ n + 1 \in 1..(n + 1 + 1) /\ n + 1 + 1 \in 1..(n + 1 + 1)
      /\ n + 1 # n + 1 + 1 /\ n + 1 + 1 - 1 = n + 1 /\ n + 1 + 1 # 1
  BY <1>1
<1>4. p[n + 1] = e /\ \A i \in 1..n : p[i] = w[i]
  BY <1>1, <1>2, <1>3
<1> HIDE DEF p, q, n
<1>5. OffersUsed(p, lv)
  <2> SUFFICES ASSUME NEW i \in 1..(n + 1 + 1), p[i].kind = "offer"
               PROVE  /\ p[i].offer \in Offer \ lv /\ p[i].mime \in {"text", "uri"}
                      /\ i + 1 \in 1..(n + 1 + 1) /\ Uses(p[i + 1], p[i].offer)
    BY <1>2 DEF OffersUsed
  <2>1. CASE i \in 1..n
    <3>1. /\ w[i].offer \in Offer \ lv /\ w[i].mime \in {"text", "uri"}
          /\ i + 1 \in 1..n /\ Uses(w[i + 1], w[i].offer)
      BY <1>4, <2>1 DEF WireOK, OffersUsed, n
    <3>2. QED
      BY <1>3, <1>4, <2>1, <3>1
  <2>2. CASE i = n + 1
    BY <1>2, <1>3, <1>4, <2>2
  <2>3. CASE i = n + 1 + 1
    BY <1>2, <2>3 DEF Uses
  <2>4. QED
    BY <1>3, <2>1, <2>2, <2>3
<1>6. AnnouncedOnce(p)
  <2> SUFFICES ASSUME NEW i \in 1..(n + 1 + 1), NEW j \in 1..(n + 1 + 1),
                      p[i].kind = "offer", p[j].kind = "offer", p[i].offer = p[j].offer
               PROVE  i = j
    BY <1>2 DEF AnnouncedOnce
  <2>1. i # n + 1 + 1 /\ j # n + 1 + 1
    BY <1>2 DEF Uses
  <2>2. (i \in 1..n \/ i = n + 1) /\ (j \in 1..n \/ j = n + 1)
    BY <1>3, <2>1
  <2>3. CASE i \in 1..n /\ j \in 1..n
    BY <1>4, <2>3 DEF WireOK, AnnouncedOnce, n
  <2>4. CASE i = n + 1 \/ j = n + 1
    BY <1>4, <2>2, <2>4 DEF n
  <2>5. QED
    BY <2>2, <2>3, <2>4
<1>7. UsesAnnounced(p, kn)
  <2> SUFFICES ASSUME NEW i \in 1..(n + 1 + 1), Needs(p[i])
               PROVE  IF i = 1 THEN p[1].offer \in kn
                      ELSE p[i - 1].kind = "offer" /\ p[i - 1].offer = p[i].offer
    BY <1>2 DEF UsesAnnounced
  <2>1. CASE i \in 1..n
    BY <1>3, <1>4, <2>1 DEF WireOK, UsesAnnounced, n
  <2>2. CASE i = n + 1
    BY <1>4, <2>2 DEF Needs
  <2>3. CASE i = n + 1 + 1
    BY <1>2, <1>3, <1>4, <2>3 DEF Uses
  <2>4. QED
    BY <1>3, <2>1, <2>2, <2>3
<1>8. DragsEnter(p, org)
  BY <1>2, <1>3, <1>4 DEF WireOK, DragsEnter, n
<1>9. SendsAreOurs(p)
  BY <1>2, <1>3, <1>4 DEF WireOK, SendsAreOurs, Uses, n
<1>10. QED
  BY <1>5, <1>6, <1>7, <1>8, <1>9 DEF WireOK, p, q

\* The first event is handled; an offer is alive and known from then on.
LEMMA WirePop ==
    ASSUME NEW w \in Seq(EventType), w # <<>>, NEW lv, NEW kn, NEW org, NEW lw, NEW km,
           WireOK(w, lv, kn, org),
           IF w[1].kind = "offer" THEN lw = lv \union {w[1].offer} /\ w[1].offer \in km
                                  ELSE lw \subseteq lv
    PROVE  WireOK(Tail(w), lw, km, org)
<1> DEFINE p == Tail(w)   n == Len(w)
<1>1. n \in Nat /\ n >= 1 /\ Len(p) = n - 1 /\ \A i \in 1..(n - 1) : p[i] = w[i + 1]
  BY HeadTailProperties
<1>2. /\ \A i \in 1..(n - 1) : i + 1 \in 1..n /\ i + 1 # 1 /\ i + 1 - 1 = i
      /\ \A i \in 1..(n - 1) : i # 1 => i - 1 \in 1..(n - 1) /\ i - 1 + 1 = i
      /\ \A i \in 1..(n - 1) : i + 1 + 1 \in 1..n => i + 1 \in 1..(n - 1)
      /\ 1 \in 1..n /\ \A i, j \in 1..(n - 1) : i + 1 = j + 1 => i = j
  BY <1>1
<1> HIDE DEF p, n
<1>3. OffersUsed(p, lw)
  <2> SUFFICES ASSUME NEW i \in 1..(n - 1), p[i].kind = "offer"
               PROVE  /\ p[i].offer \in Offer \ lw /\ p[i].mime \in {"text", "uri"}
                      /\ i + 1 \in 1..(n - 1) /\ Uses(p[i + 1], p[i].offer)
    BY <1>1 DEF OffersUsed
  <2>1. /\ w[i + 1].offer \in Offer \ lv /\ w[i + 1].mime \in {"text", "uri"}
        /\ i + 1 + 1 \in 1..n /\ Uses(w[i + 1 + 1], w[i + 1].offer) /\ p[i] = w[i + 1]
    BY <1>1, <1>2 DEF WireOK, OffersUsed, n
  <2>2. w[1].kind = "offer" => w[1].offer # w[i + 1].offer
    BY <1>1, <1>2 DEF WireOK, AnnouncedOnce, n
  <2>3. i + 1 \in 1..(n - 1) /\ p[i + 1] = w[i + 1 + 1]
    BY <1>1, <1>2, <2>1
  <2>4. QED
    BY <2>1, <2>2, <2>3
<1>4. AnnouncedOnce(p)
  <2> SUFFICES ASSUME NEW i \in 1..(n - 1), NEW j \in 1..(n - 1),
                      p[i].kind = "offer", p[j].kind = "offer", p[i].offer = p[j].offer
               PROVE  i = j
    BY <1>1 DEF AnnouncedOnce
  <2>1. /\ w[i + 1].kind = "offer" /\ w[j + 1].kind = "offer"
        /\ w[i + 1].offer = w[j + 1].offer
    BY <1>1
  <2>2. i + 1 = j + 1
    BY <1>2, <2>1 DEF WireOK, AnnouncedOnce, n
  <2>3. QED
    BY <1>2, <2>2
<1>5. UsesAnnounced(p, km)
  <2> SUFFICES ASSUME NEW i \in 1..(n - 1), Needs(p[i])
               PROVE  IF i = 1 THEN p[1].offer \in km
                      ELSE p[i - 1].kind = "offer" /\ p[i - 1].offer = p[i].offer
    BY <1>1 DEF UsesAnnounced
  <2>1. w[i].kind = "offer" /\ w[i].offer = w[i + 1].offer /\ p[i] = w[i + 1]
    BY <1>1, <1>2 DEF WireOK, UsesAnnounced, n
  <2>2. CASE i = 1
    BY <2>1, <2>2
  <2>3. CASE i # 1
    BY <1>1, <1>2, <2>1, <2>3
  <2>4. QED
    BY <2>2, <2>3
<1>6. DragsEnter(p, org) /\ SendsAreOurs(p)
  <2>1. \A i \in 1..Len(p) : i + 1 \in 1..n /\ p[i] = w[i + 1]
    BY <1>1, <1>2
  <2>2. /\ \A i \in 1..n : w[i].kind = "enter" => org[w[i].offer] = "drag"
        /\ \A i \in 1..n : w[i].kind = "send" => w[i].at \in DataSource
    BY DEF WireOK, DragsEnter, SendsAreOurs, n
  <2>3. QED
    BY <2>1, <2>2 DEF DragsEnter, SendsAreOurs
<1>7. QED
  BY <1>3, <1>4, <1>5, <1>6 DEF WireOK, p

LEMMA WireOrigins ==
    ASSUME NEW w, NEW lv, NEW kn, NEW org, NEW orh, WireOK(w, lv, kn, org),
           \A i \in 1..Len(w) : w[i].kind = "enter" /\ org[w[i].offer] = "drag" =>
               orh[w[i].offer] = "drag"
    PROVE  WireOK(w, lv, kn, orh)
BY DEF WireOK, DragsEnter

\* The last selection event on the wire w is the i-th.
LastSelection(w, i) ==
    w[i].kind = "selection" /\ \A k \in (i + 1)..Len(w) : w[k].kind # "selection"
NoSelection(w) == \A i \in 1..Len(w) : w[i].kind # "selection"
Cancels(w, s) == \E i \in 1..Len(w) : w[i].kind = "cancelled" /\ w[i].at = s

LEMMA EventAppended ==
    ASSUME NEW w \in Seq(EventType), NEW e \in EventType
    PROVE  /\ Append(w, e) \in Seq(EventType)
           /\ Len(w) \in Nat /\ Len(Append(w, e)) = Len(w) + 1
           /\ Append(w, e)[Len(w) + 1] = e
           /\ \A i \in 1..Len(w) : Append(w, e)[i] = w[i] /\ i \in 1..(Len(w) + 1)
           /\ \A i \in 1..(Len(w) + 1) : i = Len(w) + 1 \/ i \in 1..Len(w)
           /\ e.kind # "selection" =>
                /\ \A i \in 1..(Len(w) + 1) : LastSelection(Append(w, e), i) =>
                     i \in 1..Len(w) /\ LastSelection(w, i)
                /\ NoSelection(Append(w, e)) => NoSelection(w)
           /\ e.kind = "selection" =>
                /\ \A i \in 1..(Len(w) + 1) : LastSelection(Append(w, e), i) => i = Len(w) + 1
                /\ ~NoSelection(Append(w, e))
           /\ \A s : Cancels(Append(w, e), s) <=>
                Cancels(w, s) \/ (e.kind = "cancelled" /\ e.at = s)
<1> DEFINE p == Append(w, e)   n == Len(w)
<1>1. /\ n \in Nat /\ p \in Seq(EventType) /\ Len(p) = n + 1 /\ p[n + 1] = e
      /\ \A i \in 1..n : p[i] = w[i]
  BY AppendProperties
<1>2. /\ \A i \in 1..(n + 1) : i = n + 1 \/ i \in 1..n
      /\ \A i \in 1..n : i \in 1..(n + 1)
      /\ \A i \in 1..n : \A k \in (i + 1)..n : k \in (i + 1)..(n + 1) /\ k \in 1..n
      /\ \A i \in 1..n : n + 1 \in (i + 1)..(n + 1)
      /\ n + 1 \in 1..(n + 1)
  BY <1>1
<1> HIDE DEF p, n
<1>3. ASSUME e.kind # "selection"
      PROVE  /\ \A i \in 1..(n + 1) : LastSelection(p, i) => i \in 1..n /\ LastSelection(w, i)
             /\ NoSelection(p) => NoSelection(w)
  <2>1. ASSUME NEW i \in 1..(n + 1), LastSelection(p, i)
        PROVE  i \in 1..n /\ LastSelection(w, i)
    <3>1. i \in 1..n
      BY <1>1, <1>2, <1>3, <2>1 DEF LastSelection
    <3>2. \A k \in (i + 1)..n : w[k].kind # "selection"
      BY <1>1, <1>2, <2>1, <3>1 DEF LastSelection
    <3>3. QED
      BY <1>1, <2>1, <3>1, <3>2 DEF LastSelection, n
  <2>2. NoSelection(p) => NoSelection(w)
    BY <1>1, <1>2 DEF NoSelection, n
  <2>3. QED
    BY <2>1, <2>2
<1>4. ASSUME e.kind = "selection"
      PROVE  /\ \A i \in 1..(n + 1) : LastSelection(p, i) => i = n + 1
             /\ ~NoSelection(p)
  BY <1>1, <1>2, <1>4 DEF LastSelection, NoSelection
<1>5. \A s : Cancels(p, s) <=> Cancels(w, s) \/ (e.kind = "cancelled" /\ e.at = s)
  BY <1>1, <1>2 DEF Cancels, n
<1>6. QED
  BY <1>1, <1>2, <1>3, <1>4, <1>5 DEF p, n

LEMMA EventPopped ==
    ASSUME NEW w \in Seq(EventType), w # <<>>
    PROVE  /\ Tail(w) \in Seq(EventType) /\ Len(w) \in Nat /\ Len(Tail(w)) = Len(w) - 1
           /\ Head(w) = w[1] /\ Head(w) \in EventType /\ 1 \in 1..Len(w)
           /\ \A i \in 1..Len(Tail(w)) : i + 1 \in 1..Len(w) /\ Tail(w)[i] = w[i + 1]
           /\ \A i \in 1..Len(Tail(w)) : LastSelection(Tail(w), i) => LastSelection(w, i + 1)
           /\ NoSelection(Tail(w)) =>
                IF Head(w).kind = "selection" THEN LastSelection(w, 1) ELSE NoSelection(w)
           /\ \A s : Cancels(w, s) <=>
                Cancels(Tail(w), s) \/ (Head(w).kind = "cancelled" /\ Head(w).at = s)
<1> DEFINE p == Tail(w)   n == Len(w)
<1>1. /\ n \in Nat /\ n >= 1 /\ p \in Seq(EventType) /\ Len(p) = n - 1
      /\ Head(w) = w[1] /\ \A i \in 1..(n - 1) : p[i] = w[i + 1]
  BY HeadTailProperties
<1>2. 1 \in 1..n /\ w[1] \in EventType
  BY <1>1, ElementOfSeq
<1>3. /\ \A i \in 1..(n - 1) : i + 1 \in 1..n
      /\ \A i \in 1..n : i = 1 \/ (i - 1 \in 1..(n - 1) /\ i - 1 + 1 = i)
      /\ \A k \in 2..n : k - 1 \in 1..(n - 1) /\ k - 1 + 1 = k
      /\ \A i \in 1..(n - 1) : \A k \in (i + 1 + 1)..n :
           k - 1 \in (i + 1)..(n - 1) /\ k - 1 \in 1..(n - 1) /\ k - 1 + 1 = k
  BY <1>1
<1> HIDE DEF p, n
<1>4. \A i \in 1..(n - 1) : LastSelection(p, i) => LastSelection(w, i + 1)
  <2> SUFFICES ASSUME NEW i \in 1..(n - 1), LastSelection(p, i) PROVE LastSelection(w, i + 1)
    OBVIOUS
  <2>1. w[i + 1].kind = "selection"
    BY <1>1 DEF LastSelection
  <2>2. ASSUME NEW k \in (i + 1 + 1)..n PROVE w[k].kind # "selection"
    <3>1. k - 1 \in (i + 1)..(n - 1) /\ p[k - 1] = w[k]
      BY <1>1, <1>3
    <3>2. QED
      BY <1>1, <3>1 DEF LastSelection
  <2>3. QED
    BY <2>1, <2>2 DEF LastSelection, n
<1>5. NoSelection(p) => IF Head(w).kind = "selection" THEN LastSelection(w, 1) ELSE NoSelection(w)
  <2> SUFFICES ASSUME NoSelection(p)
               PROVE  IF Head(w).kind = "selection" THEN LastSelection(w, 1) ELSE NoSelection(w)
    OBVIOUS
  <2>1. \A k \in 2..n : w[k].kind # "selection"
    <3> TAKE k \in 2..n
    <3>1. k - 1 \in 1..(n - 1) /\ p[k - 1] = w[k]
      BY <1>1, <1>3
    <3>2. QED
      BY <1>1, <3>1 DEF NoSelection
  <2>2. \A k \in 1..n : k = 1 \/ k \in 2..n
    BY <1>1
  <2>3. QED
    BY <1>1, <2>1, <2>2 DEF LastSelection, NoSelection, n
<1>6. \A s : Cancels(w, s) <=>
        Cancels(p, s) \/ (Head(w).kind = "cancelled" /\ Head(w).at = s)
  <2> TAKE s
  <2>1. Cancels(p, s) => Cancels(w, s)
    BY <1>1, <1>3 DEF Cancels, n
  <2>2. Cancels(w, s) => Cancels(p, s) \/ (Head(w).kind = "cancelled" /\ Head(w).at = s)
    <3> SUFFICES ASSUME NEW i \in 1..n, w[i].kind = "cancelled", w[i].at = s, i # 1
                 PROVE  Cancels(p, s)
      BY <1>1 DEF Cancels, n
    <3>1. i - 1 \in 1..(n - 1) /\ p[i - 1] = w[i]
      BY <1>1, <1>3
    <3>2. QED
      BY <1>1, <3>1 DEF Cancels
  <2>3. QED
    BY <1>1, <1>2, <2>1, <2>2 DEF Cancels, n
<1>7. QED
  BY <1>1, <1>2, <1>3, <1>4, <1>5, <1>6 DEF p, n

--------------------------------------------------------------------------------

Known == {r.offer : r \in offers} \union lost
Carried == IF owner = "us" THEN "text" ELSE peer

\* The i-th event on the wire tells what the selection is.
TellsSelection(i) ==
    IF owner = "nobody" THEN wire[i].offer = NoOffer
    ELSE /\ wire[i].offer \in Offer /\ origin[wire[i].offer] = owner
         /\ IF i = 1
            THEN \/ [offer |-> wire[1].offer, mime |-> Carried] \in offers
                 \/ wire[1].offer \in lost
            ELSE wire[i - 1].mime = Carried

\* With the focus, the last selection event that is to come tells the selection.
SelectionComes ==
    focused => \A i \in 1..Len(wire) : LastSelection(wire, i) => TellsSelection(i)

\* With the focus and none to come, the client has the selection, or has lost it.
HoldsSelection ==
    \/ owner = "nobody" /\ selectionOffer = NoOffer
    \/ owner # "nobody" /\ Carried = "uri" /\ selectionOffer = NoOffer
    \/ /\ owner # "nobody" /\ Carried = "text" /\ selectionOffer # NoOffer
       /\ origin[selectionOffer] = owner
    \/ owner # "nobody" /\ \E o \in lost : origin[o] = owner
SelectionHeld == focused /\ NoSelection(wire) => HoldsSelection

OriginIsOwner == \A o \in Offer : origin[o] \in {"us", "peer"} => owner = origin[o]

\* The source of a selection that we own is not cancelled, one that we do not own
\* will be, or has been ignored; and there is a string to send.
SourceIsHeld ==
    /\ owner = "us" => selectionSource \in DataSource /\ ~Cancels(wire, selectionSource)
    /\ selectionSource # NoSource /\ owner # "us" =>
         ignored \/ Cancels(wire, selectionSource)
    /\ selectionSource # NoSource => clipboardString # NoText

LostApart ==
    lost \intersect ({r.offer : r \in offers} \union {dragOffer, selectionOffer}) = {}
ListedOnce == \A r, q \in offers : r.offer = q.offer => r = q

DataInv ==
    /\ TypeOK /\ WireOK(wire, live, Known, origin)
    /\ OffersOwned /\ LostApart /\ ListedOnce
    /\ OriginIsOwner /\ SourceIsHeld /\ SelectionComes /\ SelectionHeld
    /\ crashed # "send" /\ ReadsTheSelection /\ NeverReadsItself

LEMMA EventTyped ==
    ASSUME NEW k \in {"offer", "enter", "leave", "drop", "selection", "cancelled", "send"},
           NEW o \in Offer \union {NoOffer}, NEW m \in {"none", "text", "uri"},
           NEW a \in Window \union {"frame"} \union DataSource \union {NoSource}
    PROVE  /\ Event(k, o, m, a) \in EventType
           /\ Event(k, o, m, a).kind = k /\ Event(k, o, m, a).offer = o
           /\ Event(k, o, m, a).mime = m /\ Event(k, o, m, a).at = a
BY DEF Event, EventType

\* An event that is about no offer is sent.
LEMMA PlainSent ==
    ASSUME DataAssumption, DataInv, NEW e \in EventType, wire' = Append(wire, e),
           e.kind \in {"leave", "drop", "send", "cancelled"},
           e.kind = "send" => e.at \in DataSource,
           UNCHANGED <<offers, lost, live, owner, peer, origin, focused, selectionOffer>>
    PROVE  /\ wire' \in Seq(EventType)
           /\ WireOK(wire', live', Known', origin') /\ SelectionComes' /\ SelectionHeld'
           /\ OriginIsOwner'
           /\ \A s : Cancels(wire', s) <=> Cancels(wire, s) \/ (e.kind = "cancelled" /\ e.at = s)
<1>1. wire \in Seq(EventType) /\ WireOK(wire, live, Known, origin) /\ Known' = Known
  BY DEF DataInv, TypeOK, Known
<1>2. e.kind # "offer" /\ e.kind # "selection" /\ ~Needs(e)
  BY DEF Needs
<1>3. WireOK(wire', live', Known', origin')
  BY <1>1, <1>2, WireAppend
<1>4. /\ wire' \in Seq(EventType) /\ Len(wire) \in Nat /\ Len(wire') = Len(wire) + 1
      /\ \A i \in 1..Len(wire) : wire'[i] = wire[i]
      /\ \A i \in 1..(Len(wire) + 1) : LastSelection(wire', i) =>
           i \in 1..Len(wire) /\ LastSelection(wire, i)
      /\ NoSelection(wire') => NoSelection(wire)
      /\ \A s : Cancels(wire', s) <=> Cancels(wire, s) \/ (e.kind = "cancelled" /\ e.at = s)
  BY <1>1, <1>2, EventAppended
<1>5. \A i \in 1..Len(wire) : i # 1 => i - 1 \in 1..Len(wire)
  BY <1>4
<1>6. \A i \in 1..Len(wire) : TellsSelection(i) => TellsSelection(i)'
  BY <1>4, <1>5 DEF TellsSelection, Carried
<1>7. SelectionComes'
  BY <1>4, <1>6 DEF DataInv, SelectionComes
<1>8. SelectionHeld' /\ OriginIsOwner'
  BY <1>4 DEF DataInv, SelectionHeld, HoldsSelection, Carried, OriginIsOwner
<1>9. QED
  BY <1>3, <1>4, <1>7, <1>8

LEMMA FreeOffer ==
    ASSUME DataAssumption, DataInv, NEW o \in FreeOffers
    PROVE  /\ o \in Offer /\ o \notin live /\ o # NoOffer /\ o # selectionOffer /\ o \notin lost
           /\ o \notin Announced /\ \A i \in 1..Len(wire) : wire[i].offer # o
<1>1. o \in Offer /\ o \notin live /\ o \notin Announced /\ o # NoOffer
  BY DEF FreeOffers, DataAssumption
<1>2. DOMAIN wire = 1..Len(wire)
  BY DEF DataInv, TypeOK
<1>3. \A i \in 1..Len(wire) : wire[i].offer # o
  BY <1>1, <1>2 DEF Announced
<1>4. o # selectionOffer /\ o \notin lost
  BY <1>1 DEF DataInv, OffersOwned
<1>5. QED
  BY <1>1, <1>3, <1>4

LEMMA EntersOfOffers ==
    ASSUME DataInv, NEW w \in Seq(EventType), WireOK(w, live, Known, origin)
    PROVE  \A i \in 1..Len(w) : w[i].kind = "enter" => w[i].offer \in Offer
<1>1. UsesAnnounced(w, Known) /\ OffersUsed(w, live) /\ Len(w) \in Nat
  BY DEF WireOK
<1>2. Known \subseteq Offer
  BY DEF Known, DataInv, TypeOK
<1>3. \A i \in 1..Len(w) : i # 1 => i - 1 \in 1..Len(w)
  BY <1>1
<1>4. QED
  BY <1>1, <1>2, <1>3 DEF UsesAnnounced, OffersUsed, Needs

\* A drag enters with a free offer.
LEMMA DragSent ==
    ASSUME DataAssumption, DataInv, NEW o \in FreeOffers, NEW mime \in {"text", "uri"},
           NEW a \in Window \union {"frame"},
           wire' = Append(Append(wire, Event("offer", o, mime, NoSource)),
                          Event("enter", o, "none", a)),
           origin' = [origin EXCEPT ![o] = "drag"],
           UNCHANGED <<offers, lost, live, owner, peer, focused, selectionOffer>>
    PROVE  /\ wire' \in Seq(EventType)
           /\ WireOK(wire', live', Known', origin') /\ SelectionComes' /\ SelectionHeld'
           /\ OriginIsOwner' /\ \A s : Cancels(wire', s) <=> Cancels(wire, s)
<1> DEFINE e == Event("offer", o, mime, NoSource)   u == Event("enter", o, "none", a)
           q == Append(wire, e)
<1>1. /\ wire \in Seq(EventType) /\ WireOK(wire, live, Known, origin) /\ Known' = Known
      /\ origin \in [Offer -> {"us", "peer", "drag", "gone"}]
  BY DEF DataInv, TypeOK, Known
<1>2. /\ o \in Offer /\ o \notin live /\ o # selectionOffer /\ o \notin lost
      /\ \A i \in 1..Len(wire) : wire[i].offer # o
  BY FreeOffer
<1>3. /\ e \in EventType /\ e.kind = "offer" /\ e.offer = o /\ e.mime = mime
      /\ u \in EventType /\ u.kind = "enter" /\ u.offer = o
  BY <1>2, EventTyped
<1> HIDE DEF e, u
<1>4. WireOK(wire, live, Known, origin')
  <2>1. \A i \in 1..Len(wire) : wire[i].kind = "enter" => wire[i].offer \in Offer
    BY <1>1, EntersOfOffers
  <2>2. \A x \in Offer : origin[x] = "drag" => origin'[x] = "drag"
    BY <1>1
  <2>3. QED
    BY <1>1, <2>1, <2>2, WireOrigins
<1>5. origin'[o] = "drag"
  BY <1>1, <1>2
<1>6. WireOK(wire', live', Known', origin')
  BY <1>1, <1>2, <1>3, <1>4, <1>5, WireAppendPair DEF Uses, e, u
<1>7. /\ q \in Seq(EventType) /\ Len(wire) \in Nat /\ Len(q) = Len(wire) + 1
      /\ \A i \in 1..Len(wire) : q[i] = wire[i] /\ i \in 1..(Len(wire) + 1)
      /\ \A i \in 1..(Len(wire) + 1) : LastSelection(q, i) =>
           i \in 1..Len(wire) /\ LastSelection(wire, i)
      /\ NoSelection(q) => NoSelection(wire)
      /\ \A s : Cancels(q, s) <=> Cancels(wire, s)
  BY <1>1, <1>3, EventAppended
<1> HIDE DEF q
<1>8. wire' = Append(q, u)
  BY DEF q, e, u
<1>9. /\ wire' \in Seq(EventType) /\ Len(wire') = Len(q) + 1
      /\ \A i \in 1..Len(q) : wire'[i] = q[i]
      /\ \A i \in 1..(Len(q) + 1) : LastSelection(wire', i) =>
           i \in 1..Len(q) /\ LastSelection(q, i)
      /\ NoSelection(wire') => NoSelection(q)
      /\ \A s : Cancels(wire', s) <=> Cancels(q, s)
  <2>1. q \in Seq(EventType) /\ u \in EventType /\ u.kind # "selection" /\ u.kind # "cancelled"
    BY <1>3, <1>7
  <2>2. /\ Append(q, u) \in Seq(EventType) /\ Len(Append(q, u)) = Len(q) + 1
        /\ \A i \in 1..Len(q) : Append(q, u)[i] = q[i]
        /\ \A i \in 1..(Len(q) + 1) : LastSelection(Append(q, u), i) =>
             i \in 1..Len(q) /\ LastSelection(q, i)
        /\ NoSelection(Append(q, u)) => NoSelection(q)
        /\ \A s : Cancels(Append(q, u), s) <=> Cancels(q, s)
    BY <2>1, EventAppended
  <2>3. QED
    BY <1>8, <2>2
<1>10. \A i \in 1..Len(wire) : i # 1 => i - 1 \in 1..Len(wire)
  BY <1>7
<1>11. \A i \in 1..Len(wire) : wire'[i] = wire[i]
  <2>1. \A i \in 1..Len(wire) : i \in 1..Len(q) /\ q[i] = wire[i]
    BY <1>7
  <2>2. QED
    BY <1>9, <2>1
<1>12. \A i \in 1..Len(wire) : TellsSelection(i) => TellsSelection(i)'
  BY <1>1, <1>2, <1>10, <1>11 DEF TellsSelection, Carried
<1>13. SelectionComes'
  BY <1>7, <1>9, <1>12 DEF DataInv, SelectionComes
<1>14. SelectionHeld'
  <2>1. selectionOffer \in Offer \union {NoOffer} /\ lost \subseteq Offer
    BY DEF DataInv, TypeOK
  <2>2. HoldsSelection => HoldsSelection'
    BY <1>1, <1>2, <2>1 DEF HoldsSelection, Carried
  <2>3. QED
    BY <1>7, <1>9, <2>2 DEF DataInv, SelectionHeld
<1>15. OriginIsOwner'
  BY <1>1, <1>2 DEF DataInv, OriginIsOwner
<1>16. QED
  BY <1>6, <1>7, <1>9, <1>13, <1>14, <1>15

\* The selection is told, with a free offer if there is an owner.
LEMMA SelectionSent ==
    ASSUME DataAssumption, DataInv, NEW w \in Seq(EventType),
           WireOK(w, live, Known, origin),
           \A i \in 1..Len(w) : w[i].offer \in Announced \union {NoOffer},
           NEW org \in [Offer -> {"us", "peer", "drag", "gone"}],
           \A o \in Offer : origin[o] = "drag" => org[o] = "drag",
           \A o \in Offer : org[o] \in {"us", "peer"} => owner' = org[o],
           NEW mime \in {"text", "uri"}, Carried' = mime,
           IF owner' = "nobody"
           THEN origin' = org /\ wire' = Append(w, Event("selection", NoOffer, "none", NoSource))
           ELSE \E o \in FreeOffers :
                  /\ origin' = [org EXCEPT ![o] = owner']
                  /\ wire' = Append(Append(w, Event("offer", o, mime, NoSource)),
                                    Event("selection", o, "none", NoSource)),
           owner' \in {"us", "peer", "nobody"},
           UNCHANGED <<offers, lost, live>>
    PROVE  /\ wire' \in Seq(EventType) /\ origin' \in [Offer -> {"us", "peer", "drag", "gone"}]
           /\ WireOK(wire', live', Known', origin') /\ SelectionComes' /\ SelectionHeld'
           /\ OriginIsOwner' /\ \A s : Cancels(wire', s) <=> Cancels(w, s)
<1>1. Known' = Known /\ Announced \subseteq Offer /\ DataInv
  <2>1. \A i \in DOMAIN wire : wire[i].offer \in Offer \union {NoOffer}
    <3>1. wire \in Seq(EventType)
      BY DEF DataInv, TypeOK
    <3>2. \A i \in DOMAIN wire : wire[i] \in EventType
      BY <3>1, ElementOfSeq, LenProperties
    <3>3. QED
      BY <3>2 DEF EventType
  <2>2. QED
    BY <2>1 DEF Known, Announced
<1>2. \A i \in 1..Len(w) : w[i].kind = "enter" => w[i].offer \in Offer
  BY EntersOfOffers
<1>3. WireOK(w, live, Known, org)
  BY <1>2, WireOrigins
<1>4. CASE owner' = "nobody"
  <2> DEFINE e == Event("selection", NoOffer, "none", NoSource)
  <2>1. e \in EventType /\ e.kind = "selection" /\ e.offer = NoOffer
    BY EventTyped
  <2> HIDE DEF e
  <2>2. wire' = Append(w, e) /\ origin' = org
    BY <1>4 DEF e
  <2>3. ~Needs(e) /\ e.kind # "offer" /\ e.kind # "send"
    BY <2>1 DEF Needs
  <2>4. WireOK(wire', live', Known', origin')
    BY <1>1, <1>3, <2>1, <2>2, <2>3, WireAppend
  <2>5. /\ wire' \in Seq(EventType) /\ Len(wire') = Len(w) + 1 /\ wire'[Len(w) + 1] = e
        /\ \A i \in 1..(Len(w) + 1) : LastSelection(wire', i) => i = Len(w) + 1
        /\ ~NoSelection(wire')
        /\ \A s : Cancels(wire', s) <=> Cancels(w, s)
    BY <2>1, <2>2, EventAppended
  <2>6. SelectionComes' /\ SelectionHeld'
    BY <1>4, <2>1, <2>5 DEF SelectionComes, SelectionHeld, TellsSelection
  <2>7. OriginIsOwner'
    BY <2>2 DEF OriginIsOwner
  <2>8. QED
    BY <2>2, <2>4, <2>5, <2>6, <2>7
<1>5. CASE owner' # "nobody"
  <2>1. PICK o \in FreeOffers :
          /\ origin' = [org EXCEPT ![o] = owner']
          /\ wire' = Append(Append(w, Event("offer", o, mime, NoSource)),
                            Event("selection", o, "none", NoSource))
    BY <1>5
  <2> DEFINE e == Event("offer", o, mime, NoSource)
             u == Event("selection", o, "none", NoSource)
             q == Append(w, e)
  <2>2. o \in Offer /\ o \notin live /\ o \notin Announced /\ o # NoOffer
    BY FreeOffer
  <2>3. /\ e \in EventType /\ e.kind = "offer" /\ e.offer = o /\ e.mime = mime
        /\ u \in EventType /\ u.kind = "selection" /\ u.offer = o
    BY <2>2, EventTyped
  <2>4. wire' = Append(q, u)
    BY <2>1
  <2> HIDE DEF e, u
  <2>5. WireOK(w, live, Known, origin')
    <3>1. \A i \in 1..Len(w) : w[i].offer # o
      BY <2>2
    <3>2. \A x \in Offer : x # o => origin'[x] = org[x]
      BY <2>1
    <3>3. QED
      BY <1>2, <1>3, <3>1, <3>2, WireOrigins
  <2>6. WireOK(wire', live', Known', origin')
    BY <1>1, <2>2, <2>3, <2>4, <2>5, WireAppendPair DEF Uses
  <2>7. /\ q \in Seq(EventType) /\ Len(w) \in Nat /\ Len(q) = Len(w) + 1
        /\ q[Len(w) + 1] = e
        /\ \A s : Cancels(q, s) <=> Cancels(w, s)
    BY <2>3, EventAppended
  <2> HIDE DEF q
  <2>8. /\ wire' \in Seq(EventType) /\ Len(wire') = Len(q) + 1 /\ wire'[Len(q) + 1] = u
        /\ \A i \in 1..Len(q) : wire'[i] = q[i]
        /\ \A i \in 1..(Len(q) + 1) : LastSelection(wire', i) => i = Len(q) + 1
        /\ ~NoSelection(wire')
        /\ \A s : Cancels(wire', s) <=> Cancels(q, s)
    BY <2>3, <2>4, <2>7, EventAppended
  <2>9. Len(w) + 1 \in 1..(Len(w) + 1) /\ Len(w) + 1 + 1 # 1 /\ Len(w) + 1 + 1 - 1 = Len(w) + 1
    BY <2>7
  <2>10. wire'[Len(w) + 1].mime = Carried'
    BY <2>3, <2>7, <2>8, <2>9
  <2>11. origin' \in [Offer -> {"us", "peer", "drag", "gone"}] /\ origin'[o] = owner'
    BY <1>5, <2>1, <2>2
  <2>12. SelectionComes'
    BY <1>5, <2>2, <2>3, <2>7, <2>8, <2>9, <2>10, <2>11 DEF SelectionComes, TellsSelection
  <2>13. SelectionHeld'
    BY <2>8 DEF SelectionHeld
  <2>14. OriginIsOwner'
    BY <2>1, <2>2, <2>11 DEF OriginIsOwner
  <2>15. QED
    BY <2>6, <2>7, <2>8, <2>11, <2>12, <2>13, <2>14
<1>6. QED
  BY <1>4, <1>5

LEMMA Concats ==
    ASSUME NEW w \in Seq(EventType), NEW t \in Seq(EventType), NEW e \in EventType,
           NEW u \in EventType
    PROVE  /\ w \o t \in Seq(EventType) /\ Len(w \o t) = Len(w) + Len(t)
           /\ t \o <<>> = t
           /\ w \o (t \o <<e>>) = Append(w \o t, e)
           /\ w \o (t \o <<e, u>>) = Append(Append(w \o t, e), u)
           /\ w \o <<>> = w
           /\ w \o <<e>> = Append(w, e)
           /\ w \o <<e, u>> = Append(Append(w, e), u)
<1>1. /\ <<e>> \in Seq(EventType) /\ <<u>> \in Seq(EventType) /\ <<e, u>> \in Seq(EventType)
      /\ <<e, u>> = <<e>> \o <<u>>
  <2>1. <<e, u>> = Append(<<e>>, u) /\ <<e>> \in Seq(EventType)
    OBVIOUS
  <2>2. <<e, u>> = <<e>> \o <<u>>
    BY <2>1, AppendIsConcat
  <2>3. QED
    BY <2>1, <2>2
<1>2. \A s \in Seq(EventType) :
        /\ s \o <<>> = s
        /\ s \o <<e>> = Append(s, e) /\ s \o <<u>> = Append(s, u)
        /\ s \o <<e, u>> = Append(Append(s, e), u)
  <2> TAKE s \in Seq(EventType)
  <2>1. s \o <<>> = s
    BY ConcatEmptySeq
  <2>2. s \o <<e>> = Append(s, e) /\ s \o <<u>> = Append(s, u)
    BY AppendIsConcat
  <2>3. s \o <<e, u>> = (s \o <<e>>) \o <<u>>
    BY <1>1, ConcatAssociative
  <2>4. Append(s, e) \in Seq(EventType)
    BY AppendProperties
  <2>5. Append(s, e) \o <<u>> = Append(Append(s, e), u)
    BY <2>4, AppendIsConcat
  <2>6. QED
    BY <2>1, <2>2, <2>3, <2>5
<1>3. w \o t \in Seq(EventType) /\ Len(w \o t) = Len(w) + Len(t)
  BY ConcatProperties
<1>4. w \o (t \o <<e>>) = (w \o t) \o <<e>> /\ w \o (t \o <<e, u>>) = (w \o t) \o <<e, u>>
  BY <1>1, ConcatAssociative
<1>5. QED
  BY <1>2, <1>3, <1>4

LEMMA OwnersKept ==
    ASSUME DataInv, UNCHANGED <<offers, dragOffer, selectionOffer, live, lost>>
    PROVE  OffersOwned' /\ LostApart' /\ ListedOnce'
BY DEF DataInv, OffersOwned, LostApart, ListedOnce, Listed

LEMMA NothingRead == ASSUME read' = NoRead PROVE ReadsTheSelection' /\ NeverReadsItself'
BY DEF NoRead, ReadsTheSelection, NeverReadsItself

CancelOf(s) == Event("cancelled", NoOffer, "none", s)

\* The selection changes; a source that loses it is told.
LEMMA SelectsStep ==
    ASSUME DataAssumption, DataInv, NEW who \in {"us", "peer", "nobody"},
           NEW what \in {"text", "uri"}, NEW told,
           told = <<>> \/ (owner = "us" /\ told = <<CancelOf(selectionSource)>>),
           Selects(who, what, told),
           UNCHANGED <<offers, lost, live, focused>>
    PROVE  /\ wire' \in Seq(EventType) /\ Len(wire') <= MaxEvents
           /\ origin' \in [Offer -> {"us", "peer", "drag", "gone"}]
           /\ owner' = who /\ peer' \in {"text", "uri"}
           /\ WireOK(wire', live', Known', origin') /\ SelectionComes' /\ SelectionHeld'
           /\ OriginIsOwner'
           /\ \A s : Cancels(wire', s) <=>
                Cancels(wire, s) \/ (told # <<>> /\ s = selectionSource)
<1> DEFINE w == wire \o told
           gone == [o \in Offer |-> IF origin[o] = "drag" THEN "drag" ELSE "gone"]
<1>1. /\ wire \in Seq(EventType) /\ WireOK(wire, live, Known, origin) /\ Known' = Known
      /\ origin \in [Offer -> {"us", "peer", "drag", "gone"}]
  BY DEF DataInv, TypeOK, Known
<1>2. /\ told \in Seq(EventType) /\ w \in Seq(EventType) /\ Len(w) \in Nat
      /\ WireOK(w, live, Known, origin)
      /\ \A i \in 1..Len(w) : w[i].offer \in Announced \union {NoOffer}
      /\ \A s : Cancels(w, s) <=> Cancels(wire, s) \/ (told # <<>> /\ s = selectionSource)
  <2>1. \A i \in 1..Len(wire) : wire[i].offer \in Announced \union {NoOffer}
    BY <1>1 DEF Announced
  <2>2. CASE told = <<>>
    <3>1. w = wire
      BY <1>1, <2>2, ConcatEmptySeq
    <3>2. QED
      BY <1>1, <2>1, <2>2, <3>1
  <2>3. CASE told # <<>>
    <3> DEFINE e == CancelOf(selectionSource)
    <3>1. owner = "us" /\ told = <<e>> /\ selectionSource \in DataSource
      BY <2>3 DEF DataInv, SourceIsHeld
    <3>2. /\ e \in EventType /\ e.kind = "cancelled" /\ e.offer = NoOffer
          /\ e.at = selectionSource
      BY <3>1, EventTyped DEF CancelOf
    <3> HIDE DEF e
    <3>3. w = Append(wire, e) /\ told \in Seq(EventType)
      BY <1>1, <3>1, <3>2, AppendIsConcat
    <3>4. /\ w \in Seq(EventType) /\ Len(wire) \in Nat /\ Len(w) = Len(wire) + 1
          /\ w[Len(wire) + 1] = e
          /\ \A i \in 1..Len(wire) : w[i] = wire[i]
          /\ \A i \in 1..(Len(wire) + 1) : i = Len(wire) + 1 \/ i \in 1..Len(wire)
          /\ \A s : Cancels(w, s) <=> Cancels(wire, s) \/ e.at = s
      <4>1. /\ Append(wire, e) \in Seq(EventType) /\ Len(wire) \in Nat
            /\ Len(Append(wire, e)) = Len(wire) + 1
            /\ Append(wire, e)[Len(wire) + 1] = e
            /\ \A i \in 1..Len(wire) : Append(wire, e)[i] = wire[i]
            /\ \A i \in 1..(Len(wire) + 1) : i = Len(wire) + 1 \/ i \in 1..Len(wire)
            /\ \A s : Cancels(Append(wire, e), s) <=>
                 Cancels(wire, s) \/ (e.kind = "cancelled" /\ e.at = s)
        BY <1>1, <3>2, EventAppended
      <4> HIDE DEF w
      <4>2. QED
        BY <3>2, <3>3, <4>1
    <3>5. WireOK(w, live, Known, origin)
      <4>1. ~Needs(e) /\ e.kind # "offer" /\ e.kind # "send"
        BY <3>2 DEF Needs
      <4>2. WireOK(Append(wire, e), live, Known, origin)
        BY <1>1, <3>2, <4>1, WireAppend
      <4>3. QED
        BY <3>3, <4>2
    <3> HIDE DEF w
    <3>6. \A i \in 1..Len(w) : w[i].offer \in Announced \union {NoOffer}
      BY <2>1, <3>2, <3>4
    <3>7. QED
      BY <2>3, <3>2, <3>3, <3>4, <3>5, <3>6
  <2>4. QED
    BY <2>2, <2>3
<1>3. Len(wire') <= MaxEvents /\ owner' = who /\ peer' \in {"text", "uri"}
  <2>1. ASSUME NEW ev \in Seq(EventType), Send(ev) PROVE Len(wire') <= MaxEvents
    BY <1>1, <2>1, ConcatProperties DEF Send
  <2>2. ASSUME NEW o \in FreeOffers, NEW m \in {"text", "uri"}
        PROVE  told \o <<Event("offer", o, m, NoSource), Event("selection", o, "none", NoSource)>>
                 \in Seq(EventType)
    <3>1. o \in Offer
      BY <2>2 DEF FreeOffers
    <3>2. /\ Event("offer", o, m, NoSource) \in EventType
          /\ Event("selection", o, "none", NoSource) \in EventType
      BY <2>2, <3>1, EventTyped
    <3>3. <<Event("offer", o, m, NoSource), Event("selection", o, "none", NoSource)>>
            \in Seq(EventType)
      BY <3>2
    <3>4. QED
      BY <1>2, <3>3, ConcatProperties
  <2>3. /\ told \o <<Event("selection", NoOffer, "none", NoSource)>> \in Seq(EventType)
        /\ told \o <<>> \in Seq(EventType)
    <3>1. Event("selection", NoOffer, "none", NoSource) \in EventType
      BY EventTyped
    <3>2. <<Event("selection", NoOffer, "none", NoSource)>> \in Seq(EventType)
      BY <3>1
    <3>3. QED
      BY <1>2, <3>2, ConcatProperties, EmptySeq
  <2>4. QED
    BY <2>1, <2>2, <2>3 DEF Selects
<1>4. /\ gone \in [Offer -> {"us", "peer", "drag", "gone"}]
      /\ \A o \in Offer : origin[o] = "drag" => gone[o] = "drag"
      /\ \A o \in Offer : gone[o] \notin {"us", "peer"}
  OBVIOUS
<1>5. CASE ~focused
  <2>1. wire' = w /\ origin' = gone
    <3>1. wire' = wire \o (told \o <<>>) /\ origin' = gone
      BY <1>5 DEF Selects, Send
    <3>2. told \o <<>> = told
      BY <1>2, ConcatEmptySeq
    <3>3. QED
      BY <3>1, <3>2
  <2> HIDE DEF w, gone
  <2>2. WireOK(w, live, Known, gone)
    <3>1. \A i \in 1..Len(w) : w[i].kind = "enter" => w[i].offer \in Offer
      BY <1>2, EntersOfOffers
    <3>2. QED
      BY <1>2, <1>4, <3>1, WireOrigins
  <2>3. WireOK(wire', live', Known', origin')
    BY <1>1, <2>1, <2>2
  <2>4. SelectionComes' /\ SelectionHeld' /\ OriginIsOwner'
    BY <1>4, <1>5, <2>1 DEF SelectionComes, SelectionHeld, OriginIsOwner
  <2>5. QED
    BY <1>2, <1>3, <1>4, <2>1, <2>3, <2>4
<1>6. CASE focused
  <2> DEFINE m == IF who = "us" THEN "text" ELSE IF who = "peer" THEN what ELSE "text"
  <2>1. m \in {"text", "uri"} /\ Carried' = m
    BY <1>3 DEF Selects, Carried
  <2>2. IF owner' = "nobody"
        THEN origin' = gone /\ wire' = Append(w, Event("selection", NoOffer, "none", NoSource))
        ELSE \E o \in FreeOffers :
               /\ origin' = [gone EXCEPT ![o] = owner']
               /\ wire' = Append(Append(w, Event("offer", o, m, NoSource)),
                                 Event("selection", o, "none", NoSource))
    <3>1. CASE who = "nobody"
      <4> DEFINE e == Event("selection", NoOffer, "none", NoSource)
      <4>1. e \in EventType
        BY EventTyped
      <4>2. origin' = gone /\ wire' = wire \o (told \o <<e>>)
        BY <1>6, <3>1 DEF Selects, Send
      <4> HIDE DEF e
      <4>3. wire \o (told \o <<e>>) = Append(w, e)
        BY <1>1, <1>2, <4>1, Concats
      <4>4. QED
        BY <1>3, <3>1, <4>2, <4>3 DEF e
    <3>2. CASE who # "nobody"
      <4>1. PICK o \in FreeOffers :
              /\ origin' = [gone EXCEPT ![o] = who]
              /\ wire' = wire \o (told \o <<Event("offer", o, m, NoSource),
                                            Event("selection", o, "none", NoSource)>>)
        BY <1>6, <3>2 DEF Selects, Send
      <4> DEFINE e == Event("offer", o, m, NoSource)   u == Event("selection", o, "none", NoSource)
      <4>2. o \in Offer
        BY DEF FreeOffers
      <4> HIDE DEF m
      <4>3. e \in EventType /\ u \in EventType
        BY <2>1, <4>2, EventTyped
      <4>4. wire' = wire \o (told \o <<e, u>>)
        BY <4>1
      <4> HIDE DEF e, u
      <4>5. wire \o (told \o <<e, u>>) = Append(Append(w, e), u)
        BY <1>1, <1>2, <4>3, Concats
      <4>6. QED
        BY <1>3, <3>2, <4>1, <4>4, <4>5 DEF e, u
    <3>3. QED
      BY <3>1, <3>2
  <2>3. owner' \in {"us", "peer", "nobody"} /\ UNCHANGED <<offers, lost, live>>
    BY <1>3
  <2> HIDE DEF w, m, gone
  <2>4. \A o \in Offer : gone[o] \in {"us", "peer"} => owner' = gone[o]
    BY <1>4
  <2>5. /\ wire' \in Seq(EventType) /\ origin' \in [Offer -> {"us", "peer", "drag", "gone"}]
        /\ WireOK(wire', live', Known', origin') /\ SelectionComes' /\ SelectionHeld'
        /\ OriginIsOwner' /\ \A s : Cancels(wire', s) <=> Cancels(w, s)
    BY <1>2, <1>4, <2>1, <2>2, <2>3, <2>4, SelectionSent
  <2>6. QED
    BY <1>2, <1>3, <2>5
<1>7. QED
  BY <1>5, <1>6

LEMMA CompositorKeeps ==
    ASSUME DataInv, UNCHANGED <<client, live, history, crashed>>, read' = NoRead,
           wire' \in Seq(EventType), Len(wire') <= MaxEvents,
           owner' \in {"us", "peer", "nobody"}, peer' \in {"text", "uri"},
           focused' \in BOOLEAN, drag' \in Window \union {"frame", NoWindow},
           origin' \in [Offer -> {"us", "peer", "drag", "gone"}],
           WireOK(wire', live', Known', origin'), SelectionComes', SelectionHeld',
           OriginIsOwner', SourceIsHeld'
    PROVE  DataInv'
<1>1. TypeOK'
  BY DEF DataInv, TypeOK, client, history
<1>2. OffersOwned' /\ LostApart' /\ ListedOnce'
  BY OwnersKept DEF client, history
<1>3. ReadsTheSelection' /\ NeverReadsItself' /\ crashed' # "send"
  BY NothingRead DEF DataInv
<1>4. QED
  BY <1>1, <1>2, <1>3 DEF DataInv

\* An event about no offer, sent by the compositor or for it.
LEMMA PlainEvent ==
    ASSUME DataAssumption, DataInv, NEW k \in {"leave", "drop", "send"},
           NEW a \in DataSource \union {NoSource}, k = "send" => a \in DataSource,
           Send(<<Event(k, NoOffer, "none", a)>>),
           UNCHANGED <<offers, lost, live, owner, peer, origin, focused, selectionOffer,
                       selectionSource, clipboardString, ignored>>
    PROVE  /\ wire' \in Seq(EventType) /\ Len(wire') <= MaxEvents
           /\ WireOK(wire', live', Known', origin') /\ SelectionComes' /\ SelectionHeld'
           /\ OriginIsOwner' /\ SourceIsHeld'
<1> DEFINE e == Event(k, NoOffer, "none", a)
<1>1. e \in EventType /\ e.kind = k /\ e.at = a
  BY EventTyped
<1>2. wire' = wire \o <<e>> /\ Len(wire) + Len(<<e>>) <= MaxEvents
  BY DEF Send
<1> HIDE DEF e
<1>3. wire \in Seq(EventType) /\ wire' = Append(wire, e) /\ Len(<<e>>) = 1
  BY <1>1, <1>2, Concats DEF DataInv, TypeOK
<1>4. Len(wire') = Len(wire) + 1
  BY <1>1, <1>3
<1>5. /\ wire' \in Seq(EventType)
      /\ WireOK(wire', live', Known', origin') /\ SelectionComes' /\ SelectionHeld'
      /\ OriginIsOwner'
      /\ \A s : Cancels(wire', s) <=> Cancels(wire, s) \/ (e.kind = "cancelled" /\ e.at = s)
  BY <1>1, <1>3, PlainSent
<1>6. SourceIsHeld'
  BY <1>1, <1>5 DEF DataInv, SourceIsHeld
<1>7. QED
  BY <1>2, <1>3, <1>4, <1>5, <1>6

LEMMA SelectionsStep ==
    ASSUME DataAssumption, DataInv, PeerSelects \/ PeerIsGone, read' = NoRead
    PROVE  DataInv'
<1>1. /\ UNCHANGED <<client, live, focused, drag, history, crashed>>
      /\ UNCHANGED <<offers, lost, selectionSource, clipboardString, ignored>>
  BY DEF PeerSelects, PeerIsGone, client, history
<1>2. PICK who \in {"peer", "nobody"}, what \in {"text", "uri"} : Selects(who, what, Cancelled)
  <2>1. CASE PeerSelects
    BY <2>1 DEF PeerSelects
  <2>2. CASE PeerIsGone
    <3>1. Cancelled = <<>> /\ peer \in {"text", "uri"}
      BY <2>2 DEF PeerIsGone, Cancelled, DataInv, TypeOK
    <3>2. Selects("nobody", peer, Cancelled)
      BY <2>2, <3>1 DEF PeerIsGone
    <3>3. QED
      BY <3>1, <3>2
  <2>3. QED
    BY <2>1, <2>2
<1>3. /\ Cancelled = <<>> \/ (owner = "us" /\ Cancelled = <<CancelOf(selectionSource)>>)
      /\ owner = "us" => Cancelled # <<>>
  BY DEF Cancelled, CancelOf
<1>4. /\ wire' \in Seq(EventType) /\ Len(wire') <= MaxEvents
      /\ origin' \in [Offer -> {"us", "peer", "drag", "gone"}]
      /\ owner' = who /\ peer' \in {"text", "uri"}
      /\ WireOK(wire', live', Known', origin') /\ SelectionComes' /\ SelectionHeld'
      /\ OriginIsOwner'
      /\ \A s : Cancels(wire', s) <=>
           Cancels(wire, s) \/ (Cancelled # <<>> /\ s = selectionSource)
  BY <1>1, <1>2, <1>3, SelectsStep
<1>5. SourceIsHeld'
  BY <1>1, <1>3, <1>4 DEF DataInv, SourceIsHeld
<1>6. focused' \in BOOLEAN /\ drag' \in Window \union {"frame", NoWindow}
  BY <1>1 DEF DataInv, TypeOK
<1>7. QED
  BY <1>1, <1>2, <1>4, <1>5, <1>6, CompositorKeeps

LEMMA FocusStep ==
    ASSUME DataAssumption, DataInv, FocusIn \/ FocusOut, read' = NoRead PROVE DataInv'
<1>1. /\ UNCHANGED <<client, live, owner, peer, drag, history, crashed>>
      /\ UNCHANGED <<offers, lost, selectionSource, clipboardString, ignored>>
      /\ focused' \in BOOLEAN /\ Known' = Known
  BY DEF FocusIn, FocusOut, client, history, Known
<1>2. /\ wire \in Seq(EventType) /\ WireOK(wire, live, Known, origin) /\ Len(wire) <= MaxEvents
      /\ origin \in [Offer -> {"us", "peer", "drag", "gone"}]
      /\ owner' \in {"us", "peer", "nobody"} /\ peer' \in {"text", "uri"}
      /\ drag' \in Window \union {"frame", NoWindow} /\ peer \in {"text", "uri"}
  BY <1>1 DEF DataInv, TypeOK
<1>3. CASE FocusOut
  <2>1. wire' = wire /\ origin' = origin /\ ~focused'
    BY <1>3 DEF FocusOut
  <2>2. SelectionComes' /\ SelectionHeld' /\ OriginIsOwner' /\ SourceIsHeld'
    BY <1>1, <2>1
    DEF DataInv, SelectionComes, SelectionHeld, OriginIsOwner, SourceIsHeld
  <2>3. QED
    BY <1>1, <1>2, <2>1, <2>2, CompositorKeeps
<1>4. CASE FocusIn
  <2>1. Carried' = Carried /\ Carried \in {"text", "uri"}
    BY <1>1, <1>2 DEF Carried
  <2>2. /\ IF owner' = "nobody"
           THEN /\ origin' = origin
                /\ wire' = Append(wire, Event("selection", NoOffer, "none", NoSource))
           ELSE \E o \in FreeOffers :
                  /\ origin' = [origin EXCEPT ![o] = owner']
                  /\ wire' = Append(Append(wire, Event("offer", o, Carried, NoSource)),
                                    Event("selection", o, "none", NoSource))
        /\ Len(wire') <= MaxEvents
    <3>1. CASE owner = "nobody"
      <4> DEFINE e == Event("selection", NoOffer, "none", NoSource)
      <4>1. e \in EventType
        BY EventTyped
      <4>2. origin' = origin /\ wire' = wire \o <<e>> /\ Len(wire) + Len(<<e>>) <= MaxEvents
        BY <1>4, <3>1 DEF FocusIn, Send
      <4> HIDE DEF e
      <4>3. wire' = Append(wire, e) /\ Len(<<e>>) = 1 /\ Len(wire \o <<e>>) = Len(wire) + Len(<<e>>)
        BY <1>2, <4>1, <4>2, Concats
      <4>4. QED
        BY <1>1, <3>1, <4>2, <4>3 DEF e
    <3>2. CASE owner # "nobody"
      <4>1. PICK o \in FreeOffers :
              /\ origin' = [origin EXCEPT ![o] = owner]
              /\ Send(<<Event("offer", o, Carried, NoSource),
                        Event("selection", o, "none", NoSource)>>)
        BY <1>4, <3>2 DEF FocusIn, Carried
      <4> DEFINE e == Event("offer", o, Carried, NoSource)
                 u == Event("selection", o, "none", NoSource)
      <4>2. o \in Offer
        BY DEF FreeOffers
      <4>3. e \in EventType /\ u \in EventType
        BY <2>1, <4>2, EventTyped
      <4>4. wire' = wire \o <<e, u>> /\ Len(wire) + Len(<<e, u>>) <= MaxEvents
        BY <4>1 DEF Send
      <4> HIDE DEF e, u
      <4>5. wire' = Append(Append(wire, e), u)
        BY <1>2, <4>3, <4>4, Concats
      <4>6. <<e, u>> \in Seq(EventType) /\ Len(wire \o <<e, u>>) = Len(wire) + Len(<<e, u>>)
        <5>1. <<e, u>> \in Seq(EventType)
          BY <4>3
        <5>2. QED
          BY <1>2, <5>1, ConcatProperties
      <4>7. QED
        BY <1>1, <3>2, <4>1, <4>4, <4>5, <4>6 DEF e, u
    <3>3. QED
      BY <3>1, <3>2
  <2>3. /\ \A i \in 1..Len(wire) : wire[i].offer \in Announced \union {NoOffer}
        /\ \A o \in Offer : origin[o] \in {"us", "peer"} => owner' = origin[o]
    BY <1>1, <1>2 DEF Announced, DataInv, OriginIsOwner
  <2>4. /\ wire' \in Seq(EventType) /\ origin' \in [Offer -> {"us", "peer", "drag", "gone"}]
        /\ WireOK(wire', live', Known', origin') /\ SelectionComes' /\ SelectionHeld'
        /\ OriginIsOwner' /\ \A s : Cancels(wire', s) <=> Cancels(wire, s)
    BY <1>1, <1>2, <2>1, <2>2, <2>3, SelectionSent
  <2>5. SourceIsHeld'
    BY <1>1, <2>4 DEF DataInv, SourceIsHeld
  <2>6. QED
    BY <1>1, <1>2, <2>2, <2>4, <2>5, CompositorKeeps
<1>5. QED
  BY <1>3, <1>4

LEMMA DragsStep ==
    ASSUME DataAssumption, DataInv, DragEnter \/ DragEnds \/ PeerReads, read' = NoRead
    PROVE  DataInv'
<1>1. /\ UNCHANGED <<client, live, owner, peer, focused, history, crashed>>
      /\ UNCHANGED <<offers, lost, selectionSource, selectionOffer, clipboardString, ignored>>
      /\ drag' \in Window \union {"frame", NoWindow}
  BY DEF DragEnter, DragEnds, PeerReads, client, compositor, history, DataInv, TypeOK
<1>2. /\ wire \in Seq(EventType) /\ Len(wire) <= MaxEvents
      /\ origin \in [Offer -> {"us", "peer", "drag", "gone"}]
      /\ owner' \in {"us", "peer", "nobody"} /\ peer' \in {"text", "uri"}
      /\ focused' \in BOOLEAN
  BY <1>1 DEF DataInv, TypeOK
<1>3. CASE DragEnter
  <2>1. PICK o \in FreeOffers, a \in open \union {"frame"}, mime \in {"text", "uri"} :
          /\ origin' = [origin EXCEPT ![o] = "drag"]
          /\ Send(<<Event("offer", o, mime, NoSource), Event("enter", o, "none", a)>>)
    BY <1>3 DEF DragEnter
  <2> DEFINE e == Event("offer", o, mime, NoSource)   u == Event("enter", o, "none", a)
  <2>2. o \in Offer /\ a \in Window \union {"frame"}
    BY DEF FreeOffers, DataInv, TypeOK
  <2>3. e \in EventType /\ u \in EventType
    BY <2>2, EventTyped
  <2>4. wire' = wire \o <<e, u>> /\ Len(wire) + Len(<<e, u>>) <= MaxEvents
    BY <2>1 DEF Send
  <2> HIDE DEF e, u
  <2>5. wire' = Append(Append(wire, e), u)
    BY <1>2, <2>3, <2>4, Concats
  <2>6. Len(wire') <= MaxEvents
    <3>1. <<e, u>> \in Seq(EventType)
      BY <2>3
    <3>2. QED
      BY <1>2, <2>4, <3>1, ConcatProperties
  <2>7. /\ wire' \in Seq(EventType)
        /\ WireOK(wire', live', Known', origin') /\ SelectionComes' /\ SelectionHeld'
        /\ OriginIsOwner' /\ \A s : Cancels(wire', s) <=> Cancels(wire, s)
    BY <1>1, <2>1, <2>2, <2>5, DragSent DEF e, u
  <2>8. origin' \in [Offer -> {"us", "peer", "drag", "gone"}]
    BY <1>2, <2>1
  <2>9. SourceIsHeld'
    BY <1>1, <2>7 DEF DataInv, SourceIsHeld
  <2>10. QED
    BY <1>1, <1>2, <2>6, <2>7, <2>8, <2>9, CompositorKeeps
<1>4. CASE DragEnds \/ PeerReads
  <2>1. PICK k \in {"leave", "drop", "send"}, a \in DataSource \union {NoSource} :
          /\ k = "send" => a \in DataSource
          /\ Send(<<Event(k, NoOffer, "none", a)>>)
    <3>1. CASE DragEnds
      BY <3>1 DEF DragEnds
    <3>2. CASE PeerReads
      BY <3>2 DEF PeerReads, DataInv, SourceIsHeld
    <3>3. QED
      BY <1>4, <3>1, <3>2
  <2>2. origin' = origin
    BY <1>4 DEF DragEnds, PeerReads, compositor
  <2>3. /\ wire' \in Seq(EventType) /\ Len(wire') <= MaxEvents
        /\ WireOK(wire', live', Known', origin') /\ SelectionComes' /\ SelectionHeld'
        /\ OriginIsOwner' /\ SourceIsHeld'
    BY <1>1, <2>1, <2>2, PlainEvent
  <2>4. QED
    BY <1>1, <1>2, <2>2, <2>3, CompositorKeeps
<1>5. QED
  BY <1>3, <1>4

\* OffersOwned and LostApart, of offers of which are listed.
Owned(of, d, s, lo, lv) ==
    /\ lv = of \union ({d, s} \ {NoOffer}) \union lo
    /\ d \notin of /\ s \notin of /\ (d = s => d = NoOffer)
    /\ lo \intersect (of \union {d, s}) = {}
Offered == {r.offer : r \in offers}

LEMMA OwnedNow ==
    ASSUME OffersOwned, LostApart
    PROVE  Owned(Offered, dragOffer, selectionOffer, lost, live)
BY DEF OffersOwned, LostApart, Owned, Offered, Listed

LEMMA OwnedNext ==
    ASSUME Owned(Offered', dragOffer', selectionOffer', lost', live')
    PROVE  OffersOwned' /\ LostApart'
BY DEF OffersOwned, LostApart, Owned, Offered, Listed

LEMMA ListedOffer ==
    ASSUME DataAssumption, DataInv, NEW o
    PROVE  /\ Listed(o) <=> o \in Offered
           /\ Listed(o) <=> Has(o, "text") \/ Has(o, "uri")
           /\ Has(o, "text") => ~Has(o, "uri")
           /\ Offered \subseteq Offer /\ NoOffer \notin Offered
           /\ {r.offer : r \in Without(o)} = Offered \ {o}
           /\ Without(o) \subseteq [offer : Offer, mime : {"text", "uri"}]
           /\ \A r, q \in Without(o) : r.offer = q.offer => r = q
<1>1. offers \subseteq [offer : Offer, mime : {"text", "uri"}] /\ ListedOnce
  BY DEF DataInv, TypeOK
<1>2. Listed(o) <=> o \in Offered
  BY DEF Listed, Offered
<1>3. Has(o, "text") \/ Has(o, "uri") => Listed(o)
  BY DEF Has, Listed
<1>4. Listed(o) => Has(o, "text") \/ Has(o, "uri")
  <2> SUFFICES ASSUME NEW r \in offers, r.offer = o PROVE Has(o, "text") \/ Has(o, "uri")
    BY DEF Listed
  <2>1. r = [offer |-> o, mime |-> r.mime] /\ r.mime \in {"text", "uri"}
    BY <1>1
  <2>2. QED
    BY <2>1 DEF Has
<1>5. Has(o, "text") => ~Has(o, "uri")
  BY <1>1 DEF Has, ListedOnce
<1>6. Offered \subseteq Offer /\ NoOffer \notin Offered
  BY <1>1 DEF Offered, DataAssumption
<1>7. {r.offer : r \in Without(o)} = Offered \ {o}
  BY DEF Without, Offered
<1>8. Without(o) \subseteq offers
  BY DEF Without
<1>9. QED
  BY <1>1, <1>2, <1>3, <1>4, <1>5, <1>6, <1>7, <1>8 DEF ListedOnce

\* What is left when the first event is dispatched.
LEMMA Dispatched ==
    ASSUME DataAssumption, DataInv, wire # <<>>, NEW e, e = Head(wire), wire' = Tail(wire),
           UNCHANGED compositor,
           IF e.kind = "offer"
           THEN /\ live' = live \union {e.offer} /\ e.offer \in Known'
                /\ [offer |-> e.offer, mime |-> e.mime] \in offers' \/ e.offer \in lost'
           ELSE live' \subseteq live
    PROVE  /\ wire' \in Seq(EventType) /\ Len(wire') <= MaxEvents
           /\ WireOK(wire', live', Known', origin') /\ SelectionComes' /\ OriginIsOwner'
           /\ \A s : Cancels(wire, s) <=>
                Cancels(wire', s) \/ (e.kind = "cancelled" /\ e.at = s)
<1>1. /\ wire \in Seq(EventType) /\ WireOK(wire, live, Known, origin) /\ Len(wire) <= MaxEvents
      /\ UNCHANGED <<owner, peer, focused, origin>>
  BY DEF DataInv, TypeOK, compositor
<1>2. /\ wire' \in Seq(EventType) /\ Len(wire) \in Nat /\ Len(wire') = Len(wire) - 1
      /\ e = wire[1] /\ e \in EventType /\ 1 \in 1..Len(wire)
      /\ \A i \in 1..Len(wire') : i + 1 \in 1..Len(wire) /\ wire'[i] = wire[i + 1]
      /\ \A i \in 1..Len(wire') : LastSelection(wire', i) => LastSelection(wire, i + 1)
      /\ \A s : Cancels(wire, s) <=>
           Cancels(wire', s) \/ (e.kind = "cancelled" /\ e.at = s)
  BY <1>1, EventPopped
<1>3. WireOK(wire', live', Known', origin')
  <2>1. WireOK(Tail(wire), live', Known', origin)
    BY <1>1, <1>2, WirePop
  <2>2. QED
    BY <1>1, <2>1
<1>4. OriginIsOwner'
  BY <1>1 DEF DataInv, OriginIsOwner
<1>5. SelectionComes'
  <2> SUFFICES ASSUME focused, NEW i \in 1..Len(wire'), LastSelection(wire', i)
               PROVE  TellsSelection(i)'
    BY <1>1 DEF SelectionComes
  <2>1. i + 1 \in 1..Len(wire) /\ i \in Nat /\ i + 1 # 1 /\ i + 1 - 1 = i /\ wire'[i] = wire[i + 1]
    BY <1>2
  <2>2. LastSelection(wire, i + 1)
    BY <1>2
  <2>3. TellsSelection(i + 1) /\ wire[i + 1].kind = "selection"
    BY <2>1, <2>2 DEF DataInv, SelectionComes, LastSelection
  <2>4. CASE owner = "nobody"
    BY <1>1, <2>1, <2>3, <2>4 DEF TellsSelection
  <2>5. CASE owner # "nobody"
    <3>1. /\ wire[i + 1].offer \in Offer /\ origin[wire[i + 1].offer] = owner
          /\ wire[i].mime = Carried
      BY <2>1, <2>3, <2>5 DEF TellsSelection
    <3>2. /\ owner' # "nobody" /\ wire'[i].offer \in Offer
          /\ origin'[wire'[i].offer] = owner' /\ Carried' = Carried
      BY <1>1, <2>1, <2>5, <3>1 DEF Carried
    <3>3. CASE i = 1
      <4>1. Needs(wire[i + 1])
        BY <2>3, <3>1 DEF Needs, DataAssumption
      <4>2. wire[1].kind = "offer" /\ wire[1].offer = wire[i + 1].offer
        BY <1>1, <2>1, <3>3, <4>1 DEF WireOK, UsesAnnounced
      <4>3. e.offer = wire'[1].offer /\ e.mime = Carried' /\ e.kind = "offer"
        BY <1>2, <2>1, <3>1, <3>2, <3>3, <4>2
      <4>4. [offer |-> wire'[1].offer, mime |-> Carried'] \in offers' \/ wire'[1].offer \in lost'
        BY <4>3
      <4>5. QED
        BY <3>2, <3>3, <4>4 DEF TellsSelection
    <3>4. CASE i # 1
      <4>1. i - 1 \in 1..Len(wire') /\ i - 1 + 1 = i
        BY <1>2, <2>1, <3>4
      <4>2. wire'[i - 1].mime = Carried'
        BY <1>2, <3>1, <3>2, <4>1
      <4>3. QED
        BY <3>2, <3>4, <4>2 DEF TellsSelection
    <3>5. QED
      BY <3>3, <3>4
  <2>6. QED
    BY <2>4, <2>5
<1>6. QED
  BY <1>1, <1>2, <1>3, <1>4, <1>5

\* Of an event that does not tell the selection the client's does not change.
LEMMA SelectionStays ==
    ASSUME DataAssumption, DataInv, wire # <<>>, wire' = Tail(wire), UNCHANGED compositor,
           Head(wire).kind # "selection", selectionOffer' = selectionOffer,
           \A o \in lost : origin[o] # "drag" => o \in lost'
    PROVE  SelectionHeld'
<1>1. wire \in Seq(EventType) /\ UNCHANGED <<owner, peer, focused, origin>>
  BY DEF DataInv, TypeOK, compositor
<1>2. NoSelection(wire') => NoSelection(wire)
  BY <1>1, EventPopped
<1>3. HoldsSelection => HoldsSelection'
  <2>1. owner \in {"us", "peer", "nobody"} /\ Carried' = Carried
    BY <1>1 DEF DataInv, TypeOK, Carried
  <2>2. QED
    BY <1>1, <2>1 DEF HoldsSelection
<1>4. QED
  BY <1>1, <1>2, <1>3 DEF DataInv, SelectionHeld

LEMMA SourceStays ==
    ASSUME DataInv, wire # <<>>, UNCHANGED <<owner, selectionSource, ignored, clipboardString>>,
           \A s : Cancels(wire', s) <=> Cancels(wire, s)
    PROVE  SourceIsHeld'
BY DEF DataInv, SourceIsHeld

LEMMA HandleDataOfferStep ==
    ASSUME DataAssumption, DataInv, HandleDataOffer, read' = NoRead PROVE DataInv'
<1> DEFINE e == Head(wire)
<1>1. /\ crashed = "none" /\ wire # <<>> /\ e.kind = "offer" /\ wire' = Tail(wire)
      /\ live' = live \union {e.offer}
      /\ UNCHANGED <<open, dragOffer, dragFocus, selectionOffer, selectionSource,
                     clipboardString, ignored, compositor, crashed>>
      /\ UNCHANGED <<owner, peer, focused, drag, origin>>
      /\ \/ /\ offers' = offers \union {[offer |-> e.offer, mime |-> e.mime]}
            /\ lost' = lost /\ failures' = failures
         \/ /\ lost' = lost \union {e.offer} /\ offers' = offers
            /\ failures < MaxFailures /\ failures' = failures + 1
  BY DEF HandleDataOffer, Next1, history, compositor
<1>2. e \in EventType /\ e = wire[1] /\ 1 \in 1..Len(wire)
  BY <1>1, EventPopped DEF DataInv, TypeOK
<1> HIDE DEF e
<1>3. e.offer \in Offer /\ e.offer \notin live /\ e.mime \in {"text", "uri"}
  BY <1>1, <1>2 DEF DataInv, WireOK, OffersUsed
<1>4. /\ e.offer \in Known'
      /\ [offer |-> e.offer, mime |-> e.mime] \in offers' \/ e.offer \in lost'
  <2> DEFINE r == [offer |-> e.offer, mime |-> e.mime]
  <2>1. r.offer = e.offer
    OBVIOUS
  <2>2. r \in offers' \/ e.offer \in lost'
    BY <1>1
  <2> HIDE DEF r
  <2>3. e.offer \in Known'
    BY <2>1, <2>2 DEF Known
  <2>4. QED
    BY <2>2, <2>3 DEF r
<1>5. /\ wire' \in Seq(EventType) /\ Len(wire') <= MaxEvents
      /\ WireOK(wire', live', Known', origin') /\ SelectionComes' /\ OriginIsOwner'
      /\ \A s : Cancels(wire, s) <=>
           Cancels(wire', s) \/ (e.kind = "cancelled" /\ e.at = s)
  BY <1>1, <1>4, Dispatched DEF e
<1>6. SelectionHeld'
  BY <1>1, SelectionStays DEF e
<1>7. SourceIsHeld'
  BY <1>1, <1>5, SourceStays
<1>8. TypeOK'
  <2>1. [offer |-> e.offer, mime |-> e.mime] \in [offer : Offer, mime : {"text", "uri"}]
    BY <1>3
  <2>2. offers' \subseteq [offer : Offer, mime : {"text", "uri"}] /\ live' \subseteq Offer
        /\ lost' \subseteq Offer
    BY <1>1, <1>3, <2>1 DEF DataInv, TypeOK
  <2>3. failures' \in 0..MaxFailures
    BY <1>1 DEF DataInv, TypeOK, DataAssumption
  <2>4. QED
    BY <1>1, <1>5, <2>2, <2>3 DEF DataInv, TypeOK
<1>9. Owned(Offered, dragOffer, selectionOffer, lost, live)
  BY OwnedNow DEF DataInv
<1>10. OffersOwned' /\ LostApart'
  <2>1. \/ Offered' = Offered \union {e.offer} /\ lost' = lost
        \/ Offered' = Offered /\ lost' = lost \union {e.offer}
    <3>1. CASE offers' = offers \union {[offer |-> e.offer, mime |-> e.mime]} /\ lost' = lost
      <4> DEFINE r == [offer |-> e.offer, mime |-> e.mime]
      <4>1. r.offer = e.offer /\ offers' = offers \union {r}
        BY <3>1
      <4> HIDE DEF r
      <4>2. QED
        BY <3>1, <4>1 DEF Offered
    <3>2. QED
      BY <1>1, <3>1 DEF Offered
  <2>2. e.offer # NoOffer
    BY <1>3 DEF DataAssumption
  <2>3. Owned(Offered', dragOffer', selectionOffer', lost', live')
    <3>1. UNCHANGED <<dragOffer, selectionOffer>> /\ live' = live \union {e.offer}
      BY <1>1
    <3>2. QED
      BY <1>3, <1>9, <2>1, <2>2, <3>1 DEF Owned
  <2>4. QED
    BY <2>3, OwnedNext
<1>11. ListedOnce'
  <2>1. \A r \in offers : r.offer # e.offer
    BY <1>3, <1>9 DEF Owned, Offered
  <2>2. QED
    BY <1>1, <2>1 DEF DataInv, ListedOnce
<1>12. QED
  BY <1>1, <1>5, <1>6, <1>7, <1>8, <1>10, <1>11, NothingRead DEF DataInv

LEMMA HandleDataEnterStep ==
    ASSUME DataAssumption, DataInv, HandleEnter, read' = NoRead PROVE DataInv'
<1> DEFINE e == Head(wire)   takes == Has(e.offer, "uri")
<1>1. /\ crashed = "none" /\ wire # <<>> /\ e.kind = "enter" /\ wire' = Tail(wire)
      /\ UNCHANGED <<open, selectionOffer, selectionSource, clipboardString, ignored,
                     compositor, failures>>
      /\ UNCHANGED <<owner, peer, focused, drag, origin>>
  BY DEF HandleEnter, Next1, compositor, client
<1>2. \/ /\ crashed' = "enter" /\ UNCHANGED <<offers, dragOffer, dragFocus, live, lost>>
      \/ /\ ~EnterCrashes(e) /\ crashed' = "none"
         /\ dragOffer' = IF takes THEN e.offer ELSE NoOffer
         /\ dragFocus' = IF takes THEN Entered(e.at) ELSE NoWindow
         /\ offers' = Without(e.offer)
         /\ live' = (live \ {dragOffer})
                      \ (IF takes \/ e.at = "frame" THEN {} ELSE {e.offer})
         /\ lost' = IF e.at = "frame" THEN lost ELSE lost \ {e.offer}
  BY <1>1 DEF HandleEnter, client
<1>3. wire \in Seq(EventType) /\ e \in EventType /\ e = wire[1] /\ 1 \in 1..Len(wire)
  BY <1>1, EventPopped DEF DataInv, TypeOK
<1> HIDE DEF e
<1>4. /\ e.offer \in Known /\ origin[e.offer] = "drag" /\ Known = Offered \union lost
      /\ Known \subseteq Offer
  BY <1>1, <1>3 DEF DataInv, TypeOK, WireOK, UsesAnnounced, DragsEnter, Needs, Known, Offered
<1>5. /\ live' \subseteq live /\ lost' \subseteq lost
      /\ \A o \in lost : origin[o] # "drag" => o \in lost'
  BY <1>2, <1>4
<1>6. /\ wire' \in Seq(EventType) /\ Len(wire') <= MaxEvents
      /\ WireOK(wire', live', Known', origin') /\ SelectionComes' /\ OriginIsOwner'
      /\ \A s : Cancels(wire, s) <=>
           Cancels(wire', s) \/ (e.kind = "cancelled" /\ e.at = s)
  BY <1>1, <1>5, Dispatched DEF e
<1>7. SelectionHeld'
  BY <1>1, <1>5, SelectionStays DEF e
<1>8. SourceIsHeld'
  BY <1>1, <1>6, SourceStays
<1>9. Owned(Offered, dragOffer, selectionOffer, lost, live)
  BY OwnedNow DEF DataInv
<1>10. /\ Listed(e.offer) <=> e.offer \in Offered
       /\ takes => e.offer \in Offered
       /\ Offered \subseteq Offer /\ NoOffer \notin Offered
       /\ {r.offer : r \in Without(e.offer)} = Offered \ {e.offer}
       /\ Without(e.offer) \subseteq [offer : Offer, mime : {"text", "uri"}]
       /\ \A r, q \in Without(e.offer) : r.offer = q.offer => r = q
  BY ListedOffer
<1> HIDE DEF takes
<1>11. crashed' # "none" \/ e.at \in open \/ (e.at = "frame" /\ e.offer \notin Offered)
  BY <1>2, <1>10 DEF EnterCrashes
<1>12. OffersOwned' /\ LostApart'
  <2>1. Offered' = Offered \/ (crashed' = "none" /\ Offered' = Offered \ {e.offer})
    BY <1>2, <1>10 DEF Offered
  <2>2. Owned(Offered', dragOffer', selectionOffer', lost', live')
    <3>1. CASE crashed' = "enter"
      BY <1>1, <1>2, <1>9, <2>1, <3>1 DEF Owned
    <3>2. CASE crashed' = "none"
      <4>1. Offered' = Offered \ {e.offer}
        BY <1>2, <1>10, <3>2 DEF Offered
      <4>2. selectionOffer' = selectionOffer /\ e.offer \in Offered \union lost
            /\ NoOffer \notin lost /\ NoOffer \notin Offered /\ e.offer # NoOffer
        BY <1>1, <1>4, <1>10 DEF DataAssumption
      <4>3. CASE e.at = "frame"
        <5>1. e.offer \notin Offered /\ ~takes
          <6>1. "frame" \notin open
            BY DEF DataAssumption, DataInv, TypeOK
          <6>2. QED
            BY <1>10, <1>11, <3>2, <4>3, <6>1
        <5>2. dragOffer' = NoOffer /\ live' = live \ {dragOffer} /\ lost' = lost
          BY <1>2, <3>2, <4>3, <5>1
        <5>3. QED
          BY <1>9, <4>1, <4>2, <5>1, <5>2 DEF Owned
      <4>4. CASE e.at # "frame" /\ takes
        <5>1. dragOffer' = e.offer /\ live' = live \ {dragOffer} /\ lost' = lost \ {e.offer}
          BY <1>2, <3>2, <4>4
        <5>2. e.offer \in Offered
          BY <1>10, <4>4
        <5>3. QED
          BY <1>9, <4>1, <4>2, <5>1, <5>2 DEF Owned
      <4>5. CASE e.at # "frame" /\ ~takes
        <5>1. /\ dragOffer' = NoOffer /\ live' = (live \ {dragOffer}) \ {e.offer}
              /\ lost' = lost \ {e.offer}
          BY <1>2, <3>2, <4>5
        <5>2. QED
          BY <1>9, <4>1, <4>2, <5>1 DEF Owned
      <4>6. QED
        BY <4>3, <4>4, <4>5
    <3>3. QED
      BY <1>2, <3>1, <3>2
  <2>3. QED
    BY <2>2, OwnedNext
<1>13. ListedOnce'
  BY <1>2, <1>10 DEF DataInv, ListedOnce
<1>14. TypeOK'
  <2>1. /\ offers' \subseteq [offer : Offer, mime : {"text", "uri"}]
        /\ {dragOffer', selectionOffer'} \subseteq Offer \union {NoOffer}
        /\ crashed' \in {"none", "enter", "drop", "send"}
    BY <1>1, <1>2, <1>4, <1>10 DEF DataInv, TypeOK
  <2>2. dragFocus' \in Window \union {NoWindow}
    BY <1>2 DEF DataInv, TypeOK, Entered
  <2>3. QED
    BY <1>1, <1>5, <1>6, <2>1, <2>2 DEF DataInv, TypeOK
<1>15. crashed' # "send"
  BY <1>2
<1>16. QED
  BY <1>6, <1>7, <1>8, <1>12, <1>13, <1>14, <1>15, NothingRead DEF DataInv

\* A drag leaves or drops; a source is told of a reader.
LEMMA HandleDragStep ==
    ASSUME DataAssumption, DataInv, HandleLeave \/ HandleDrop \/ HandleSend, read' = NoRead
    PROVE  DataInv'
<1> DEFINE e == Head(wire)
<1>1. /\ crashed = "none" /\ wire # <<>> /\ e.kind \in {"leave", "drop", "send"}
      /\ wire' = Tail(wire)
      /\ UNCHANGED <<open, offers, selectionOffer, selectionSource, clipboardString,
                     ignored, compositor, lost, failures>>
      /\ UNCHANGED <<owner, peer, focused, drag, origin>>
  BY DEF HandleLeave, HandleDrop, HandleSend, Next1, compositor, client, history
<1>2. /\ e.kind = "send" => /\ crashed' = IF selectionSource = e.at /\ clipboardString = NoText
                                         THEN "send" ELSE "none"
      /\ e.kind # "send" => crashed' \in {"none", "drop"}
      /\ \/ live' = live \ {dragOffer} /\ dragOffer' = NoOffer
            /\ dragFocus' \in {dragFocus, NoWindow}
         \/ UNCHANGED <<live, dragOffer, dragFocus>>
  BY DEF HandleLeave, HandleDrop, HandleSend, Next1, client
<1>3. wire \in Seq(EventType) /\ e \in EventType /\ e = wire[1] /\ 1 \in 1..Len(wire)
  BY <1>1, EventPopped DEF DataInv, TypeOK
<1> HIDE DEF e
<1>4. crashed' \in {"none", "drop"}
  <2>1. CASE e.kind = "send"
    <3>1. e.at \in DataSource
      BY <1>3, <2>1 DEF DataInv, WireOK, SendsAreOurs
    <3>2. e.at # NoSource
      BY <3>1 DEF DataAssumption
    <3>3. QED
      BY <1>2, <2>1, <3>2 DEF DataInv, SourceIsHeld
  <2>2. QED
    BY <1>2, <2>1
<1>5. live' \subseteq live
  BY <1>2
<1>6. /\ wire' \in Seq(EventType) /\ Len(wire') <= MaxEvents
      /\ WireOK(wire', live', Known', origin') /\ SelectionComes' /\ OriginIsOwner'
      /\ \A s : Cancels(wire, s) <=>
           Cancels(wire', s) \/ (e.kind = "cancelled" /\ e.at = s)
  BY <1>1, <1>5, Dispatched DEF e
<1>7. SelectionHeld'
  BY <1>1, SelectionStays DEF e
<1>8. SourceIsHeld'
  BY <1>1, <1>6, SourceStays
<1>9. OffersOwned' /\ LostApart'
  <2>1. Owned(Offered, dragOffer, selectionOffer, lost, live)
    BY OwnedNow DEF DataInv
  <2>2. NoOffer \notin lost /\ NoOffer \notin Offered
    BY ListedOffer DEF DataAssumption, DataInv, TypeOK
  <2>3. Offered' = Offered /\ UNCHANGED <<selectionOffer, lost>>
    BY <1>1 DEF Offered
  <2>4. Owned(Offered', dragOffer', selectionOffer', lost', live')
    BY <1>2, <2>1, <2>2, <2>3 DEF Owned
  <2>5. QED
    BY <2>4, OwnedNext
<1>10. TypeOK' /\ ListedOnce'
  BY <1>1, <1>2, <1>4, <1>5, <1>6 DEF DataInv, TypeOK, ListedOnce
<1>11. QED
  BY <1>4, <1>6, <1>7, <1>8, <1>9, <1>10, NothingRead DEF DataInv

LEMMA HandleCancelledStep ==
    ASSUME DataAssumption, DataInv, HandleCancelled, read' = NoRead PROVE DataInv'
<1> DEFINE e == Head(wire)
<1>1. /\ crashed = "none" /\ wire # <<>> /\ e.kind = "cancelled" /\ wire' = Tail(wire)
      /\ selectionSource' = IF selectionSource = e.at THEN NoSource ELSE selectionSource
      /\ UNCHANGED <<open, offers, dragOffer, dragFocus, selectionOffer, clipboardString,
                     live, compositor, lost, ignored, failures, crashed>>
      /\ UNCHANGED <<owner, peer, focused, drag, origin>>
  BY DEF HandleCancelled, Next1, OursAfter, history, compositor
<1> HIDE DEF e
<1>2. /\ wire' \in Seq(EventType) /\ Len(wire') <= MaxEvents
      /\ WireOK(wire', live', Known', origin') /\ SelectionComes' /\ OriginIsOwner'
      /\ \A s : Cancels(wire, s) <=>
           Cancels(wire', s) \/ (e.kind = "cancelled" /\ e.at = s)
  BY <1>1, Dispatched DEF e
<1>3. SelectionHeld'
  BY <1>1, SelectionStays DEF e
<1>4. SourceIsHeld'
  BY <1>1, <1>2 DEF DataInv, SourceIsHeld
<1>5. OffersOwned' /\ LostApart' /\ ListedOnce'
  BY <1>1, OwnersKept
<1>6. TypeOK'
  BY <1>1, <1>2 DEF DataInv, TypeOK
<1>7. QED
  BY <1>1, <1>2, <1>3, <1>4, <1>5, <1>6, NothingRead DEF DataInv

LEMMA HandleSelectionStep ==
    ASSUME DataAssumption, DataInv, HandleSelection, read' = NoRead PROVE DataInv'
<1> DEFINE e == Head(wire)   o == e.offer
<1>1. /\ crashed = "none" /\ wire # <<>> /\ e.kind = "selection" /\ wire' = Tail(wire)
      /\ selectionOffer' = IF Has(o, "text") THEN o ELSE NoOffer
      /\ live' = (live \ {selectionOffer}) \ (IF Has(o, "uri") THEN {o} ELSE {})
      /\ offers' = Without(o)
      /\ UNCHANGED <<open, dragOffer, dragFocus, selectionSource, clipboardString,
                     compositor, lost, ignored, failures, crashed>>
      /\ UNCHANGED <<owner, peer, focused, drag, origin>>
  BY DEF HandleSelection, Next1, history, compositor
<1>2. /\ wire \in Seq(EventType) /\ e \in EventType /\ e = wire[1] /\ 1 \in 1..Len(wire)
      /\ NoSelection(wire') => LastSelection(wire, 1)
  BY <1>1, EventPopped DEF DataInv, TypeOK
<1> HIDE DEF e
<1>3. o \in Offer \union {NoOffer}
  BY <1>2 DEF EventType
<1>4. /\ o # NoOffer => o \in Offered \union lost
      /\ Offered \union lost \subseteq Offer
  <2>1. o # NoOffer => Needs(e)
    BY <1>1 DEF Needs
  <2>2. o # NoOffer => o \in Known
    BY <1>2, <2>1 DEF DataInv, WireOK, UsesAnnounced
  <2>3. QED
    BY <2>2 DEF Known, Offered, DataInv, TypeOK
<1>5. live' \subseteq live
  BY <1>1
<1>6. /\ wire' \in Seq(EventType) /\ Len(wire') <= MaxEvents
      /\ WireOK(wire', live', Known', origin') /\ SelectionComes' /\ OriginIsOwner'
      /\ \A s : Cancels(wire, s) <=>
           Cancels(wire', s) \/ (e.kind = "cancelled" /\ e.at = s)
  BY <1>1, <1>5, Dispatched DEF e
<1>7. SourceIsHeld'
  BY <1>1, <1>6, SourceStays
<1>8. /\ o \in Offered <=> Has(o, "text") \/ Has(o, "uri")
      /\ Has(o, "text") => ~Has(o, "uri")
      /\ NoOffer \notin Offered
      /\ {r.offer : r \in Without(o)} = Offered \ {o}
      /\ Without(o) \subseteq [offer : Offer, mime : {"text", "uri"}]
      /\ \A r, q \in Without(o) : r.offer = q.offer => r = q
  BY ListedOffer
<1>9. SelectionHeld'
  <2> SUFFICES ASSUME focused, NoSelection(wire') PROVE HoldsSelection'
    BY <1>1 DEF SelectionHeld
  <2>1. TellsSelection(1)
    BY <1>2 DEF DataInv, SelectionComes
  <2>2. Carried' = Carried /\ Carried \in {"text", "uri"} /\ UNCHANGED <<owner, origin, lost>>
    BY <1>1 DEF Carried, DataInv, TypeOK
  <2>3. CASE owner = "nobody"
    <3>1. o = NoOffer
      BY <1>2, <2>1, <2>3 DEF TellsSelection
    <3>2. selectionOffer' = NoOffer
      BY <1>1, <1>8, <3>1
    <3>3. QED
      BY <2>2, <2>3, <3>2 DEF HoldsSelection
  <2>4. CASE owner # "nobody"
    <3>1. /\ o \in Offer /\ origin[o] = owner
          /\ Has(o, Carried) \/ o \in lost
      BY <1>2, <2>1, <2>4 DEF TellsSelection, Has
    <3>2. o # NoOffer
      BY <3>1 DEF DataAssumption
    <3>3. CASE o \in lost
      BY <2>2, <2>4, <3>1, <3>3 DEF HoldsSelection
    <3>4. CASE Has(o, "text") /\ Carried = "text"
      <4>1. selectionOffer' = o
        BY <1>1, <3>4
      <4>2. QED
        BY <2>2, <2>4, <3>1, <3>2, <3>4, <4>1 DEF HoldsSelection
    <3>5. CASE Has(o, "uri") /\ Carried = "uri"
      <4>1. selectionOffer' = NoOffer
        BY <1>1, <1>8, <3>5
      <4>2. QED
        BY <2>2, <2>4, <3>5, <4>1 DEF HoldsSelection
    <3>6. QED
      BY <2>2, <3>1, <3>3, <3>4, <3>5
  <2>5. QED
    BY <2>3, <2>4
<1>10. OffersOwned' /\ LostApart'
  <2>1. Owned(Offered, dragOffer, selectionOffer, lost, live)
    BY OwnedNow DEF DataInv
  <2>2. Offered' = Offered \ {o} /\ UNCHANGED <<dragOffer, lost>>
    BY <1>1, <1>8 DEF Offered
  <2>3. NoOffer \notin lost
    BY DEF DataAssumption, DataInv, TypeOK
  <2>4. Owned(Offered', dragOffer', selectionOffer', lost', live')
    <3> HIDE DEF o
    <3>1. CASE Has(o, "text")
      <4>1. selectionOffer' = o /\ live' = live \ {selectionOffer} /\ o \in Offered
        BY <1>1, <1>8, <3>1
      <4>2. QED
        BY <1>8, <2>1, <2>2, <2>3, <4>1 DEF Owned
    <3>2. CASE Has(o, "uri")
      <4>1. /\ selectionOffer' = NoOffer /\ live' = (live \ {selectionOffer}) \ {o}
            /\ o \in Offered
        BY <1>1, <1>8, <3>2
      <4>2. QED
        BY <1>8, <2>1, <2>2, <2>3, <4>1 DEF Owned
    <3>3. CASE ~Has(o, "text") /\ ~Has(o, "uri")
      <4>1. selectionOffer' = NoOffer /\ live' = live \ {selectionOffer} /\ o \notin Offered
        BY <1>1, <1>8, <3>3
      <4>2. QED
        BY <1>8, <2>1, <2>2, <2>3, <4>1 DEF Owned
    <3>4. QED
      BY <3>1, <3>2, <3>3
  <2>5. QED
    BY <2>4, OwnedNext
<1>11. TypeOK'
  <2>1. /\ offers' \subseteq [offer : Offer, mime : {"text", "uri"}]
        /\ {dragOffer', selectionOffer'} \subseteq Offer \union {NoOffer}
        /\ live' \subseteq Offer
    BY <1>1, <1>3, <1>5, <1>8 DEF DataInv, TypeOK
  <2>2. QED
    BY <1>1, <1>6, <2>1 DEF DataInv, TypeOK
<1>12. ListedOnce'
  BY <1>1, <1>8 DEF ListedOnce
<1>13. QED
  BY <1>1, <1>6, <1>7, <1>9, <1>10, <1>11, <1>12, NothingRead DEF DataInv

\* What a call of the program leaves when only the selection has changed.
LEMMA ProgramKeeps ==
    ASSUME DataInv, read' = NoRead,
           UNCHANGED <<open, offers, dragOffer, dragFocus, selectionOffer, live, lost,
                       focused, drag, crashed>>,
           selectionSource' \in DataSource \union {NoSource},
           clipboardString' \in Text \union {NoText, PeerText, "empty"},
           ignored' \in BOOLEAN, failures' \in 0..MaxFailures,
           wire' \in Seq(EventType), Len(wire') <= MaxEvents,
           owner' \in {"us", "peer", "nobody"}, peer' \in {"text", "uri"},
           origin' \in [Offer -> {"us", "peer", "drag", "gone"}],
           WireOK(wire', live', Known', origin'), SelectionComes', SelectionHeld',
           OriginIsOwner', SourceIsHeld'
    PROVE  DataInv'
<1>1. TypeOK'
  BY DEF DataInv, TypeOK
<1>2. OffersOwned' /\ LostApart' /\ ListedOnce'
  BY OwnersKept
<1>3. QED
  BY <1>1, <1>2, NothingRead DEF DataInv

LEMMA ClearStep ==
    ASSUME DataAssumption, DataInv, ClearSelection,
           UNCHANGED <<offers, lost, live, focused, selectionOffer>>
    PROVE  /\ wire' \in Seq(EventType) /\ Len(wire') <= MaxEvents
           /\ origin' \in [Offer -> {"us", "peer", "drag", "gone"}]
           /\ owner' \in {"peer", "nobody"} /\ peer' \in {"text", "uri"}
           /\ WireOK(wire', live', Known', origin') /\ SelectionComes' /\ SelectionHeld'
           /\ OriginIsOwner'
<1>1. CASE owner = "us"
  <2>1. Selects("nobody", peer, <<>>) /\ peer \in {"text", "uri"}
    BY <1>1 DEF ClearSelection, DataInv, TypeOK
  <2>2. QED
    BY <2>1, SelectsStep
<1>2. CASE owner # "us"
  <2>1. UNCHANGED <<owner, peer, origin, wire>>
    BY <1>2 DEF ClearSelection
  <2>2. Known' = Known
    BY DEF Known
  <2>3. SelectionComes' /\ SelectionHeld' /\ OriginIsOwner'
    BY <2>1
    DEF DataInv, SelectionComes, TellsSelection, SelectionHeld, HoldsSelection, Carried,
        OriginIsOwner
  <2>4. QED
    BY <1>2, <2>1, <2>2, <2>3 DEF DataInv, TypeOK
<1>3. QED
  BY <1>1, <1>2

LEMMA FreeSource ==
    ASSUME DataInv, NEW s \in FreeSources
    PROVE  s \in DataSource /\ ~Cancels(wire, s)
<1>1. wire \in Seq(EventType)
  BY DEF DataInv, TypeOK
<1>2. \A i \in 1..Len(wire) : wire[i].at # s
  BY <1>1 DEF FreeSources
<1>3. QED
  BY <1>2 DEF FreeSources, Cancels

LEMMA SetClipboardStringStep ==
    ASSUME DataAssumption, DataInv, NEW text \in Text, SetClipboardString(text),
           read' = NoRead
    PROVE  DataInv'
<1>1. /\ clipboardString' = text
      /\ UNCHANGED <<open, offers, dragOffer, dragFocus, selectionOffer, live, lost,
                     focused, drag, crashed>>
  BY DEF SetClipboardString
<1>2. PICK s \in FreeSources :
        /\ selectionSource' = s
        /\ \/ ignored' = FALSE /\ Selects("us", peer, <<>>) /\ UNCHANGED failures
           \/ /\ failures < MaxFailures /\ failures' = failures + 1
              /\ ignored' = TRUE /\ ClearSelection
  BY DEF SetClipboardString
<1>3. s \in DataSource /\ ~Cancels(wire, s) /\ text # NoText
  BY FreeSource DEF DataAssumption
<1>4. /\ selectionSource' \in DataSource \union {NoSource} /\ ignored' \in BOOLEAN
      /\ clipboardString' \in Text \union {NoText, PeerText, "empty"}
      /\ failures' \in 0..MaxFailures
  <2>1. failures \in 0..MaxFailures /\ MaxFailures \in Nat
    BY DEF DataInv, TypeOK, DataAssumption
  <2>2. failures' = failures \/ (failures < MaxFailures /\ failures' = failures + 1)
    BY <1>2
  <2>3. failures' \in 0..MaxFailures
    BY <2>1, <2>2
  <2>4. ignored' \in BOOLEAN
    BY <1>2
  <2>5. selectionSource' \in DataSource \union {NoSource}
    BY <1>2, <1>3
  <2>6. clipboardString' \in Text \union {NoText, PeerText, "empty"}
    BY <1>1
  <2>7. QED
    BY <2>3, <2>4, <2>5, <2>6
<1>5. CASE Selects("us", peer, <<>>)
  <2>1. peer \in {"text", "uri"}
    BY DEF DataInv, TypeOK
  <2>2. /\ wire' \in Seq(EventType) /\ Len(wire') <= MaxEvents
        /\ origin' \in [Offer -> {"us", "peer", "drag", "gone"}]
        /\ owner' = "us" /\ peer' \in {"text", "uri"}
        /\ WireOK(wire', live', Known', origin') /\ SelectionComes' /\ SelectionHeld'
        /\ OriginIsOwner'
        /\ \A x : Cancels(wire', x) <=> Cancels(wire, x)
    BY <1>1, <1>5, <2>1, SelectsStep
  <2>3. SourceIsHeld'
    BY <1>1, <1>2, <1>3, <2>2 DEF SourceIsHeld
  <2>4. QED
    BY <1>1, <1>4, <2>2, <2>3, ProgramKeeps
<1>6. CASE ignored' = TRUE /\ ClearSelection
  <2>1. /\ wire' \in Seq(EventType) /\ Len(wire') <= MaxEvents
        /\ origin' \in [Offer -> {"us", "peer", "drag", "gone"}]
        /\ owner' \in {"peer", "nobody"} /\ peer' \in {"text", "uri"}
        /\ WireOK(wire', live', Known', origin') /\ SelectionComes' /\ SelectionHeld'
        /\ OriginIsOwner'
    BY <1>1, <1>6, ClearStep
  <2>2. SourceIsHeld'
    BY <1>1, <1>3, <1>6, <2>1 DEF SourceIsHeld
  <2>3. QED
    BY <1>1, <1>4, <2>1, <2>2, ProgramKeeps
<1>7. QED
  BY <1>2, <1>5, <1>6

LEMMA FailToSetClipboardStringStep ==
    ASSUME DataAssumption, DataInv, NEW text \in Text, FailToSetClipboardString(text),
           read' = NoRead
    PROVE  DataInv'
<1>1. /\ selectionSource' = NoSource /\ ignored' = FALSE /\ ClearSelection
      /\ clipboardString' \in {clipboardString, text}
      /\ failures < MaxFailures /\ failures' = failures + 1
      /\ UNCHANGED <<open, offers, dragOffer, dragFocus, selectionOffer, live, lost,
                     focused, drag, crashed>>
  BY DEF FailToSetClipboardString
<1>2. /\ clipboardString' \in Text \union {NoText, PeerText, "empty"}
      /\ failures' \in 0..MaxFailures
  BY <1>1 DEF DataInv, TypeOK, DataAssumption
<1>3. /\ wire' \in Seq(EventType) /\ Len(wire') <= MaxEvents
      /\ origin' \in [Offer -> {"us", "peer", "drag", "gone"}]
      /\ owner' \in {"peer", "nobody"} /\ peer' \in {"text", "uri"}
      /\ WireOK(wire', live', Known', origin') /\ SelectionComes' /\ SelectionHeld'
      /\ OriginIsOwner'
  BY <1>1, ClearStep
<1>4. SourceIsHeld'
  BY <1>1, <1>3 DEF SourceIsHeld
<1>5. QED
  BY <1>1, <1>2, <1>3, <1>4, ProgramKeeps

\* The clipboard is read: it is ours, the peer's, or nobody's.
LEMMA GetClipboardStringStep ==
    ASSUME DataAssumption, DataInv, GetClipboardString PROVE DataInv'
<1>1. /\ read' = [quiet |-> /\ wire = <<>> /\ focused /\ ~ignored
                            /\ \A o \in lost : origin[o] \in {"drag", "gone"},
                  itself |-> Got # NoText /\ selectionSource = NoSource
                             /\ origin[selectionOffer] = "us",
                  got |-> Got, want |-> Want]
      /\ clipboardString' = Kept
      /\ UNCHANGED <<open, offers, dragOffer, dragFocus, selectionOffer, selectionSource,
                     live, wire, compositor, history, crashed>>
      /\ UNCHANGED <<owner, peer, focused, drag, origin, lost, ignored, failures>>
  BY DEF GetClipboardString, compositor, history
<1>2. /\ Got \in Text \union {NoText, PeerText, "empty"}
      /\ Kept \in Text \union {NoText, PeerText, "empty"}
      /\ clipboardString # NoText => Kept # NoText
  BY DEF Got, Kept, Received, DataInv, TypeOK
<1>3. ReadsTheSelection'
  <2> SUFFICES ASSUME wire = <<>>, focused, ~ignored,
                      \A o \in lost : origin[o] \in {"drag", "gone"}
               PROVE  Got = Want
    BY <1>1 DEF ReadsTheSelection
  <2>1. NoSelection(wire) /\ \A s : ~Cancels(wire, s)
    <3>1. Len(wire) = 0 /\ \A i \in 1..0 : FALSE
      OBVIOUS
    <3>2. QED
      BY <3>1 DEF NoSelection, Cancels
  <2>2. HoldsSelection
    BY <2>1 DEF DataInv, SelectionHeld
  <2>3. owner \in {"us", "peer", "nobody"} /\ peer \in {"text", "uri"}
    BY DEF DataInv, TypeOK
  <2>4. CASE owner = "nobody"
    BY <2>2, <2>4 DEF HoldsSelection, Got, Want
  <2>5. CASE owner = "us"
    <3>1. selectionSource # NoSource
      BY <2>5 DEF DataInv, SourceIsHeld, DataAssumption
    <3>2. selectionOffer # NoOffer
      BY <2>2, <2>5 DEF HoldsSelection, Carried
    <3>3. QED
      BY <2>5, <3>1, <3>2 DEF Got, Want
  <2>6. CASE owner = "peer"
    <3>1. selectionSource = NoSource
      BY <2>1, <2>6 DEF DataInv, SourceIsHeld
    <3>2. CASE peer = "text"
      <4>1. selectionOffer # NoOffer /\ origin[selectionOffer] = "peer"
        BY <2>2, <2>6, <3>2 DEF HoldsSelection, Carried
      <4>2. QED
        BY <2>6, <3>1, <3>2, <4>1 DEF Got, Want, Received
    <3>3. CASE peer = "uri"
      <4>1. selectionOffer = NoOffer
        BY <2>2, <2>6, <3>3 DEF HoldsSelection, Carried
      <4>2. QED
        BY <2>6, <3>3, <4>1 DEF Got, Want
    <3>4. QED
      BY <2>3, <3>2, <3>3
  <2>7. QED
    BY <2>3, <2>4, <2>5, <2>6
<1>4. NeverReadsItself'
  <2> SUFFICES ASSUME Got # NoText, selectionSource = NoSource, origin[selectionOffer] = "us"
               PROVE  FALSE
    BY <1>1 DEF NeverReadsItself
  <2>1. selectionOffer \in Offer
    BY DEF Got, DataInv, TypeOK
  <2>2. owner = "us"
    BY <2>1 DEF DataInv, OriginIsOwner
  <2>3. QED
    BY <2>2 DEF DataInv, SourceIsHeld, DataAssumption
<1>5. TypeOK'
  BY <1>1, <1>2 DEF DataInv, TypeOK
<1>6. /\ SelectionComes' /\ SelectionHeld' /\ OriginIsOwner'
      /\ WireOK(wire', live', Known', origin')
  BY <1>1
  DEF DataInv, SelectionComes, TellsSelection, SelectionHeld, HoldsSelection, Carried,
      OriginIsOwner, Known
<1>7. SourceIsHeld'
  BY <1>1, <1>2 DEF DataInv, SourceIsHeld
<1>8. OffersOwned' /\ LostApart' /\ ListedOnce'
  BY <1>1, OwnersKept
<1>9. QED
  BY <1>1, <1>3, <1>4, <1>5, <1>6, <1>7, <1>8 DEF DataInv

LEMMA WindowStep ==
    ASSUME DataAssumption, DataInv, NEW w \in Window, DestroyWindow(w) \/ CreateWindow(w),
           read' = NoRead
    PROVE  DataInv'
<1>1. /\ UNCHANGED <<offers, dragOffer, dragFocus, selectionOffer, selectionSource,
                     clipboardString, live, owner, peer, focused, origin, history, crashed>>
      /\ UNCHANGED <<lost, ignored, failures>>
      /\ open' \subseteq Window /\ drag' \in Window \union {"frame", NoWindow}
      /\ \/ Send(<<Event("leave", NoOffer, "none", NoSource)>>)
         \/ wire' = wire
  BY DEF DestroyWindow, CreateWindow, compositor, history, DataInv, TypeOK
<1>2. /\ wire' \in Seq(EventType) /\ Len(wire') <= MaxEvents
      /\ WireOK(wire', live', Known', origin') /\ SelectionComes' /\ SelectionHeld'
      /\ OriginIsOwner' /\ SourceIsHeld'
  <2>1. CASE Send(<<Event("leave", NoOffer, "none", NoSource)>>)
    BY <1>1, <2>1, PlainEvent
  <2>2. CASE wire' = wire
    <3>1. wire \in Seq(EventType) /\ Len(wire) <= MaxEvents /\ Known' = Known
      BY <1>1 DEF DataInv, TypeOK, Known
    <3>2. SelectionComes' /\ SelectionHeld' /\ OriginIsOwner' /\ SourceIsHeld'
      BY <1>1, <2>2
      DEF DataInv, SelectionComes, TellsSelection, SelectionHeld, HoldsSelection, Carried,
          OriginIsOwner, SourceIsHeld
    <3>3. QED
      BY <1>1, <2>2, <3>1, <3>2 DEF DataInv
  <2>3. QED
    BY <1>1, <2>1, <2>2
<1>3. TypeOK'
  BY <1>1, <1>2 DEF DataInv, TypeOK
<1>4. OffersOwned' /\ LostApart' /\ ListedOnce'
  BY <1>1, OwnersKept
<1>5. QED
  BY <1>1, <1>2, <1>3, <1>4, NothingRead DEF DataInv

LEMMA DataNext ==
    ASSUME DataAssumption, DataInv, Next \/ UNCHANGED dataVars PROVE DataInv'
<1>1. CASE UNCHANGED dataVars
  <2>1. /\ UNCHANGED <<open, offers, dragOffer, dragFocus, selectionOffer, selectionSource,
                       clipboardString, live, wire, owner, peer, focused, drag, origin, lost,
                       ignored, read, crashed, failures>>
        /\ Known' = Known
    BY <1>1 DEF dataVars, Known
  <2>2. TypeOK' /\ OffersOwned' /\ LostApart' /\ ListedOnce'
    BY <2>1, OwnersKept DEF DataInv, TypeOK
  <2>3. SelectionComes' /\ SelectionHeld' /\ OriginIsOwner' /\ SourceIsHeld'
    BY <2>1
    DEF DataInv, SelectionComes, TellsSelection, SelectionHeld, HoldsSelection, Carried,
        OriginIsOwner, SourceIsHeld
  <2>4. ReadsTheSelection' /\ NeverReadsItself'
    BY <2>1 DEF DataInv, ReadsTheSelection, NeverReadsItself
  <2>5. QED
    BY <2>1, <2>2, <2>3, <2>4 DEF DataInv
<1>2. CASE GetClipboardString
  BY <1>2, GetClipboardStringStep
<1>3. CASE Next /\ ~GetClipboardString
  <2>1. read' = NoRead
    BY <1>3 DEF Next
  <2>2. \/ PeerSelects \/ PeerIsGone \/ FocusIn \/ FocusOut \/ DragEnter \/ DragEnds \/ PeerReads
        \/ HandleDataOffer \/ HandleEnter \/ HandleLeave \/ HandleDrop
        \/ HandleSelection \/ HandleCancelled \/ HandleSend
        \/ \E t \in Text : SetClipboardString(t) \/ FailToSetClipboardString(t)
        \/ \E w \in Window : DestroyWindow(w) \/ CreateWindow(w)
    BY <1>3 DEF Next
  <2>3. QED
    BY <2>1, <2>2, SelectionsStep, FocusStep, DragsStep, HandleDataOfferStep, HandleDataEnterStep,
       HandleDragStep, HandleSelectionStep, HandleCancelledStep, SetClipboardStringStep,
       FailToSetClipboardStringStep, WindowStep
<1>4. QED
  BY <1>1, <1>2, <1>3

LEMMA DataStart == ASSUME DataAssumption, Init PROVE DataInv
<1>1. wire = <<>> /\ Len(wire) = 0 /\ \A i \in 1..0 : FALSE
  BY DEF Init
<1>2. TypeOK
  <2>1. wire \in Seq(EventType) /\ Len(wire) <= MaxEvents
    BY <1>1 DEF DataAssumption
  <2>2. origin \in [Offer -> {"us", "peer", "drag", "gone"}] /\ failures \in 0..MaxFailures
    BY DEF Init, DataAssumption
  <2>3. QED
    BY <2>1, <2>2 DEF Init, TypeOK
<1>3. WireOK(wire, live, Known, origin)
  BY <1>1 DEF WireOK, OffersUsed, AnnouncedOnce, UsesAnnounced, DragsEnter, SendsAreOurs
<1>4. OffersOwned /\ LostApart /\ ListedOnce
  BY DEF Init, OffersOwned, LostApart, ListedOnce, Listed
<1>5. OriginIsOwner /\ SourceIsHeld /\ SelectionComes /\ SelectionHeld
  BY DEF Init, OriginIsOwner, SourceIsHeld, SelectionComes, SelectionHeld
<1>6. crashed # "send" /\ ReadsTheSelection /\ NeverReadsItself
  BY DEF Init, NoRead, ReadsTheSelection, NeverReadsItself
<1>7. QED
  BY <1>2, <1>3, <1>4, <1>5, <1>6 DEF DataInv

\* Every data offer on Wayland is destroyed once and by one owner, the clipboard
\* that the program reads is the one that is selected, once all events have been
\* dispatched, it never waits for itself, and it never sends a string that is not
\* there (dataDeviceHandleDataOffer and its neighbours,
\* _grwlGetClipboardStringWayland, dataSourceHandleSend).
THEOREM ClipboardIsCurrentAlways == ServicesSpec => []ClipboardIsCurrent
<1> DEFINE Inv == subject = "data" => DataInv
<1>1. ServicesInit => Inv
  BY DataStart, DataAssumption DEF ServicesInit
<1>2. Inv /\ [ServicesNext]_<<subject, dataVars, dropVars, textVars, initVars>> => Inv'
  <2> SUFFICES ASSUME Inv, [ServicesNext]_<<subject, dataVars, dropVars, textVars, initVars>>,
                      subject' = "data"
               PROVE  DataInv'
    OBVIOUS
  <2>1. DataInv /\ (Next \/ UNCHANGED dataVars)
    BY DEF ServicesNext
  <2>2. QED
    BY <2>1, DataNext, DataAssumption
<1>3. Inv => ClipboardIsCurrent
  BY DEF ClipboardIsCurrent, DataInv, CrashesOnlyOfDrags, TypeOK
<1>4. QED
  BY <1>1, <1>2, <1>3, PTL DEF ServicesSpec
================================================================================
