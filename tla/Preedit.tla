-------------------------------- MODULE Preedit --------------------------------
(***************************************************************************)
(* Preedit text: what an input method composes before it commits it, given *)
(* to the application's callback as UTF-32 text, block sizes, the focused  *)
(* block and the caret.  Every platform converts from its own form: UTF-16 *)
(* units and clauses (Imm32), UTF-16 runs (Cocoa), UTF-8 with byte offsets *)
(* (text-input), edits with a feedback per character (XIM).                *)
(*                                                                         *)
(* Code: src/src/win32/win32_window.cpp, src/src/mac/cocoa_window.m,       *)
(* src/src/linux/wl_window.cpp, src/src/linux/x11_window.cpp.              *)
(*                                                                         *)
(* One window.  Characters are told apart by their width; indices start    *)
(* from 0 as in the code, and offsets are those of the platform's form.    *)
(***************************************************************************)
EXTENDS Integers, Sequences, SequencesExt

CONSTANTS
    Platform,     \* the platforms, see PlatformAssumption
    Text,         \* the texts that are composed
    MaxFailures   \* bound on the allocations that fail

PlatformAssumption ==
    /\ Platform \subseteq {"win32", "cocoa", "x11", "v3", "v1"}
    /\ MaxFailures \in Nat
Char == {"latin", "rare"}                     \* one unit and byte; two and four
TextAssumption == Text \subseteq Seq(Char) \ {<<>>}
Units(c) == IF c = "rare" THEN 2 ELSE 1
Bytes(c) == IF c = "rare" THEN 4 ELSE 1

VARIABLES
    platform,
    im,         \* the composition of the input method
    pre,        \* window->preedit: text, blocks, focus, caret
    textRoom, blockRoom,   \* textBufferCount, blockSizesBufferCount
    lost,       \* the text buffer is null and textRoom does not say so
    seen,       \* what the preedit callback was given last
    pending,    \* the events of a text-input state before its done event
    charfun,    \* window->callbacks.character is set, for all of a behaviour
    partial,    \* an edit of XIM did not replace the whole text
    missed,     \* an allocation failed, and its effect lasts
    failures,   \* the allocations that failed
    dead        \* an element outside of a buffer, or a null function, was used

buffers == <<textRoom, blockRoom, lost>>
vars == <<platform, im, pre, buffers, seen, pending, charfun, partial, missed,
          failures, dead>>

Nothing == [text |-> <<>>, blocks |-> <<>>, focus |-> 0, caret |-> 0]

--------------------------------------------------------------------------------
(* Compositions. *)

Total(s) == FoldLeft(LAMBDA n, x : n + x, 0, s)
Width(unit(_), text) == FoldLeft(LAMBDA n, c : n + unit(c), 0, text)
Start(blocks, k) == Total(SubSeq(blocks, 1, k))        \* of block k, from 0

Splits(n) == {b \in UNION {[1..k -> 1..n] : k \in 1..n} : Total(b) = n}

\* What the input method of a platform can describe: XIM and text-input mark
\* one range, which text-input puts the cursor in front of; the caret of Cocoa
\* is at the end.  The first version of text-input has no blocks.
Describes(p, c) ==
    /\ c.focus < Len(c.blocks)
    /\ p \in {"x11", "v3"} => Len(c.blocks) <= 3 /\ (Len(c.blocks) = 3 => c.focus = 1)
    /\ p = "v3" /\ Len(c.blocks) > 1 => c.caret = Start(c.blocks, c.focus)
    /\ p = "v1" => Len(c.blocks) = 1
    /\ p = "cocoa" => c.caret = Len(c.text)

Compositions ==
    [p \in Platform |->
        UNION {{c \in [text : {t}, blocks : Splits(Len(t)), focus : 0..(Len(t) - 1),
                       caret : 0..Len(t)] : Describes(p, c)} : t \in Text}]

--------------------------------------------------------------------------------
(* Buffers double until they hold n elements. *)

\* Fault: the terminator has no room.
GrownShort(room, n) ==
    IF n - 1 <= room THEN room
    ELSE CHOOSE r \in {(IF room = 0 THEN 1 ELSE room) * 2^k : k \in 0..n} :
           r >= n - 1 /\ r \div 2 < n - 1

Grown(room, n) ==
    IF n <= room THEN room
    ELSE CHOOSE r \in {(IF room = 0 THEN 1 ELSE room) * 2^k : k \in 0..n} :
           r >= n /\ r \div 2 < n

MayFail == failures < MaxFailures

\* An allocation fails: the handler returns before it reports.
Fail ==
    /\ MayFail /\ failures' = failures + 1 /\ missed' = TRUE
    /\ UNCHANGED <<seen, pending, charfun, partial>>

\* _grwlInputPreedit
Report(p) == pre' = p /\ seen' = p

Healthy == dead = FALSE

--------------------------------------------------------------------------------
(* Win32: getImmPreedit converts the units one by one. *)

UnitsOf(text) ==
    FlattenSeq([i \in DOMAIN text |->
        IF text[i] = "rare" THEN <<"high", "low">> ELSE <<"unit">>])

\* clauses: where the blocks start, in units, and the length of the text.
Clauses(c) ==
    [k \in 0..Len(c.blocks) |-> Width(Units, SubSeq(c.text, 1, Start(c.blocks, k)))]

\* Fault: a block ends one unit after the next one starts.
ImmSizesLate(c) ==
    LET u == UnitsOf(c.text)
        scan[i \in 0..Len(u)] ==
            IF i = 0 THEN [done |-> <<>>, size |-> 0]
            ELSE LET s == scan[i - 1]
                     ends == Clauses(c)[Len(s.done) + 1] < i - 1
                     one == IF u[i] = "high" THEN 0 ELSE 1
                 IN IF ends THEN [done |-> Append(s.done, s.size), size |-> one]
                            ELSE [s EXCEPT !.size = @ + one]
    IN Append(scan[Len(u)].done, scan[Len(u)].size)

ImmSizes(c) ==
    LET u == UnitsOf(c.text)
        scan[i \in 0..Len(u)] ==
            IF i = 0 THEN [done |-> <<>>, size |-> 0]
            ELSE LET s == scan[i - 1]
                     ends == Clauses(c)[Len(s.done) + 1] <= i - 1
                     one == IF u[i] = "high" THEN 0 ELSE 1
                 IN IF ends THEN [done |-> Append(s.done, s.size), size |-> one]
                            ELSE [s EXCEPT !.size = @ + one]
    IN Append(scan[Len(u)].done, scan[Len(u)].size)

\* cursorPos loses one for each high surrogate in front of it, and is compared
\* with what is left of it.
ImmCaret(c) ==
    LET u == UnitsOf(c.text)
        pos[i \in 0..Len(u)] ==
            IF i = 0 THEN Width(Units, SubSeq(c.text, 1, c.caret))
            ELSE IF u[i] = "high" /\ i - 1 < pos[i - 1] THEN pos[i - 1] - 1
            ELSE pos[i - 1]
    IN pos[Len(u)]

\* WM_IME_COMPOSITION with GCS_COMPSTR.
ImmComposition ==
    /\ Healthy /\ platform = "win32"
    /\ \E c \in Compositions["win32"] :
         LET units == Width(Units, c.text)
             room == Grown(textRoom, units + 1)
             blockRoom2 == Grown(blockRoom, Len(c.blocks))
         IN /\ im' = c
            /\ UNCHANGED <<platform, lost>>
            /\ \/ /\ Report([text |-> c.text, blocks |-> ImmSizes(c),
                             focus |-> c.focus, caret |-> ImmCaret(c)])
                  /\ textRoom' = room /\ blockRoom' = blockRoom2 /\ missed' = FALSE
                  /\ dead' = (Len(c.text) >= room \/ Len(ImmSizes(c)) > blockRoom2)
                  /\ UNCHANGED <<pending, charfun, partial, failures>>
               \/ \* The copies, the text or the blocks find no memory.
                  /\ Fail /\ textRoom' \in {textRoom, room}
                  /\ UNCHANGED <<pre, blockRoom, dead>>

\* WM_IME_ENDCOMPOSITION, also after CPS_CANCEL (_grwlResetPreeditTextWin32).
ImmEndComposition ==
    /\ Healthy /\ platform = "win32" /\ im # Nothing
    /\ im' = Nothing /\ Report(Nothing) /\ missed' = FALSE
    /\ UNCHANGED <<platform, buffers, pending, charfun, partial, failures, dead>>

--------------------------------------------------------------------------------
(* Cocoa: setMarkedText converts the characters one by one. *)

\* The room for blocks is made before a new block is counted.
MarkedScan(c) ==
    LET starts == {Start(c.blocks, k) : k \in 1..(Len(c.blocks) - 1)}
        scan[i \in 0..Len(c.text)] ==
            IF i = 0 THEN [done |-> <<>>, size |-> 0, room |-> blockRoom]
            ELSE LET s == scan[i - 1]
                     room == IF s.room > Len(s.done) THEN s.room
                             ELSE IF s.room = 0 THEN 1 ELSE s.room * 2
                 IN IF i - 1 \in starts
                    THEN [done |-> Append(s.done, s.size), size |-> 1, room |-> room]
                    ELSE [s EXCEPT !.size = @ + 1, !.room = room]
    IN scan[Len(c.text)]

\* The last block is a single character and takes the element after the room.
LastBlockOverruns(c) == Len(c.blocks) > MarkedScan(c).room

SetMarkedText ==
    /\ Healthy /\ platform = "cocoa"
    /\ \E c \in Compositions["cocoa"] :
         LET room == Grown(textRoom, Width(Units, c.text) + 1)
             s == MarkedScan(c)
         IN /\ im' = c
            /\ UNCHANGED <<platform, lost>>
            /\ \/ /\ Report([text |-> c.text, blocks |-> Append(s.done, s.size),
                             focus |-> c.focus, caret |-> Len(c.text)])
                  /\ textRoom' = room /\ blockRoom' = s.room /\ missed' = FALSE
                  /\ dead' = (Len(c.text) >= room \/ LastBlockOverruns(c))
                  /\ UNCHANGED <<pending, charfun, partial, failures>>
               \/ /\ Fail /\ textRoom' \in {textRoom, room}
                  /\ UNCHANGED <<pre, blockRoom, dead>>

\* unmarkText: by the system, by insertText and by _grwlResetPreeditTextCocoa.
UnmarkText ==
    /\ Healthy /\ platform = "cocoa" /\ im # Nothing
    /\ im' = Nothing /\ Report(Nothing) /\ missed' = FALSE
    /\ UNCHANGED <<platform, buffers, pending, charfun, partial, failures, dead>>

--------------------------------------------------------------------------------
(* X11, on the spot: an edit replaces some characters from chg_first on. *)

Highlighted(c, i) ==          \* the feedback of character i of the new text
    Len(c.blocks) > 1 /\ i \in Start(c.blocks, c.focus)..(Start(c.blocks, c.focus + 1) - 1)

\* The blocks made of the first and the last highlighted index, of a text of n.
XimBlocks(marked, n) ==
    LET rstart == CHOOSE i \in marked : \A j \in marked : i <= j
        rend == CHOOSE i \in marked : \A j \in marked : i >= j
        before == IF rstart = 0 THEN <<>> ELSE <<rstart>>
        after == IF rend = n - 1 THEN <<>> ELSE <<n - rend - 1>>
    IN IF marked = {} THEN [blocks |-> <<n>>, focus |-> 0]
       ELSE [blocks |-> before \o <<rend - rstart + 1>> \o after, focus |-> Len(before)]

\* What is between the indices of the new text that are written is left over.
PreeditDraw ==
    /\ Healthy /\ platform = "x11"
    /\ \E c \in Compositions["x11"], first \in 0..Len(im.text),
          length \in 0..Len(im.text) :
         LET tail == Len(im.text) - first - length
             new == SubSeq(c.text, first + 1, Len(c.text) - tail)
             count == Len(pre.text) + Len(new) - length
             room == Grown(textRoom, count + 1)
             written == first..(Len(new) - 1)
             b == XimBlocks({i \in written : Highlighted(c, first + i)}, count)
         IN /\ tail >= 0 /\ Len(c.text) - tail > first
            /\ SubSeq(c.text, 1, first) = SubSeq(im.text, 1, first)
            /\ SubSeq(c.text, Len(c.text) - tail + 1, Len(c.text))
                 = SubSeq(im.text, first + length + 1, Len(im.text))
            /\ im' = c
            /\ UNCHANGED <<platform, lost>>
            /\ \/ /\ Report([text |-> [i \in 1..count |->
                                IF i - 1 \in written THEN new[i - first]
                                ELSE IF i \in DOMAIN pre.text THEN pre.text[i] ELSE "left"],
                             blocks |-> b.blocks, focus |-> b.focus, caret |-> c.caret])
                  /\ textRoom' = room /\ blockRoom' = 4
                  /\ partial' = ~(first = 0 /\ tail = 0)
                  /\ dead' = (count \notin 0..(room - 1) \/ Len(new) > room)
                  /\ UNCHANGED <<pending, charfun, missed, failures>>
               \/ /\ Fail /\ UNCHANGED <<pre, textRoom, blockRoom, dead>>
               \/ \* The block sizes find no memory, and are written to.
                  /\ blockRoom = 0 /\ Fail /\ dead' = TRUE
                  /\ textRoom' = room /\ UNCHANGED <<pre, blockRoom>>

\* A draw without text, and _grwlResetPreeditTextX11.
PreeditClear ==
    /\ Healthy /\ platform = "x11" /\ im # Nothing
    /\ im' = Nothing /\ Report(Nothing) /\ partial' = FALSE /\ missed' = FALSE
    /\ UNCHANGED <<platform, buffers, pending, charfun, failures, dead>>

--------------------------------------------------------------------------------
(* Wayland: textInputV3PreeditString decodes UTF-8. *)

\* The character after which the text is n bytes long, 0 when there is none.
CharsAt(text, n) ==
    LET at == {i \in DOMAIN text : Width(Bytes, SubSeq(text, 1, i)) = n}
    IN IF at = {} THEN 0 ELSE CHOOSE i \in at : TRUE

\* The preedit of a text with the cursor from byte begin to byte end.  The
\* length of the cursor is characters less bytes; it wraps, and its block is
\* the int of the same bits.
Decoded(text, begin, end) ==
    LET n == Len(text)
        pos == CharsAt(text, begin)
        long == IF begin # end /\ CharsAt(text, end) # 0
                THEN CharsAt(text, end) - begin ELSE 0
        before == IF long # 0 /\ pos # 0 THEN <<pos>> ELSE <<>>
        after == IF long # 0 /\ pos + long # n THEN <<n - pos - long>> ELSE <<>>
    IN IF text = <<>> THEN Nothing
       ELSE [text |-> text, focus |-> Len(before), caret |-> pos,
             blocks |-> before \o <<IF long # 0 THEN long ELSE n>> \o after]

\* The rooms that the text buffer has while text is stored in it.
Stages(text) ==
    {r \in {textRoom} \union {2^k : k \in 1..Len(text)} :
       textRoom <= r /\ r <= Len(text)}

\* textInputV3PreeditString.  When the text finds no memory the buffer it had
\* is gone, and textBufferCount stays.
Decode(text, begin, end) ==
    \/ /\ pre' = Decoded(text, begin, end)
       /\ textRoom' = IF text = <<>> THEN textRoom ELSE Grown(textRoom, Len(text) + 1)
       /\ blockRoom' = IF text = <<>> THEN blockRoom ELSE 3
       /\ dead' = (text # <<>> /\ (lost \/ Len(text) >= textRoom'))
       /\ UNCHANGED <<lost, missed, failures>>
    \/ /\ MayFail /\ failures' = failures + 1 /\ missed' = TRUE
       /\ ~lost /\ UNCHANGED <<blockRoom, dead>>
       /\ \/ \E r \in Stages(text) :
               /\ textRoom' = r /\ lost' = (r > 0)
               /\ pre' = [Nothing EXCEPT !.text =
                            [i \in 1..(IF r = 0 THEN 1 ELSE r) |-> "left"]]
          \/ /\ text # <<>> /\ blockRoom = 0
             /\ textRoom' = Grown(textRoom, Len(text) + 1) /\ lost' = lost
             /\ pre' = [Decoded(text, begin, end) EXCEPT !.blocks = <<>>, !.focus = 0]

\* The third version tells the application at the done event.  The range of
\* the cursor is the focused block.
PreeditStringV3 ==
    /\ Healthy /\ platform = "v3" /\ ~pending
    /\ \E c \in Compositions["v3"] \union {Nothing} :
         LET at(k) == Width(Bytes, SubSeq(c.text, 1, k))
             ranged == Len(c.blocks) > 1
         IN /\ im' = c /\ pending' = TRUE
            /\ Decode(c.text, at(c.caret),
                      IF ranged THEN at(Start(c.blocks, c.focus + 1)) ELSE at(c.caret))
    /\ UNCHANGED <<platform, seen, charfun, partial>>

Done ==
    /\ Healthy /\ platform = "v3" /\ pending
    /\ seen' = pre /\ pending' = FALSE
    /\ UNCHANGED <<platform, im, pre, buffers, charfun, partial, missed, failures, dead>>

\* textInputV3Leave; and, on the first version, a commit resets the preedit.
ResetPreedit ==
    /\ Healthy /\ platform \in {"v1", "v3"}
    /\ im' = Nothing /\ Report(Nothing) /\ pending' = FALSE
    /\ UNCHANGED <<platform, buffers, charfun, partial, missed, failures, dead>>

\* textInputV1PreeditString passes no cursor, and tells the application.
PreeditStringV1 ==
    /\ Healthy /\ platform = "v1"
    /\ \E c \in Compositions["v1"] : im' = c /\ Decode(c.text, 0, 0)
    /\ seen' = pre'
    /\ UNCHANGED <<platform, pending, charfun, partial>>

\* textInputV1PreeditCursor counts the characters up to byte index.
PreeditCursorV1 ==
    /\ Healthy /\ platform = "v1"
    /\ \E k \in 1..Len(im.text) :
         pre' = [pre EXCEPT !.caret = IF Len(pre.text) = 0 THEN 0 ELSE k]
    /\ UNCHANGED <<platform, im, buffers, seen, pending, charfun, partial, missed,
                   failures, dead>>

--------------------------------------------------------------------------------
(* Committed text. *)

\* A commit gives each character to the callback: commitImmResultStr and
\* _grwlInputChar test that there is one, textInputV3CommitString does not.
CommitString ==
    /\ Healthy /\ platform \in {"win32", "cocoa", "v1", "v3"} /\ im # Nothing
    /\ dead' = (~charfun /\ platform \in {"v1", "v3"})
    /\ IF platform = "v3"
       THEN UNCHANGED <<im, pre, seen>>
       ELSE im' = Nothing /\ Report(Nothing)
    /\ missed' = (missed /\ platform \in {"v1", "v3"})
    /\ UNCHANGED <<platform, buffers, pending, charfun, partial, failures>>

--------------------------------------------------------------------------------

Init ==
    /\ platform \in Platform
    /\ im = Nothing /\ pre = Nothing /\ seen = Nothing
    /\ textRoom = 0 /\ blockRoom = 0 /\ lost = FALSE
    /\ pending = FALSE /\ partial = FALSE /\ missed = FALSE
    /\ failures = 0 /\ dead = FALSE
    /\ charfun \in (IF platform \in {"v1", "v3"} THEN BOOLEAN ELSE {TRUE})

Next ==
    \/ ImmComposition \/ ImmEndComposition
    \/ SetMarkedText \/ UnmarkText
    \/ PreeditDraw \/ PreeditClear
    \/ PreeditStringV3 \/ Done \/ ResetPreedit
    \/ PreeditStringV1 \/ PreeditCursorV1
    \/ CommitString

Spec == Init /\ [][Next]_vars

--------------------------------------------------------------------------------

TypeOK ==
    /\ platform \in Platform /\ im \in Compositions[platform] \union {Nothing}
    /\ {pre, seen} \subseteq [text : Seq(Char \union {"left"}), blocks : Seq(Int),
                              focus : Nat, caret : Nat]
    /\ textRoom \in Nat /\ blockRoom \in Nat /\ failures \in 0..MaxFailures
    /\ {lost, pending, charfun, partial, missed, dead} \subseteq BOOLEAN

\* Where the code is known to go wrong: three characters of two units are in
\* front of the caret of Imm32; characters of several bytes are in front of the
\* focused block of text-input, whose first version has no caret.
KnownWrong ==
    \/ platform = "win32" /\ Len(SelectSeq(SubSeq(im.text, 1, im.caret),
                                           LAMBDA c : c = "rare")) > 2
    \/ platform = "v3" /\ Len(im.blocks) > 1
         /\ \E i \in 1..Start(im.blocks, im.focus) : im.text[i] = "rare"

Settled == ~pending /\ ~missed /\ ~dead

\* What the application was told last is what the input method composes: the
\* text, the sizes of its blocks, the focused one and the caret, through every
\* conversion and whatever came before.
PreeditIsTold ==
    Settled /\ ~partial /\ ~KnownWrong =>
        /\ seen.text = im.text /\ seen.blocks = im.blocks /\ seen.focus = im.focus
        /\ platform # "v1" => seen.caret = im.caret

\* Every write is within its buffer and every function called is there, except
\* for what the code is known to do: a last block of one character (Cocoa), a
\* commit without callback (Wayland), and memory that could not be had.
DiesOnlyAsKnown ==
    dead => \/ platform = "cocoa" /\ LastBlockOverruns(im)
            \/ platform \in {"v1", "v3"} /\ (~charfun \/ failures > 0)
            \/ platform = "x11" /\ failures > 0
================================================================================
