--------------------------- MODULE Contexts_proof ---------------------------
(***************************************************************************)
(* Contexts keeps its promises for any number of threads, windows, user    *)
(* contexts and native APIs.                                               *)
(***************************************************************************)
EXTENDS Contexts, TLAPS

\* The contexts a thread reports or has in hand in a call.
Claims(t) ==
    {contextSlot[t], usercontextSlot[t], call[t].ctx, call[t].back} \ {NoContext}

(***************************************************************************)
(* The strengthening.  A context is claimed by at most one thread and      *)
(* exists while it is, so that a bind never takes a context from another   *)
(* thread and a destruction never takes one that is reported.              *)
(***************************************************************************)
ClaimsLive == \A t \in Thread : Claims(t) \subseteq live

ClaimsDisjoint ==
    \A t, o \in Thread : t # o => Claims(t) \intersect Claims(o) = {}

\* What a thread has done before each step of a call.
CallShape(t) ==
    /\ call[t].step = "idle" => call[t] = Idle
    /\ call[t].step # "idle" => call[t].ctx \in Context
    /\ call[t].step \in {"refresh", "probe", "restore", "rebind"} =>
         call[t].ctx \in Window
    /\ call[t].step = "rebind" => call[t].back \in Window
    /\ call[t].step \in {"bind", "probe", "restore", "rebind"} =>
         usercontextSlot[t] = NoContext
    /\ call[t].step = "bind" /\ call[t].ctx \in UserContext =>
         contextSlot[t] = NoContext
    /\ call[t].step = "destroy" =>
         call[t].ctx \notin {contextSlot[t], usercontextSlot[t]}

SlotShape(t) ==
    /\ \A c \in {contextSlot[t], usercontextSlot[t]} \ {NoContext} :
         native[t][source[c]] = c
    /\ NoContext \in {contextSlot[t], usercontextSlot[t]}

IInv ==
    /\ TypeOK
    /\ ClaimsLive
    /\ ClaimsDisjoint
    /\ \A t \in Thread : SlotShape(t) /\ CallShape(t)

-----------------------------------------------------------------------------
\* A step of one thread that creates and destroys nothing.
OthersSame(t) ==
    \A o \in Thread \ {t} :
        /\ contextSlot'[o] = contextSlot[o]
        /\ usercontextSlot'[o] = usercontextSlot[o]
        /\ native'[o] = native[o]
        /\ call'[o] = call[o]

\* A context no thread but t claims.
Unclaimed(t, c) == c \in live /\ \A o \in Thread \ {t} : c \notin Claims(o)

(***************************************************************************)
(* A step of thread t preserves IInv when it leaves the other threads      *)
(* alone, leaves t in shape, and what t claims afterwards it claimed       *)
(* before, or nobody else does.                                            *)
(***************************************************************************)
LEMMA ThreadStep ==
    ASSUME IInv, NEW t \in Thread, TypeOK', UNCHANGED objects, OthersSame(t),
           SlotShape(t)', CallShape(t)',
           \A c \in Claims(t)' : c \in Claims(t) \/ Unclaimed(t, c)
    PROVE  IInv'
<1>1. \A o \in Thread \ {t} : Claims(o)' = Claims(o)
  BY DEF OthersSame, Claims
<1>2. ClaimsLive'
  <2>1. Claims(t)' \subseteq live'
    BY DEF IInv, ClaimsLive, Unclaimed, objects
  <2>2. QED
    BY <1>1, <2>1 DEF IInv, ClaimsLive, objects
<1>3. ClaimsDisjoint'
  <2>1. \A o \in Thread \ {t} : Claims(t)' \intersect Claims(o)' = {}
    BY <1>1 DEF IInv, ClaimsDisjoint, Unclaimed
  <2>2. \A o, p \in Thread \ {t} : o # p => Claims(o)' \intersect Claims(p)' = {}
    BY <1>1 DEF IInv, ClaimsDisjoint
  <2>3. QED
    BY <2>1, <2>2 DEF ClaimsDisjoint
<1>4. \A o \in Thread : SlotShape(o)' /\ CallShape(o)'
  <2>1. ASSUME NEW o \in Thread \ {t} PROVE SlotShape(o)' /\ CallShape(o)'
    <3>1. SlotShape(o) /\ CallShape(o)
      BY DEF IInv
    <3>2. SlotShape(o)'
      BY <3>1 DEF SlotShape, OthersSame, objects
    <3>3. CallShape(o)'
      BY <3>1 DEF CallShape, OthersSame
    <3>4. QED
      BY <3>2, <3>3
  <2>2. QED
    BY <2>1
<1>5. QED
  BY <1>2, <1>3, <1>4 DEF IInv

-----------------------------------------------------------------------------
(* The two halves of a call *)

\* What Clear and TryBind leave of a thread's slots.
SlotTypes ==
    /\ contextSlot \in [Thread -> Window \union {NoContext}]
    /\ usercontextSlot \in [Thread -> UserContext \union {NoContext}]
    /\ native \in [Thread -> [Source -> Context \union {NoContext}]]

SlotsElsewhereSame(t) ==
    \A o \in Thread \ {t} :
        /\ contextSlot'[o] = contextSlot[o]
        /\ usercontextSlot'[o] = usercontextSlot[o]
        /\ native'[o] = native[o]

LEMMA ClearEffect ==
    ASSUME IInv, NEW t \in Thread, NEW s, Clear(t, s), UNCHANGED objects
    PROVE  /\ SlotTypes'
           /\ SlotsElsewhereSame(t)
           /\ SlotShape(t)'
           /\ usercontextSlot'[t] = NoContext
           /\ contextSlot'[t] \in {contextSlot[t], NoContext}
           /\ s = NoSource => contextSlot'[t] = NoContext
<1> DEFINE previous == contextSlot[t]
<1>1. /\ contextSlot \in [Thread -> Window \union {NoContext}]
      /\ usercontextSlot \in [Thread -> UserContext \union {NoContext}]
      /\ native \in [Thread -> [Source -> Context \union {NoContext}]]
      /\ source \in [Context -> Source]
  BY DEF IInv, TypeOK
<1>2. /\ usercontextSlot' \in [Thread -> UserContext \union {NoContext}]
      /\ usercontextSlot'[t] = NoContext
      /\ \A o \in Thread \ {t} : usercontextSlot'[o] = usercontextSlot[o]
  BY <1>1 DEF Clear
<1>3. previous # NoContext => source[previous] \in Source /\ native[t][source[previous]] = previous
  BY <1>1 DEF IInv, SlotShape, Context
<1>4. CASE previous # NoContext /\ source[previous] # s
  <2>1. /\ native' = [native EXCEPT ![t][source[previous]] = NoContext]
        /\ contextSlot' = [contextSlot EXCEPT ![t] = NoContext]
    BY <1>4 DEF Clear
  <2>2. native' \in [Thread -> [Source -> Context \union {NoContext}]]
    BY <1>1, <1>3, <1>4, <2>1
  <2>3. contextSlot' \in [Thread -> Window \union {NoContext}]
        /\ contextSlot'[t] = NoContext
    BY <1>1, <2>1
  <2>4. \A o \in Thread \ {t} : contextSlot'[o] = contextSlot[o] /\ native'[o] = native[o]
    BY <1>1, <2>1
  <2>5. QED
    BY <1>2, <2>2, <2>3, <2>4 DEF SlotTypes, SlotsElsewhereSame, SlotShape
<1>5. CASE ~(previous # NoContext /\ source[previous] # s)
  <2>1. UNCHANGED <<native, contextSlot>>
    BY <1>5 DEF Clear
  <2>2. s = NoSource => contextSlot[t] = NoContext
    BY <1>3, <1>5, SourceAssumption
  <2>3. SlotShape(t)'
    BY <1>2, <1>3, <2>1 DEF SlotShape, objects
  <2>4. QED
    BY <1>1, <1>2, <2>1, <2>2, <2>3 DEF SlotTypes, SlotsElsewhereSame
<1>6. QED
  BY <1>4, <1>5

LEMMA BindEffect ==
    ASSUME IInv, NEW t \in Thread, NEW c \in Context, TryBind(t, c),
           UNCHANGED objects, usercontextSlot[t] = NoContext,
           c \in UserContext => contextSlot[t] = NoContext
    PROVE  /\ SlotTypes'
           /\ SlotsElsewhereSame(t)
           /\ SlotShape(t)'
           /\ contextSlot'[t] \in {contextSlot[t], c}
           /\ usercontextSlot'[t] \in {NoContext, c}
           /\ c \in Window => usercontextSlot'[t] = NoContext
<1>1. /\ contextSlot \in [Thread -> Window \union {NoContext}]
      /\ usercontextSlot \in [Thread -> UserContext \union {NoContext}]
      /\ native \in [Thread -> [Source -> Context \union {NoContext}]]
      /\ source \in [Context -> Source]
      /\ SlotShape(t)
  BY DEF IInv, TypeOK
<1>2. CASE Bind(t, c)
  <2>1. native' = [native EXCEPT ![t][source[c]] = c]
    BY <1>2 DEF Bind
  <2>2. /\ native' \in [Thread -> [Source -> Context \union {NoContext}]]
        /\ native'[t][source[c]] = c
        /\ \A o \in Thread \ {t} : native'[o] = native[o]
    BY <1>1, <2>1
  <2>3. CASE c \in Window
    <3>1. /\ contextSlot' = [contextSlot EXCEPT ![t] = c]
          /\ UNCHANGED usercontextSlot
      BY <1>2, <2>3 DEF Bind
    <3>2. QED
      BY <1>1, <2>2, <2>3, <3>1
         DEF SlotTypes, SlotsElsewhereSame, SlotShape, objects
  <2>4. CASE c \notin Window
    <3>1. /\ usercontextSlot' = [usercontextSlot EXCEPT ![t] = c]
          /\ UNCHANGED contextSlot
      BY <1>2, <2>4 DEF Bind
    <3>2. c \in UserContext /\ contextSlot[t] = NoContext
      BY <2>4 DEF Context
    <3>3. QED
      BY <1>1, <2>2, <2>4, <3>1, <3>2
         DEF SlotTypes, SlotsElsewhereSame, SlotShape, objects
  <2>5. QED
    BY <2>3, <2>4
<1>3. CASE BindFails(t, c)
  <2>1. /\ UNCHANGED <<native, contextSlot>>
        /\ usercontextSlot' = [usercontextSlot EXCEPT ![t] = NoContext]
    BY <1>1, <1>3 DEF BindFails
  <2>2. QED
    BY <1>1, <2>1 DEF SlotTypes, SlotsElsewhereSame, SlotShape, objects
<1>4. QED
  BY <1>2, <1>3 DEF TryBind

-----------------------------------------------------------------------------
(* The actions *)

\* The form in which the actions of a thread use the lemmas above.
LEMMA CallStep ==
    ASSUME IInv, NEW t \in Thread, NEW k \in CallType, UNCHANGED objects,
           call' = [call EXCEPT ![t] = k],
           SlotTypes', SlotsElsewhereSame(t), SlotShape(t)', CallShape(t)',
           \A c \in Claims(t)' : c \in Claims(t) \/ Unclaimed(t, c)
    PROVE  IInv'
<1>1. TypeOK'
  BY DEF IInv, TypeOK, SlotTypes, objects
<1>2. OthersSame(t)
  BY DEF IInv, TypeOK, OthersSame, SlotsElsewhereSame
<1>3. QED
  BY <1>1, <1>2, ThreadStep

LEMMA IdleShape ==
    ASSUME NEW t \in Thread, call[t] = Idle
    PROVE  CallShape(t)
BY DEF CallShape, Idle, Call

LEMMA CallTypes ==
    /\ Idle \in CallType
    /\ \A c \in Context : Call("bind", c) \in CallType
                          /\ Call("destroy", c) \in CallType
BY DEF Idle, Call, CallType, Step

LEMMA UsableUnclaimed ==
    ASSUME NEW t \in Thread, NEW c \in Context, Usable(t, c)
    PROVE  Unclaimed(t, c)
BY DEF Usable, NotInUseElsewhere, Unclaimed, Claims

\* grwlMakeContextCurrent and grwlMakeUserContextCurrent up to the bind
LEMMA BeginBind ==
    ASSUME IInv, NEW t \in Thread, NEW c \in Context, NEW s, Usable(t, c),
           c \in UserContext => s = NoSource, Clear(t, s), UNCHANGED objects,
           call' = [call EXCEPT ![t] = Call("bind", c)]
    PROVE  IInv'
<1>1. /\ SlotTypes' /\ SlotsElsewhereSame(t) /\ SlotShape(t)'
      /\ usercontextSlot'[t] = NoContext
      /\ contextSlot'[t] \in {contextSlot[t], NoContext}
      /\ s = NoSource => contextSlot'[t] = NoContext
  BY ClearEffect
<1>2. call'[t] = Call("bind", c)
  BY DEF IInv, TypeOK
<1>3. CallShape(t)'
  BY <1>1, <1>2 DEF CallShape, Call
<1>4. \A d \in Claims(t)' : d \in Claims(t) \/ Unclaimed(t, d)
  BY <1>1, <1>2, UsableUnclaimed DEF Claims, Call
<1>5. QED
  BY <1>1, <1>3, <1>4, CallStep, CallTypes

LEMMA MakeContextCurrentStep ==
    ASSUME IInv, NEW t \in Thread, NEW w \in Window, MakeContextCurrent(t, w)
    PROVE  IInv'
BY BeginBind, ContextAssumption DEF MakeContextCurrent, Context

LEMMA MakeUserContextCurrentStep ==
    ASSUME IInv, NEW t \in Thread, NEW u \in UserContext,
           MakeUserContextCurrent(t, u)
    PROVE  IInv'
BY BeginBind DEF MakeUserContextCurrent, Context

LEMMA DetachContextStep ==
    ASSUME IInv, NEW t \in Thread, DetachContext(t)
    PROVE  IInv'
<1>1. /\ SlotTypes' /\ SlotsElsewhereSame(t) /\ SlotShape(t)'
      /\ usercontextSlot'[t] = NoContext
      /\ contextSlot'[t] \in {contextSlot[t], NoContext}
  BY ClearEffect DEF DetachContext
<1>2. /\ UNCHANGED objects
      /\ call[t] = Idle
      /\ call'[t] = Idle
      /\ call' = [call EXCEPT ![t] = Idle]
  BY DEF DetachContext, IInv, TypeOK
<1>3. \A c \in Claims(t)' : c \in Claims(t)
  BY <1>1, <1>2 DEF Claims
<1>4. CallShape(t)'
  BY <1>2 DEF CallShape, Idle, Call
<1>5. QED
  BY <1>1, <1>2, <1>3, <1>4, CallStep, CallTypes

LEMMA MakeNoContextCurrentStep ==
    ASSUME IInv, NEW t \in Thread, MakeNoContextCurrent(t)
    PROVE  IInv'
<1>1. /\ UNCHANGED <<objects, contextSlot, native, call>>
      /\ call[t] = Idle
      /\ call' = [call EXCEPT ![t] = Idle]
      /\ usercontextSlot' = [usercontextSlot EXCEPT ![t] = NoContext]
  BY DEF MakeNoContextCurrent, IInv, TypeOK
<1>2. SlotTypes' /\ SlotsElsewhereSame(t) /\ SlotShape(t)'
  BY <1>1 DEF IInv, TypeOK, SlotTypes, SlotsElsewhereSame, SlotShape, objects
<1>3. \A c \in Claims(t)' : c \in Claims(t)
  BY <1>1 DEF Claims, IInv, TypeOK
<1>4. CallShape(t)'
  BY <1>1 DEF CallShape, Idle, Call
<1>5. QED
  BY <1>1, <1>2, <1>3, <1>4, CallStep, CallTypes

LEMMA FinishBindStep ==
    ASSUME IInv, NEW t \in Thread, FinishBind(t)
    PROVE  IInv'
<1> DEFINE c == call[t].ctx
<1>1. /\ c \in Context
      /\ usercontextSlot[t] = NoContext
      /\ c \in UserContext => contextSlot[t] = NoContext
  BY DEF IInv, CallShape, FinishBind
<1>2. /\ SlotTypes' /\ SlotsElsewhereSame(t) /\ SlotShape(t)'
      /\ contextSlot'[t] \in {contextSlot[t], c}
      /\ usercontextSlot'[t] \in {NoContext, c}
  BY <1>1, BindEffect DEF FinishBind
<1>3. call' = [call EXCEPT ![t] = Idle] /\ call'[t] = Idle /\ UNCHANGED objects
  BY DEF FinishBind, IInv, TypeOK
<1>4. \A d \in Claims(t)' : d \in Claims(t)
  BY <1>2, <1>3 DEF Claims, Idle, Call
<1>5. CallShape(t)'
  BY <1>3 DEF CallShape, Idle, Call
<1>6. QED
  BY <1>2, <1>3, <1>4, <1>5, CallStep, CallTypes

LEMMA RefreshStep ==
    ASSUME IInv, NEW t \in Thread, Refresh(t)
    PROVE  IInv'
<1> DEFINE k == [call[t] EXCEPT !.step = "probe"]
<1>1. /\ call[t] \in CallType
      /\ call[t].step = "refresh"
      /\ call[t].ctx \in Window
      /\ UNCHANGED objects
      /\ call' = [call EXCEPT ![t] = k]
      /\ call'[t] = k
  BY DEF IInv, TypeOK, CallShape, Refresh
<1>2. k \in CallType
  BY <1>1 DEF CallType, Step
<1>3. /\ SlotTypes' /\ SlotsElsewhereSame(t) /\ SlotShape(t)'
      /\ usercontextSlot'[t] = NoContext
      /\ contextSlot'[t] \in {contextSlot[t], NoContext}
  BY <1>1, ClearEffect DEF Refresh
<1>4. \A c \in Claims(t)' : c \in Claims(t)
  BY <1>1, <1>3 DEF Claims, CallType
<1>5. CallShape(t)'
  BY <1>1, <1>3 DEF CallShape, CallType, Context
<1>6. QED
  BY <1>1, <1>2, <1>3, <1>4, <1>5, CallStep

LEMMA ProbeStep ==
    ASSUME IInv, NEW t \in Thread, Probe(t)
    PROVE  IInv'
<1> DEFINE c == call[t].ctx
           k == [call[t] EXCEPT !.step = "restore"]
<1>1. /\ call[t] \in CallType
      /\ call[t].step = "probe"
      /\ c \in Window /\ c \in Context /\ c \notin UserContext
      /\ usercontextSlot[t] = NoContext
      /\ UNCHANGED objects
      /\ call' = [call EXCEPT ![t] = k]
      /\ call'[t] = k
  BY ContextAssumption DEF IInv, TypeOK, CallShape, Probe, Context
<1>2. k \in CallType
  BY <1>1 DEF CallType, Step
<1>3. /\ SlotTypes' /\ SlotsElsewhereSame(t) /\ SlotShape(t)'
      /\ contextSlot'[t] \in {contextSlot[t], c}
      /\ usercontextSlot'[t] = NoContext
  BY <1>1, BindEffect DEF Probe
<1>4. \A d \in Claims(t)' : d \in Claims(t)
  BY <1>1, <1>3 DEF Claims, CallType
<1>5. CallShape(t)'
  BY <1>1, <1>3 DEF CallShape, CallType
<1>6. QED
  BY <1>1, <1>2, <1>3, <1>4, <1>5, CallStep

LEMMA RestoreStep ==
    ASSUME IInv, NEW t \in Thread, Restore(t)
    PROVE  IInv'
<1> DEFINE back == call[t].back
           k == IF back = NoContext THEN Idle
                                    ELSE [call[t] EXCEPT !.step = "rebind"]
<1>1. /\ call[t] \in CallType
      /\ call[t].step = "restore"
      /\ call[t].ctx \in Window
      /\ UNCHANGED objects
      /\ call' = [call EXCEPT ![t] = k]
      /\ call'[t] = k
  BY DEF IInv, TypeOK, CallShape, Restore
<1>2. k \in CallType
  BY <1>1, CallTypes DEF CallType, Step
<1>3. /\ SlotTypes' /\ SlotsElsewhereSame(t) /\ SlotShape(t)'
      /\ usercontextSlot'[t] = NoContext
      /\ contextSlot'[t] \in {contextSlot[t], NoContext}
  BY <1>1, ClearEffect DEF Restore
<1>4. \A c \in Claims(t)' : c \in Claims(t)
  BY <1>1, <1>3 DEF Claims, CallType, Idle, Call
<1>5. CallShape(t)'
  BY <1>1, <1>3 DEF CallShape, CallType, Context, Idle, Call
<1>6. QED
  BY <1>1, <1>2, <1>3, <1>4, <1>5, CallStep

LEMMA RebindStep ==
    ASSUME IInv, NEW t \in Thread, Rebind(t)
    PROVE  IInv'
<1> DEFINE c == call[t].back
<1>1. /\ c \in Window /\ c \in Context /\ c \notin UserContext
      /\ usercontextSlot[t] = NoContext
      /\ UNCHANGED objects
      /\ call' = [call EXCEPT ![t] = Idle]
      /\ call'[t] = Idle
  BY ContextAssumption DEF IInv, TypeOK, CallShape, Rebind, Context
<1>2. /\ SlotTypes' /\ SlotsElsewhereSame(t) /\ SlotShape(t)'
      /\ contextSlot'[t] \in {contextSlot[t], c}
      /\ usercontextSlot'[t] = NoContext
  BY <1>1, BindEffect DEF Rebind
<1>3. \A d \in Claims(t)' : d \in Claims(t)
  BY <1>1, <1>2 DEF Claims, Idle, Call
<1>4. CallShape(t)'
  BY <1>1 DEF CallShape, Idle, Call
<1>5. QED
  BY <1>1, <1>2, <1>3, <1>4, CallStep, CallTypes

\* grwlDestroyWindow and grwlDestroyUserContext up to the back end's part
LEMMA BeginDestroy ==
    ASSUME IInv, NEW c \in Context, Usable(Main, c), UNCHANGED objects,
           call' = [call EXCEPT ![Main] = Call("destroy", c)],
           IF c \in {contextSlot[Main], usercontextSlot[Main]}
             THEN Clear(Main, NoSource)
             ELSE UNCHANGED <<slots, native>>
    PROVE  IInv'
<1>1. Main \in Thread /\ NoContext # c
  BY ThreadAssumption, ContextAssumption DEF Context
<1>2. /\ SlotTypes' /\ SlotsElsewhereSame(Main) /\ SlotShape(Main)'
      /\ usercontextSlot'[Main] \in {usercontextSlot[Main], NoContext}
      /\ contextSlot'[Main] \in {contextSlot[Main], NoContext}
      /\ c \notin {contextSlot'[Main], usercontextSlot'[Main]}
  <2>1. CASE c \in {contextSlot[Main], usercontextSlot[Main]}
    <3>1. Clear(Main, NoSource)
      BY <2>1
    <3>2. /\ SlotTypes' /\ SlotsElsewhereSame(Main) /\ SlotShape(Main)'
          /\ usercontextSlot'[Main] = NoContext
          /\ contextSlot'[Main] = NoContext
      BY <1>1, <3>1, ClearEffect
    <3>3. QED
      BY <1>1, <3>2
  <2>2. CASE c \notin {contextSlot[Main], usercontextSlot[Main]}
    <3>1. UNCHANGED <<slots, native>>
      BY <2>2
    <3>2. SlotShape(Main)
      BY <1>1 DEF IInv
    <3>3. QED
      BY <2>2, <3>1, <3>2
         DEF IInv, TypeOK, SlotTypes, SlotsElsewhereSame, SlotShape, objects, slots
  <2>3. QED
    BY <2>1, <2>2
<1>3. call'[Main] = Call("destroy", c)
  BY <1>1 DEF IInv, TypeOK
<1>4. \A d \in Claims(Main)' : d \in Claims(Main) \/ Unclaimed(Main, d)
  BY <1>1, <1>2, <1>3, UsableUnclaimed DEF Claims, Call
<1>5. CallShape(Main)'
  BY <1>2, <1>3 DEF CallShape, Call
<1>6. QED
  BY <1>1, <1>2, <1>4, <1>5, CallStep, CallTypes

LEMMA DestroyWindowStep ==
    ASSUME IInv, NEW w \in Window, DestroyWindow(w)
    PROVE  IInv'
<1>1. w \in Context /\ w # usercontextSlot[Main]
  BY ThreadAssumption, ContextAssumption DEF IInv, TypeOK, Context
<1>2. QED
  BY <1>1, BeginDestroy DEF DestroyWindow

LEMMA DestroyUserContextStep ==
    ASSUME IInv, NEW u \in UserContext, DestroyUserContext(u)
    PROVE  IInv'
<1>1. u \in Context /\ u # contextSlot[Main]
  BY ThreadAssumption, ContextAssumption DEF IInv, TypeOK, Context
<1>2. QED
  BY <1>1, BeginDestroy DEF DestroyUserContext

LEMMA FinishDestroyStep ==
    ASSUME IInv, NEW t \in Thread, FinishDestroy(t)
    PROVE  IInv'
<1> DEFINE c == call[t].ctx
<1>1. /\ live' = live \ {c}
      /\ call' = [call EXCEPT ![t] = Idle]
      /\ call'[t] = Idle
      /\ \A o \in Thread \ {t} : call'[o] = call[o]
      /\ UNCHANGED <<source, parent, slots, native>>
  BY DEF FinishDestroy, IInv, TypeOK
<1>2. c \in Claims(t) /\ c \notin {contextSlot[t], usercontextSlot[t]}
  BY ContextAssumption DEF IInv, CallShape, FinishDestroy, Claims
<1>3. TypeOK'
  BY <1>1, CallTypes DEF IInv, TypeOK, slots
<1>4. /\ Claims(t)' \subseteq Claims(t) \ {c}
      /\ \A o \in Thread \ {t} : Claims(o)' = Claims(o)
  BY <1>1, <1>2 DEF Claims, Idle, Call, slots
<1>5. ClaimsDisjoint'
  BY <1>4 DEF IInv, ClaimsDisjoint
<1>6. ClaimsLive'
  <2>1. \A o \in Thread \ {t} : c \notin Claims(o)
    BY <1>2 DEF IInv, ClaimsDisjoint
  <2>2. QED
    BY <1>1, <1>4, <2>1 DEF IInv, ClaimsLive
<1>7. \A o \in Thread : SlotShape(o)'
  BY <1>1 DEF IInv, SlotShape, slots
<1>8. \A o \in Thread : CallShape(o)'
  <2>1. CallShape(t)'
    BY <1>1 DEF CallShape, Idle, Call
  <2>2. ASSUME NEW o \in Thread \ {t} PROVE CallShape(o)'
    <3>1. CallShape(o)
      BY DEF IInv
    <3>2. QED
      BY <1>1, <3>1 DEF CallShape, slots
  <2>3. QED
    BY <2>1, <2>2
<1>9. QED
  BY <1>3, <1>5, <1>6, <1>7, <1>8 DEF IInv

\* A context that comes into being is claimed by nobody, so that giving it a
\* native API disturbs no slot.
LEMMA NewContextSlots ==
    ASSUME IInv, NEW c \in Context, NEW s \in Source, c \notin live,
           source' = [source EXCEPT ![c] = s], UNCHANGED <<slots, native>>
    PROVE  \A o \in Thread : c \notin Claims(o) /\ SlotShape(o)'
<1>1. \A o \in Thread : c \notin Claims(o)
  BY DEF IInv, ClaimsLive
<1>2. ASSUME NEW o \in Thread PROVE SlotShape(o)'
  <2>1. \A d \in {contextSlot[o], usercontextSlot[o]} \ {NoContext} :
          d # c /\ d \in Context
    BY <1>1 DEF Claims, IInv, TypeOK, Context
  <2>2. SlotShape(o)
    BY DEF IInv
  <2>3. QED
    BY <2>1, <2>2 DEF SlotShape, slots, IInv, TypeOK
<1>3. QED
  BY <1>1, <1>2

LEMMA CreateWindowStep ==
    ASSUME IInv, NEW w \in Window, NEW s \in Source, CreateWindow(w, s)
    PROVE  IInv'
<1> DEFINE k == [step |-> "refresh", ctx |-> w, back |-> contextSlot[Main],
                 user |-> usercontextSlot[Main]]
<1>1. /\ Main \in Thread /\ w \in Context /\ w # NoContext
      /\ call[Main] = Idle
      /\ w \notin live
      /\ live' = live \union {w}
      /\ source' = [source EXCEPT ![w] = s]
      /\ call' = [call EXCEPT ![Main] = k]
      /\ UNCHANGED <<parent, slots, native>>
  BY ThreadAssumption, ContextAssumption DEF CreateWindow, Context
<1>2. call'[Main] = k /\ \A o \in Thread \ {Main} : call'[o] = call[o]
  BY <1>1 DEF IInv, TypeOK
<1>3. \A o \in Thread : w \notin Claims(o) /\ SlotShape(o)'
  BY <1>1, NewContextSlots
<1>4. k \in CallType
  BY <1>1 DEF CallType, Step, IInv, TypeOK
<1>5. TypeOK'
  BY <1>1, <1>4 DEF IInv, TypeOK, slots
<1>6. /\ Claims(Main)' \subseteq Claims(Main) \union {w}
      /\ \A o \in Thread \ {Main} : Claims(o)' = Claims(o)
  BY <1>1, <1>2 DEF Claims, slots
<1>7. ClaimsLive'
  BY <1>1, <1>6 DEF IInv, ClaimsLive
<1>8. ClaimsDisjoint'
  <2>1. \A o \in Thread \ {Main} : Claims(Main)' \intersect Claims(o)' = {}
    BY <1>1, <1>3, <1>6 DEF IInv, ClaimsDisjoint
  <2>2. \A o, p \in Thread \ {Main} : o # p => Claims(o)' \intersect Claims(p)' = {}
    BY <1>6 DEF IInv, ClaimsDisjoint
  <2>3. QED
    BY <2>1, <2>2 DEF ClaimsDisjoint
<1>9. \A o \in Thread : CallShape(o)'
  <2>1. CallShape(Main)'
    BY <1>1, <1>2 DEF CallShape
  <2>2. ASSUME NEW o \in Thread \ {Main} PROVE CallShape(o)'
    <3>1. CallShape(o)
      BY DEF IInv
    <3>2. QED
      BY <1>1, <1>2, <3>1 DEF CallShape, slots
  <2>3. QED
    BY <2>1, <2>2
<1>10. QED
  BY <1>3, <1>5, <1>7, <1>8, <1>9 DEF IInv

LEMMA CreateUserContextStep ==
    ASSUME IInv, NEW w \in Window, NEW u \in UserContext, CreateUserContext(w, u)
    PROVE  IInv'
<1>1. /\ u \in Context /\ source[w] \in Source
      /\ u \notin live
      /\ live' = live \union {u}
      /\ source' = [source EXCEPT ![u] = source[w]]
      /\ parent' = [parent EXCEPT ![u] = w]
      /\ UNCHANGED <<slots, native, call>>
  BY DEF CreateUserContext, Context, IInv, TypeOK
<1>2. \A o \in Thread : u \notin Claims(o) /\ SlotShape(o)'
  BY <1>1, NewContextSlots
<1>3. TypeOK'
  BY <1>1 DEF IInv, TypeOK, slots
<1>4. \A o \in Thread : Claims(o)' = Claims(o)
  BY <1>1 DEF Claims, slots
<1>5. ClaimsLive' /\ ClaimsDisjoint'
  BY <1>1, <1>4 DEF IInv, ClaimsLive, ClaimsDisjoint
<1>6. \A o \in Thread : CallShape(o)'
  BY <1>1 DEF IInv, CallShape, slots
<1>7. QED
  BY <1>2, <1>3, <1>5, <1>6 DEF IInv

-----------------------------------------------------------------------------
(* The invariant *)

LEMMA InitIInv == Init => IInv
<1> SUFFICES ASSUME Init PROVE IInv
  OBVIOUS
<1>1. TypeOK
  BY CallTypes DEF Init, TypeOK
<1>2. \A t \in Thread : Claims(t) = {}
  BY DEF Init, Claims, Idle, Call
<1>3. \A t \in Thread : SlotShape(t)
  BY DEF Init, SlotShape
<1>4. \A t \in Thread : CallShape(t)
  BY DEF Init, CallShape, Idle, Call
<1>5. QED
  BY <1>1, <1>2, <1>3, <1>4 DEF IInv, ClaimsLive, ClaimsDisjoint

LEMMA NextIInv == IInv /\ [Next]_vars => IInv'
<1> SUFFICES ASSUME IInv, [Next]_vars PROVE IInv'
  OBVIOUS
<1>1. CASE MainNext
  BY <1>1, CreateWindowStep, DestroyWindowStep, CreateUserContextStep,
     DestroyUserContextStep DEF MainNext
<1>2. ASSUME NEW t \in Thread, ThreadNext(t) PROVE IInv'
  BY <1>2, MakeContextCurrentStep, DetachContextStep, MakeNoContextCurrentStep,
     MakeUserContextCurrentStep, FinishBindStep, RefreshStep, ProbeStep,
     RestoreStep, RebindStep, FinishDestroyStep DEF ThreadNext
<1>3. CASE UNCHANGED vars
  BY <1>3 DEF vars, objects, slots, IInv, TypeOK, ClaimsLive, ClaimsDisjoint,
     Claims, SlotShape, CallShape
<1>4. QED
  BY <1>1, <1>2, <1>3 DEF Next

LEMMA IInvHolds == Spec => []IInv
BY InitIInv, NextIInv, PTL DEF Spec

\* The variables of Contexts keep their types.
THEOREM TypeCorrect == Spec => []TypeOK
<1>1. IInv => TypeOK
  BY DEF IInv
<1>2. QED
  BY <1>1, IInvHolds, PTL

\* What GRWL reports as current on a thread is current there, and exists.
THEOREM ReportIsTrue == Spec => []ReportedIsCurrent
<1>1. IInv => ReportedIsCurrent
  BY DEF IInv, ClaimsLive, Claims, SlotShape, ReportedIsCurrent
<1>2. QED
  BY <1>1, IInvHolds, PTL

\* A thread is never told it has a window's context and a user context both.
THEOREM OneKindOnly == Spec => []OneKindReported
<1>1. IInv => OneKindReported
  BY DEF IInv, SlotShape, OneKindReported
<1>2. QED
  BY <1>1, IInvHolds, PTL

-----------------------------------------------------------------------------
(* The refinement *)

\* The slots change on no thread but t.
OnlySlotsOf(t) ==
    /\ UNCHANGED live
    /\ \A o \in Thread \ {t} : contextSlot'[o] = contextSlot[o]
                               /\ usercontextSlot'[o] = usercontextSlot[o]

LEMMA ClearOnly ==
    ASSUME TypeOK, NEW t \in Thread, NEW s, Clear(t, s), UNCHANGED live
    PROVE  OnlySlotsOf(t)
BY DEF TypeOK, Clear, OnlySlotsOf

LEMMA TryBindOnly ==
    ASSUME TypeOK, NEW t \in Thread, NEW c, TryBind(t, c), UNCHANGED live
    PROVE  OnlySlotsOf(t)
BY DEF TypeOK, TryBind, Bind, BindFails, OnlySlotsOf

\* Every step but a creation and the end of a destruction is of that kind.
LEMMA ThreadOnly ==
    ASSUME TypeOK, NEW t \in Thread, ThreadNext(t), ~FinishDestroy(t)
    PROVE  OnlySlotsOf(t)
<1>1. CASE \E w \in Window : MakeContextCurrent(t, w)
  BY <1>1, ClearOnly DEF MakeContextCurrent, objects
<1>2. CASE DetachContext(t)
  BY <1>2, ClearOnly DEF DetachContext, objects
<1>3. CASE MakeNoContextCurrent(t)
  BY <1>3 DEF MakeNoContextCurrent, objects, OnlySlotsOf, TypeOK
<1>4. CASE \E u \in UserContext : MakeUserContextCurrent(t, u)
  BY <1>4, ClearOnly DEF MakeUserContextCurrent, objects
<1>5. CASE FinishBind(t)
  BY <1>5, TryBindOnly DEF FinishBind, objects
<1>6. CASE Refresh(t)
  BY <1>6, ClearOnly DEF Refresh, objects
<1>7. CASE Probe(t)
  BY <1>7, TryBindOnly DEF Probe, objects
<1>8. CASE Restore(t)
  BY <1>8, ClearOnly DEF Restore, objects
<1>9. CASE Rebind(t)
  BY <1>9, TryBindOnly DEF Rebind, objects
<1>10. QED
  BY <1>1, <1>2, <1>3, <1>4, <1>5, <1>6, <1>7, <1>8, <1>9 DEF ThreadNext

LEMMA DestroyOnly ==
    ASSUME TypeOK,
           \/ \E w \in Window : DestroyWindow(w)
           \/ \E u \in UserContext : DestroyUserContext(u)
    PROVE  OnlySlotsOf(Main)
<1>1. Main \in Thread
  BY ThreadAssumption
<1>2. CASE Clear(Main, NoSource) /\ UNCHANGED live
  BY <1>1, <1>2, ClearOnly
<1>3. CASE UNCHANGED <<slots, native>> /\ UNCHANGED live
  BY <1>3 DEF OnlySlotsOf, slots
<1>4. QED
  BY <1>2, <1>3 DEF DestroyWindow, DestroyUserContext, objects

\* Such a step attaches a context, detaches one or stutters.
LEMMA OnlySlotsPromise ==
    ASSUME IInv', NEW t \in Thread, OnlySlotsOf(t)
    PROVE  [Promise!Next]_(Promise!vars)
<1> DEFINE current == [o \in Thread |-> Reported(o)]
<1>1. current' = [current EXCEPT ![t] = Reported(t)']
  BY DEF OnlySlotsOf, Reported
<1>2. CASE Reported(t)' = NoContext
  <2>1. Promise!Detach(t)
    BY <1>1, <1>2 DEF Promise!Detach, OnlySlotsOf
  <2>2. QED
    BY <2>1 DEF Promise!Next
<1>3. CASE Reported(t)' # NoContext
  <2> DEFINE c == Reported(t)'
  <2>1. c \in Context
    BY <1>3 DEF IInv, TypeOK, Reported, Context
  <2>2. c \in Claims(t)' /\ c \in live
    BY <1>3 DEF IInv, ClaimsLive, Claims, Reported, OnlySlotsOf
  <2>3. \A o \in Thread \ {t} : Reported(o) # c
    <3>1. \A o \in Thread \ {t} : Reported(o)' # c
      BY <1>3, <2>2 DEF IInv, ClaimsDisjoint, Claims, Reported
    <3>2. QED
      BY <3>1 DEF OnlySlotsOf, Reported
  <2>4. Promise!Attach(t, c)
    BY <1>1, <2>2, <2>3 DEF Promise!Attach, OnlySlotsOf
  <2>5. QED
    BY <2>1, <2>4 DEF Promise!Next
<1>4. QED
  BY <1>2, <1>3

LEMMA CreatePromise ==
    ASSUME IInv, NEW c \in Context, live' = live \union {c}, UNCHANGED slots
    PROVE  Promise!Next
<1>1. \A o \in Thread : Reported(o)' = Reported(o)
  BY DEF Reported, slots
<1>2. Promise!Create(c)
  BY <1>1 DEF Promise!Create
<1>3. QED
  BY <1>2 DEF Promise!Next

LEMMA DestroyPromise ==
    ASSUME IInv, NEW t \in Thread, FinishDestroy(t)
    PROVE  Promise!Next
<1> DEFINE c == call[t].ctx
<1>1. /\ c \in Context /\ c # NoContext
      /\ c \in Claims(t)
      /\ c \notin {contextSlot[t], usercontextSlot[t]}
      /\ live' = live \ {c}
      /\ UNCHANGED slots
  BY ContextAssumption DEF FinishDestroy, IInv, CallShape, Claims
<1>2. c \in live
  BY <1>1 DEF IInv, ClaimsLive
<1>3. \A o \in Thread : Reported(o) # c
  <2>1. Reported(t) # c
    BY <1>1 DEF Reported
  <2>2. \A o \in Thread \ {t} : Reported(o) # c
    BY <1>1 DEF IInv, ClaimsDisjoint, Claims, Reported
  <2>3. QED
    BY <2>1, <2>2
<1>4. \A o \in Thread : Reported(o)' = Reported(o)
  BY <1>1 DEF Reported, slots
<1>5. Promise!Destroy(c)
  BY <1>1, <1>2, <1>3, <1>4 DEF Promise!Destroy
<1>6. QED
  BY <1>1, <1>5 DEF Promise!Next

LEMMA InitPromise == Init => Promise!Init
BY DEF Init, Promise!Init, Reported

LEMMA NextPromise ==
    IInv /\ IInv' /\ [Next]_vars => [Promise!Next]_(Promise!vars)
<1> SUFFICES ASSUME IInv, IInv', [Next]_vars
             PROVE  [Promise!Next]_(Promise!vars)
  OBVIOUS
<1> USE DEF IInv
<1>1. ASSUME NEW w \in Window, NEW s \in Source, CreateWindow(w, s)
      PROVE  Promise!Next
  BY <1>1, CreatePromise DEF CreateWindow, Context
<1>2. ASSUME NEW w \in Window, NEW u \in UserContext, CreateUserContext(w, u)
      PROVE  Promise!Next
  BY <1>2, CreatePromise DEF CreateUserContext, Context
<1>3. CASE \/ \E w \in Window : DestroyWindow(w)
           \/ \E u \in UserContext : DestroyUserContext(u)
  BY <1>3, DestroyOnly, OnlySlotsPromise, ThreadAssumption
<1>4. ASSUME NEW t \in Thread, ThreadNext(t)
      PROVE  [Promise!Next]_(Promise!vars)
  BY <1>4, DestroyPromise, ThreadOnly, OnlySlotsPromise
<1>5. CASE UNCHANGED vars
  BY <1>5 DEF vars, objects, slots, Promise!vars, Reported
<1>6. QED
  BY <1>1, <1>2, <1>3, <1>4, <1>5 DEF Next, MainNext

(***************************************************************************)
(* The slots implement CurrentContext, for every number of threads and     *)
(* contexts and however the steps of their calls interleave.               *)
(***************************************************************************)
THEOREM Implements == Spec => KeepsPromise
<1>1. Spec => Promise!Init /\ [][Promise!Next]_(Promise!vars)
  BY IInvHolds, InitPromise, NextPromise, PTL DEF Spec
<1>2. QED
  BY <1>1 DEF KeepsPromise, Promise!Spec

(***************************************************************************)
(* What CurrentContext is for: whatever the threads do, no two of them are *)
(* told that the same context is current, and none is told of one that has *)
(* been destroyed.                                                         *)
(***************************************************************************)
THEOREM ReportsExclusive == Spec => []Promise!Exclusive
<1>1. IInv => Promise!Exclusive
  <2> SUFFICES ASSUME IInv PROVE Promise!Exclusive
    OBVIOUS
  <2>1. \A t \in Thread : Reported(t) \in Claims(t) \union {NoContext}
    BY DEF Reported, Claims
  <2>2. \A t \in Thread : Reported(t) \in live \union {NoContext}
    BY <2>1 DEF IInv, ClaimsLive
  <2>3. \A t, o \in Thread :
          t # o /\ Reported(t) # NoContext => Reported(t) # Reported(o)
    BY <2>1 DEF IInv, ClaimsDisjoint
  <2>4. QED
    BY <2>2, <2>3 DEF Promise!Exclusive
<1>2. QED
  BY <1>1, IInvHolds, PTL

-----------------------------------------------------------------------------
(* Creation *)

(***************************************************************************)
(* A window's context that a native API has on a thread is the one that is *)
(* reported there: user contexts alone are left behind (Clear).  A context *)
(* that is claimed by a thread is then free on every other, so that the    *)
(* native API does not refuse it.                                          *)
(***************************************************************************)
WindowsAreReported ==
    \A t \in Thread, s \in Source :
        native[t][s] \in Window => contextSlot[t] = native[t][s] /\ source[native[t][s]] = s

\* When a window's context is about to be made current, what the thread reports
\* is nothing or a context that it replaces.
InPlace(t, c) == contextSlot[t] = NoContext \/ source[contextSlot[t]] = source[c]

Replaces(t) ==
    /\ call[t].step \in {"bind", "probe"} /\ call[t].ctx \in Window => InPlace(t, call[t].ctx)
    /\ call[t].step = "rebind" => InPlace(t, call[t].back)

CreationInv == IInv /\ WindowsAreReported /\ \A t \in Thread : Replaces(t)

LEMMA ClearReported ==
    ASSUME IInv, WindowsAreReported, NEW t \in Thread, NEW s, Clear(t, s),
           UNCHANGED objects
    PROVE  /\ WindowsAreReported'
           /\ \/ contextSlot'[t] = NoContext
              \/ contextSlot'[t] = contextSlot[t] /\ source[contextSlot[t]] = s
<1> DEFINE previous == contextSlot[t]
<1>1. TypeOK /\ source' = source
  BY DEF IInv, objects
<1>2. CASE previous # NoContext /\ source[previous] # s
  <2>1. /\ native' = [native EXCEPT ![t][source[previous]] = NoContext]
        /\ contextSlot' = [contextSlot EXCEPT ![t] = NoContext]
    BY <1>2 DEF Clear
  <2>2. \A r \in Source : native'[t][r] \notin Window
    BY <1>1, <2>1, ContextAssumption DEF WindowsAreReported, TypeOK, Context
  <2>3. \A o \in Thread \ {t} : native'[o] = native[o] /\ contextSlot'[o] = contextSlot[o]
    BY <1>1, <2>1 DEF TypeOK
  <2>4. contextSlot'[t] = NoContext
    BY <1>1, <2>1 DEF TypeOK
  <2>5. QED
    BY <1>1, <2>2, <2>3, <2>4 DEF WindowsAreReported
<1>3. CASE ~(previous # NoContext /\ source[previous] # s)
  <2>1. UNCHANGED <<native, contextSlot>>
    BY <1>3 DEF Clear
  <2>2. QED
    BY <1>1, <1>3, <2>1 DEF WindowsAreReported
<1>4. QED
  BY <1>2, <1>3

LEMMA BindReported ==
    ASSUME IInv, WindowsAreReported, NEW t \in Thread, NEW c \in Context, TryBind(t, c),
           c \in UserContext => contextSlot[t] = NoContext,
           c \in Window => InPlace(t, c), UNCHANGED objects
    PROVE  WindowsAreReported'
<1>1. TypeOK /\ source' = source /\ source[c] \in Source
  BY DEF IInv, TypeOK, objects
<1>2. CASE Bind(t, c)
  <2>1. /\ \A r \in Source : native'[t][r] = IF r = source[c] THEN c ELSE native[t][r]
        /\ \A o \in Thread \ {t} : native'[o] = native[o]
    BY <1>1, <1>2 DEF Bind, TypeOK
  <2>2. contextSlot'[t] = (IF c \in Window THEN c ELSE contextSlot[t])
        /\ \A o \in Thread \ {t} : contextSlot'[o] = contextSlot[o]
    BY <1>1, <1>2 DEF Bind, TypeOK
  <2>3. \A r \in Source : native[t][r] \in Window =>
          r = source[contextSlot[t]] /\ contextSlot[t] # NoContext
    BY ContextAssumption DEF WindowsAreReported, Context
  <2>4. CASE c \in Window
    BY <1>1, <2>1, <2>2, <2>3, <2>4 DEF WindowsAreReported, InPlace
  <2>5. CASE c \in UserContext
    BY <1>1, <2>1, <2>2, <2>3, <2>5, ContextAssumption DEF WindowsAreReported
  <2>6. QED
    BY <2>4, <2>5 DEF Context
<1>3. CASE BindFails(t, c)
  BY <1>1, <1>3 DEF BindFails, WindowsAreReported
<1>4. QED
  BY <1>2, <1>3 DEF TryBind

\* A step of one thread that creates nothing.
LEMMA ReplacesStep ==
    ASSUME CreationInv, NEW t \in Thread, UNCHANGED <<source, parent>>, OthersSame(t),
           Replaces(t)', WindowsAreReported', IInv'
    PROVE  CreationInv'
<1>1. ASSUME NEW o \in Thread \ {t} PROVE Replaces(o)'
  BY DEF CreationInv, Replaces, InPlace, OthersSame
<1>2. QED
  BY <1>1 DEF CreationInv

LEMMA ThreadCreation ==
    ASSUME CreationInv, NEW t \in Thread, ThreadNext(t), IInv'
    PROVE  CreationInv'
<1>0. IInv /\ TypeOK /\ TypeOK' /\ WindowsAreReported /\ Replaces(t) /\ CallShape(t)
      /\ call[t] \in CallType /\ Context = Window \union UserContext
  BY DEF CreationInv, IInv, TypeOK, Context
<1>1. ASSUME NEW w \in Window, MakeContextCurrent(t, w) PROVE CreationInv'
  <2>1. Clear(t, source[w]) /\ UNCHANGED objects /\ call' = [call EXCEPT ![t] = Call("bind", w)]
    BY <1>1 DEF MakeContextCurrent
  <2>2. /\ WindowsAreReported'
        /\ \/ contextSlot'[t] = NoContext
           \/ contextSlot'[t] = contextSlot[t] /\ source[contextSlot[t]] = source[w]
    BY <1>0, <2>1, ClearReported
  <2>3. call'[t] = Call("bind", w)
    BY <1>0, <2>1 DEF TypeOK
  <2>4. Replaces(t)'
    BY <2>1, <2>2, <2>3 DEF Replaces, InPlace, Call, objects
  <2>5. OthersSame(t)
    BY <1>0, <2>1 DEF TypeOK, OthersSame, Clear
  <2>6. QED
    BY <2>1, <2>2, <2>4, <2>5, ReplacesStep DEF objects
<1>2. CASE DetachContext(t)
  <2>1. Clear(t, NoSource) /\ UNCHANGED <<objects, call>> /\ call[t] = Idle
    BY <1>2 DEF DetachContext
  <2>2. WindowsAreReported'
    BY <1>0, <2>1, ClearReported
  <2>3. Replaces(t)'
    BY <2>1 DEF Replaces, Idle, Call
  <2>4. OthersSame(t)
    BY <1>0, <2>1 DEF TypeOK, OthersSame, Clear
  <2>5. QED
    BY <2>1, <2>2, <2>3, <2>4, ReplacesStep DEF objects
<1>3. CASE MakeNoContextCurrent(t)
  <2>1. UNCHANGED <<objects, contextSlot, native, call>>
        /\ usercontextSlot' = [usercontextSlot EXCEPT ![t] = NoContext]
    BY <1>3 DEF MakeNoContextCurrent
  <2>2. WindowsAreReported' /\ Replaces(t)'
    BY <1>0, <2>1 DEF WindowsAreReported, Replaces, InPlace, objects
  <2>3. OthersSame(t)
    BY <1>0, <2>1 DEF TypeOK, OthersSame
  <2>4. QED
    BY <2>1, <2>2, <2>3, ReplacesStep DEF objects
<1>4. ASSUME NEW u \in UserContext, MakeUserContextCurrent(t, u) PROVE CreationInv'
  <2>1. Clear(t, NoSource) /\ UNCHANGED objects /\ call' = [call EXCEPT ![t] = Call("bind", u)]
    BY <1>4 DEF MakeUserContextCurrent
  <2>2. WindowsAreReported'
    BY <1>0, <2>1, ClearReported
  <2>3. call'[t] = Call("bind", u) /\ u \notin Window
    BY <1>0, <2>1, ContextAssumption DEF TypeOK
  <2>4. Replaces(t)'
    BY <2>3 DEF Replaces, Call
  <2>5. OthersSame(t)
    BY <1>0, <2>1 DEF TypeOK, OthersSame, Clear
  <2>6. QED
    BY <2>1, <2>2, <2>4, <2>5, ReplacesStep DEF objects
<1>5. CASE FinishBind(t) \/ Rebind(t)
  <2>1. PICK c \in Context :
          /\ TryBind(t, c) /\ UNCHANGED objects /\ call' = [call EXCEPT ![t] = Idle]
          /\ c \in UserContext => contextSlot[t] = NoContext
          /\ c \in Window => InPlace(t, c)
    BY <1>0, <1>5, ContextAssumption DEF FinishBind, Rebind, CallShape, Replaces
  <2>2. WindowsAreReported'
    BY <1>0, <2>1, BindReported
  <2>3. call'[t] = Idle
    BY <1>0, <2>1 DEF TypeOK
  <2>4. Replaces(t)'
    BY <2>3 DEF Replaces, Idle, Call
  <2>5. OthersSame(t)
    BY <1>0, <2>1 DEF TypeOK, OthersSame, TryBind, Bind, BindFails
  <2>6. QED
    BY <2>1, <2>2, <2>4, <2>5, ReplacesStep DEF objects
<1>6. CASE Refresh(t)
  <2> DEFINE c == call[t].ctx
  <2>1. Clear(t, source[c]) /\ UNCHANGED objects /\ call' = [call EXCEPT ![t].step = "probe"]
    BY <1>6 DEF Refresh
  <2>2. /\ WindowsAreReported'
        /\ \/ contextSlot'[t] = NoContext
           \/ contextSlot'[t] = contextSlot[t] /\ source[contextSlot[t]] = source[c]
    BY <1>0, <2>1, ClearReported
  <2>3. call'[t].step = "probe" /\ call'[t].ctx = c
    BY <1>0, <2>1 DEF TypeOK, CallType
  <2>4. Replaces(t)'
    BY <2>1, <2>2, <2>3 DEF Replaces, InPlace, objects
  <2>5. OthersSame(t)
    BY <1>0, <2>1 DEF TypeOK, OthersSame, Clear
  <2>6. QED
    BY <2>1, <2>2, <2>4, <2>5, ReplacesStep DEF objects
<1>7. CASE Probe(t)
  <2> DEFINE c == call[t].ctx
  <2>1. /\ TryBind(t, c) /\ UNCHANGED objects /\ call' = [call EXCEPT ![t].step = "restore"]
        /\ c \in Window /\ c \in Context /\ c \notin UserContext /\ InPlace(t, c)
    BY <1>0, <1>7, ContextAssumption DEF Probe, CallShape, Replaces
  <2>2. WindowsAreReported'
    BY <1>0, <2>1, BindReported
  <2>3. call'[t].step = "restore"
    BY <1>0, <2>1 DEF TypeOK, CallType
  <2>4. Replaces(t)'
    BY <2>3 DEF Replaces
  <2>5. OthersSame(t)
    BY <1>0, <2>1 DEF TypeOK, OthersSame, TryBind, Bind, BindFails
  <2>6. QED
    BY <2>1, <2>2, <2>4, <2>5, ReplacesStep DEF objects
<1>8. CASE Restore(t)
  <2> DEFINE back == call[t].back
  <2>1. Clear(t, SourceOf(back)) /\ UNCHANGED objects
        /\ IF back = NoContext THEN call' = [call EXCEPT ![t] = Idle]
                               ELSE call' = [call EXCEPT ![t].step = "rebind"]
    BY <1>8 DEF Restore
  <2>2. /\ WindowsAreReported'
        /\ \/ contextSlot'[t] = NoContext
           \/ contextSlot'[t] = contextSlot[t] /\ source[contextSlot[t]] = SourceOf(back)
    BY <1>0, <2>1, ClearReported
  <2>3. CASE back = NoContext
    <3>1. call'[t] = Idle
      BY <1>0, <2>1, <2>3 DEF TypeOK
    <3>2. Replaces(t)'
      BY <3>1 DEF Replaces, Idle, Call
    <3>3. OthersSame(t)
      BY <1>0, <2>1, <2>3 DEF TypeOK, OthersSame, Clear
    <3>4. QED
      BY <2>1, <2>2, <3>2, <3>3, ReplacesStep DEF objects
  <2>4. CASE back # NoContext
    <3>1. call'[t].step = "rebind" /\ call'[t].back = back
      BY <1>0, <2>1, <2>4 DEF TypeOK, CallType
    <3>2. Replaces(t)'
      BY <2>1, <2>2, <2>4, <3>1 DEF Replaces, InPlace, SourceOf, objects
    <3>3. OthersSame(t)
      BY <1>0, <2>1, <2>4 DEF TypeOK, OthersSame, Clear
    <3>4. QED
      BY <2>1, <2>2, <3>2, <3>3, ReplacesStep DEF objects
  <2>5. QED
    BY <2>3, <2>4
<1>9. CASE FinishDestroy(t)
  <2>1. /\ UNCHANGED <<source, parent, slots, native>> /\ call' = [call EXCEPT ![t] = Idle]
        /\ call'[t] = Idle
    BY <1>0, <1>9 DEF FinishDestroy, TypeOK
  <2>2. WindowsAreReported'
    BY <1>0, <2>1 DEF WindowsAreReported, slots
  <2>3. Replaces(t)'
    BY <2>1 DEF Replaces, Idle, Call
  <2>4. OthersSame(t)
    BY <1>0, <2>1 DEF TypeOK, OthersSame, slots
  <2>5. QED
    BY <2>1, <2>2, <2>3, <2>4, ReplacesStep
<1>10. QED
  BY <1>1, <1>2, <1>3, <1>4, <1>5, <1>6, <1>7, <1>8, <1>9 DEF ThreadNext

LEMMA MainCreation ==
    ASSUME CreationInv, MainNext, IInv'
    PROVE  CreationInv'
<1>0. /\ IInv /\ TypeOK /\ WindowsAreReported /\ Main \in Thread
      /\ \A t \in Thread : Replaces(t) /\ CallShape(t) /\ Claims(t) \subseteq live
  BY ThreadAssumption DEF CreationInv, IInv, ClaimsLive
<1>1. ASSUME NEW c \in Context, NEW s \in Source, c \notin live,
             source' = [source EXCEPT ![c] = s], UNCHANGED <<slots, native>>
      PROVE  WindowsAreReported' /\ \A t \in Thread, d \in live : InPlace(t, d) => InPlace(t, d)'
  <2>1. \A t \in Thread : contextSlot[t] # NoContext => contextSlot[t] \in live
    BY <1>0 DEF Claims
  <2>2. \A d \in live : source'[d] = source[d]
    BY <1>0, <1>1 DEF TypeOK
  <2>3. WindowsAreReported'
    BY <1>1, <2>1, <2>2, ContextAssumption DEF WindowsAreReported, slots, CreationInv, Context
  <2>4. QED
    BY <1>1, <2>1, <2>2, <2>3 DEF InPlace, slots
<1>2. ASSUME NEW w \in Window, NEW s \in Source, CreateWindow(w, s) PROVE CreationInv'
  <2>1. /\ w \in Context /\ w \notin live /\ source' = [source EXCEPT ![w] = s]
        /\ UNCHANGED <<slots, native>>
        /\ call'[Main].step = "refresh" /\ \A o \in Thread \ {Main} : call'[o] = call[o]
    BY <1>0, <1>2 DEF CreateWindow, TypeOK, Context
  <2>2. WindowsAreReported' /\ \A t \in Thread, d \in live : InPlace(t, d) => InPlace(t, d)'
    BY <1>1, <2>1
  <2>3. Replaces(Main)'
    BY <2>1 DEF Replaces
  <2>4. ASSUME NEW o \in Thread \ {Main} PROVE Replaces(o)'
    <3>1. Replaces(o) /\ CallShape(o) /\ Claims(o) \subseteq live /\ call'[o] = call[o]
      BY <1>0, <2>1
    <3>2. /\ call[o].ctx \in Window => call[o].ctx \in live
          /\ call[o].step = "rebind" => call[o].back \in live
      BY <3>1, ContextAssumption DEF Claims, CallShape, Context
    <3>3. /\ call[o].ctx \in live /\ InPlace(o, call[o].ctx) => InPlace(o, call[o].ctx)'
          /\ call[o].back \in live /\ InPlace(o, call[o].back) => InPlace(o, call[o].back)'
      BY <2>2, <3>1 DEF InPlace
    <3>4. QED
      BY <3>1, <3>2, <3>3 DEF Replaces, InPlace
  <2>5. QED
    BY <2>2, <2>3, <2>4 DEF CreationInv
<1>3. ASSUME NEW w \in Window, NEW u \in UserContext, CreateUserContext(w, u)
      PROVE  CreationInv'
  <2>1. /\ u \in Context /\ u \notin live /\ source' = [source EXCEPT ![u] = source[w]]
        /\ source[w] \in Source /\ UNCHANGED <<slots, native, call>>
    BY <1>0, <1>3 DEF CreateUserContext, TypeOK, Context
  <2>2. WindowsAreReported' /\ \A t \in Thread, d \in live : InPlace(t, d) => InPlace(t, d)'
    BY <1>1, <2>1
  <2>3. ASSUME NEW o \in Thread PROVE Replaces(o)'
    <3>1. Replaces(o) /\ CallShape(o) /\ Claims(o) \subseteq live /\ call'[o] = call[o]
      BY <1>0, <2>1
    <3>2. /\ call[o].ctx \in Window => call[o].ctx \in live
          /\ call[o].step = "rebind" => call[o].back \in live
      BY <3>1, ContextAssumption DEF Claims, CallShape, Context
    <3>3. /\ call[o].ctx \in live /\ InPlace(o, call[o].ctx) => InPlace(o, call[o].ctx)'
          /\ call[o].back \in live /\ InPlace(o, call[o].back) => InPlace(o, call[o].back)'
      BY <2>2, <3>1 DEF InPlace
    <3>4. QED
      BY <3>1, <3>2, <3>3 DEF Replaces, InPlace
  <2>4. QED
    BY <2>2, <2>3 DEF CreationInv
<1>4. ASSUME NEW c, call' = [call EXCEPT ![Main] = Call("destroy", c)], UNCHANGED objects,
             Clear(Main, NoSource) \/ UNCHANGED <<slots, native>>
      PROVE  CreationInv'
  <2>1. call'[Main].step = "destroy"
    BY <1>0, <1>4 DEF TypeOK, Call
  <2>2. Replaces(Main)'
    BY <2>1 DEF Replaces
  <2>3. WindowsAreReported'
    <3>1. CASE Clear(Main, NoSource)
      BY <1>0, <1>4, <3>1, ClearReported
    <3>2. CASE UNCHANGED <<slots, native>>
      BY <1>0, <1>4, <3>2 DEF WindowsAreReported, slots, objects
    <3>3. QED
      BY <1>4, <3>1, <3>2
  <2>4. OthersSame(Main)
    BY <1>0, <1>4 DEF TypeOK, OthersSame, Clear, slots
  <2>5. QED
    BY <1>0, <1>4, <2>2, <2>3, <2>4, ReplacesStep DEF objects
<1>5. ASSUME NEW w \in Window, DestroyWindow(w) PROVE CreationInv'
  BY <1>4, <1>5 DEF DestroyWindow
<1>6. ASSUME NEW u \in UserContext, DestroyUserContext(u) PROVE CreationInv'
  BY <1>4, <1>6 DEF DestroyUserContext
<1>7. QED
  BY <1>2, <1>3, <1>5, <1>6 DEF MainNext

\* Which steps end a creation, and what they leave.
LEMMA EndOfCreation ==
    ASSUME CreationInv, [Next]_vars, NEW t \in Thread, CreationEnds(t),
           call[t].back \notin Unreliable
    PROVE  contextSlot'[t] = call[t].back
<1>0. /\ TypeOK /\ CallShape(t) /\ call[t] \in CallType
      /\ call[t] # Idle /\ call'[t] = Idle /\ call[t].step \in {"restore", "rebind"}
  BY DEF CreationInv, IInv, TypeOK, CreationEnds, Idle, Call
<1>1. Restore(t) \/ Rebind(t)
  <2>1. ASSUME MainNext PROVE FALSE
    <3>1. Main # t => call'[t] = call[t]
      BY <1>0, <2>1 DEF MainNext, CreateWindow, DestroyWindow, CreateUserContext,
         DestroyUserContext, TypeOK
    <3>2. Main = t => call'[t] = call[t] \/ call[t] = Idle
      BY <2>1 DEF MainNext, CreateWindow, DestroyWindow, CreateUserContext,
         DestroyUserContext, Usable
    <3>3. QED
      BY <1>0, <3>1, <3>2
  <2>2. ASSUME NEW o \in Thread \ {t}, ThreadNext(o) PROVE FALSE
    <3>1. call'[t] = call[t]
      BY <1>0, <2>2 DEF ThreadNext, MakeContextCurrent, DetachContext, MakeNoContextCurrent,
         MakeUserContextCurrent, FinishBind, Refresh, Probe, Restore, Rebind, FinishDestroy,
         TypeOK
    <3>2. QED
      BY <1>0, <3>1
  <2>3. ASSUME ThreadNext(t) PROVE Restore(t) \/ Rebind(t)
    BY <1>0, <2>3 DEF ThreadNext, MakeContextCurrent, DetachContext, MakeNoContextCurrent,
       MakeUserContextCurrent, FinishBind, Refresh, Probe, FinishDestroy, Usable
  <2>4. ASSUME UNCHANGED vars PROVE FALSE
    BY <1>0, <2>4 DEF vars
  <2>5. QED
    BY <2>1, <2>2, <2>3, <2>4 DEF Next
<1>2. CASE Restore(t)
  <2>1. call[t].back = NoContext
    <3> SUFFICES ASSUME call[t].back # NoContext PROVE FALSE
      OBVIOUS
    <3>1. call'[t].step = "rebind"
      BY <1>0, <1>2 DEF Restore, TypeOK, CallType
    <3>2. QED
      BY <1>0, <3>1 DEF Idle, Call
  <2>2. Clear(t, NoSource) /\ UNCHANGED objects
    BY <1>2, <2>1 DEF Restore, SourceOf
  <2>3. QED
    BY <2>1, <2>2, ClearEffect DEF CreationInv
<1>3. CASE Rebind(t)
  <2> DEFINE c == call[t].back
  <2>1. c \in Window /\ c # NoContext /\ c \in Claims(t) /\ TryBind(t, c)
    BY <1>0, <1>3, ContextAssumption DEF CallShape, Rebind, Claims, Context
  <2>2. FreeElsewhere(t, c)
    <3> SUFFICES ASSUME NEW o \in Thread \ {t}, native[o][source[c]] = c PROVE FALSE
      BY DEF FreeElsewhere
    <3>1. source[c] \in Source
      BY <1>0, <2>1 DEF TypeOK, Context
    <3>2. contextSlot[o] = c
      BY <2>1, <3>1 DEF CreationInv, WindowsAreReported
    <3>3. c \in Claims(o)
      BY <2>1, <3>2 DEF Claims
    <3>4. QED
      BY <2>1, <3>3 DEF CreationInv, IInv, ClaimsDisjoint
  <2>3. Bind(t, c)
    BY <2>1, <2>2 DEF TryBind, BindFails
  <2>4. QED
    BY <1>0, <2>1, <2>3 DEF Bind, TypeOK
<1>4. QED
  BY <1>1, <1>2, <1>3

(***************************************************************************)
(* Creating a window leaves the thread with the context of the window that *)
(* was current before, for any number of threads and native APIs, although *)
(* the new context and other threads' contexts are bound in between: what  *)
(* _grwlRefreshContextAttribs restores is free to be made current again.   *)
(***************************************************************************)
THEOREM CreationRestores == Spec => CreationKeepsContext
<1>1. Init => CreationInv
  <2> SUFFICES ASSUME Init PROVE CreationInv
    OBVIOUS
  <2>1. IInv
    BY InitIInv
  <2>2. WindowsAreReported
    BY ContextAssumption DEF Init, WindowsAreReported, Context
  <2>3. \A t \in Thread : Replaces(t)
    BY DEF Init, Replaces, Idle, Call
  <2>4. QED
    BY <2>1, <2>2, <2>3 DEF CreationInv
<1>2. CreationInv /\ [Next]_vars => CreationInv'
  <2> SUFFICES ASSUME CreationInv, [Next]_vars PROVE CreationInv'
    OBVIOUS
  <2>1. IInv'
    BY NextIInv DEF CreationInv
  <2>2. CASE UNCHANGED vars
    BY <2>1, <2>2 DEF CreationInv, WindowsAreReported, Replaces, InPlace, vars, objects, slots
  <2>3. QED
    BY <2>1, <2>2, MainCreation, ThreadCreation DEF Next
<1>3. CreationInv /\ [Next]_vars =>
        [\A t \in Thread : CreationEnds(t) /\ call[t].back \notin Unreliable =>
                             contextSlot'[t] = call[t].back]_vars
  BY EndOfCreation
<1>4. QED
  BY <1>1, <1>2, <1>3, PTL DEF Spec, CreationKeepsContext
=============================================================================
