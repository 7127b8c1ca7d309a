--------------------------- MODULE CurrentContext ---------------------------
(***************************************************************************)
(* What GRWL promises about current contexts (src/docs/context.dox): a     *)
(* thread has at most one current context, the context of a window or a    *)
(* user context, a context is current on at most one thread, and only a    *)
(* context that exists is current.  Contexts implements this module.       *)
(***************************************************************************)
CONSTANTS Thread, Context, NoContext

VARIABLES
    live,    \* contexts that exist
    current  \* the context each thread is told it has

vars == <<live, current>>

TypeOK ==
    /\ live \in SUBSET Context
    /\ current \in [Thread -> Context \union {NoContext}]

Init ==
    /\ live = {}
    /\ current = [t \in Thread |-> NoContext]

Create(c) ==
    /\ live' = live \union {c}
    /\ UNCHANGED current

Destroy(c) ==
    /\ c \in live
    /\ \A t \in Thread : current[t] # c
    /\ live' = live \ {c}
    /\ UNCHANGED current

Attach(t, c) ==
    /\ c \in live
    /\ \A o \in Thread \ {t} : current[o] # c
    /\ current' = [current EXCEPT ![t] = c]
    /\ UNCHANGED live

Detach(t) ==
    /\ current' = [current EXCEPT ![t] = NoContext]
    /\ UNCHANGED live

Next ==
    \/ \E c \in Context : Create(c) \/ Destroy(c)
    \/ \E t \in Thread : Detach(t) \/ \E c \in Context : Attach(t, c)

Spec == Init /\ [][Next]_vars

\* A context is current on at most one thread, and exists as long as it is.
Exclusive ==
    /\ \A t \in Thread : current[t] \in live \union {NoContext}
    /\ \A t, o \in Thread :
         t # o /\ current[t] # NoContext => current[t] # current[o]
=============================================================================
