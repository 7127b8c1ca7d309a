SPECIFICATION Spec
CONSTANTS
    Main = main
    Thread = {main, worker}
    Window = {w1, w2}
    UserContext = {u1, u2}
    Source = {GLX, EGL}
    NoContext = NoContext
    NoSource = NoSource
    Unreliable = {w2, u2}
SYMMETRY Symmetry
INVARIANTS
    TypeOK
    

    
    
