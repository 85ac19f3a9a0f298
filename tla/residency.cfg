SPECIFICATION Spec
CONSTANTS
    english = english
    multilingual = multilingual
    typed = typed
    t1 = t1
    Models <- KnownModels
    Preload <- TwoPreloaded
    Callers = {t1}
    MaxLoaded = 2
    MaxAgents = 2
    MaxCalls = 2
INVARIANT TypeOK
INVARIANT RunsOnPrepared
INVARIANT NothingLeftBehind
INVARIANT PreloadedWarm
INVARIANT SampledWarm
CHECK_DEADLOCK FALSE
