CONSTANTS
    frame = frame
    worker = worker
    js = js
    dom = dom
    o1 = o1
    o2 = o2
    n1 = n1
    Targets <- MCTargets
    Models <- MCModels
    Supports <- MCSupports
    Autostart <- MCAutostart
    Observers <- MCObservers
    Listeners <- MCListeners
    ClassOf <- MCClassOf
    MaxPasses = 2
SPECIFICATION Spec
CHECK_DEADLOCK FALSE
INVARIANTS TypeOK ObserversKnowModels ListenersHearModels ModelsFollow
PROPERTIES PhasesInOrder SuspensionCompletes
