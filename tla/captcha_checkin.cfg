\* Two flows on one new-api account of nine kinds, and two solver instances.
SPECIFICATION CaptchaSpec
SYMMETRY Symmetry
CONSTANTS
    Flow = {f1, f2}
    Setups <- MCSetups
    IdCandidates <- MCIds
    Cookies = 3
    ExtraBudget = 2
    Instances = 2
    Attempt = 3
    Client = 2
    Pause = 1
    Polls <- MCPolls
INVARIANTS
    CaptchaTypeOK
    DoneIsReported
    RealIdNotStarved
PROPERTIES
    LaterInstancesHaveTime
