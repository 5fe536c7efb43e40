CONSTANTS
    img = img
    div = div
    Elements <- MCElements
    Images <- MCImages
    MaxObserve = 2
    MaxQueue = 3
SPECIFICATION Spec
INVARIANT UnobserveOnlyObserved
