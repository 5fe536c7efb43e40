CONSTANTS
    e1 = e1
    nameA = nameA
    nameB = nameB
    opacity = opacity
    a1 = a1
    a2 = a2
    a3 = a3
    a4 = a4
    Elements = {e1}
    Anims = {a1, a2, a3, a4}
    Names = {nameA, nameB}
    NoneName = NoneName
    Props = {opacity}
    Values <- MCValues
    Auto = Auto
    Mid = Mid
    Styles <- MCStyles
    NoStyle = NoStyle
    NoAnim = NoAnim
    NoElement = NoElement
    NoEntry = NoEntry
SPECIFICATION Spec
INVARIANT PlayingAnimationsTracked
CHECK_DEADLOCK FALSE
