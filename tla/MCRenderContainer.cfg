CONSTANTS
    block = block
    anon = anon
    text = text
    part = part
    table = table
    gen1 = gen1
    gtext1 = gtext1
    gen2 = gen2
    gtext2 = gtext2
    Null = Null
    Objects <- MCObjects
    Texts <- MCTexts
    Anonymous <- MCAnonymous
    Flattenable <- MCFlattenable
    Replaced = {}
    Display <- MCDisplay
    Unallocated = {table}
SPECIFICATION ListSpec
INVARIANTS ListsWellFormed NoDanglingPointers
PROPERTIES ChildListRefinement InsertsBeforeSuccessor
CHECK_DEADLOCK FALSE
