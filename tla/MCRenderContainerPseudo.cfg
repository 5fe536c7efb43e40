CONSTANTS
    block = block
    gen1 = gen1
    gtext1 = gtext1
    gen2 = gen2
    gtext2 = gtext2
    anon = anon
    text = text
    part = part
    table = table
    Null = Null
    Objects <- MCPseudoObjects
    Texts <- MCPseudoTexts
    Anonymous <- MCPseudoAnonymous
    Flattenable = {}
    Replaced = {}
    Display <- MCPseudoDisplay
    Unallocated <- MCPseudoUnallocated
SPECIFICATION Spec
INVARIANT NoNullDereference
CHECK_DEADLOCK FALSE
