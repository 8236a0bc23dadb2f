\* Two instantiations of a class decorated with args(), by callers that
\* pass both converted arguments.
CONSTANTS
    path = path
    mode = mode
    _items = _items
    items = items
    Positional <- MCPositional
    TypeVars <- MCTypeVars
    TypeOrder <- MCTypeOrder
    Stripped <- MCStripped
    KwNames <- MCKwNames
    Inputs <- MCInputs
    Required <- MCConverted
    MaxNew = 2
SPECIFICATION Spec
INVARIANT TypeOK
INVARIANT AttributesAsDeclared
