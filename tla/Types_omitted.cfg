\* Two instantiations of a class decorated with args(), over every
\* combination of keyword arguments.
CONSTANTS
    path = path
    mode = mode
    _items = _items
    items = items
    Positional <- MCPositional
    TypeVars <- MCTypeVars
    TypeOrder <- MCTypeOrder
    Stripped <- MCStripped
    KwNames <- MCKwNames
    Inputs <- MCInputs
    Required = {}
    MaxNew = 2
SPECIFICATION Spec
INVARIANT AttributesAsDeclared
