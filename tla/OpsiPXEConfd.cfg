\* Calls forwarded to another depot or sent to the local opsipxeconfd, with failures.
CONSTANT MaxCalls = 3
SPECIFICATION Spec
INVARIANT TypeOK
INVARIANT AppliedByResponsibleDepot
INVARIANT NoBackendLeft
