SPECIFICATION Spec
CONSTANTS
    Unset = Unset
    NotANumber = NotANumber
    NoConfig = NoConfig
    Environments <- MCEnvironments
INVARIANTS
    TypeOK
    OnlyLoadFails
    DelaysAreBounded
