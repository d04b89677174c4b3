SPECIFICATION Spec
CONSTANTS
    n1 = n1
    n2 = n2
    Names <- TwoNames
    MAX_VARIABLES = 2
    CounterMod = 3
    RequestAttributes <- SomeAttributes
    DataSizes <- Sizes
    Properties <- SomeProperties
    MaxVariableSize = 2
    IndexChunk = 2
    Faults = FALSE
    Absent = Absent
    NoName = NoName
    NoConstraints = NoConstraints
    NoIndex = NoIndex
    EmptyIndex = EmptyIndex
SYMMETRY Symmetry
INVARIANTS StoreStarts PromisesKept IndexAndObjectsAgree 
PROPERTIES FrozenUnchanged
