SPECIFICATION Spec
CONSTANTS
    Nodes <- AllNodes
    Inf = 1000
    Mantissa = 4
    Prime = 7
INVARIANTS
    LayoutIsNx
    SelectionIsNx
    ContractionIsNx
    ElementsAreNx
    ComplexIsPairs
CHECK_DEADLOCK FALSE
