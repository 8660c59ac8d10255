SPECIFICATION Spec
CONSTANTS
    Size = 7
    Reserved = 3
    Bindable = {1, 2}
    MaxNodeId = 24
CHECK_DEADLOCK FALSE
PROPERTIES  NoneOverwritten FullOnlyWhenFull
