\* Nearest-eNB attachment, Three-tower layout, three UEs.
CONSTANTS
    NUes = 3
    EnbLayout <- MCEnbLayout
    UePoints <- MCUePoints
    DblMax <- MCDblMax

SPECIFICATION Spec

INVARIANT TypeOK
INVARIANT AttachedToFirstNearest

\* The attach loop ends; main() continues with other setup code.
CHECK_DEADLOCK FALSE
