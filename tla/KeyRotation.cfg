\* Two VMs; two rotations, on top of whatever the first leaves behind.
SPECIFICATION Spec
CONSTANTS
    Instance = {i1, i2}
    MaxKey = 3
INVARIANTS
    TypeOK
    Readable
    OnlyNewRowsUnread
PROPERTIES
    KeyRetired
