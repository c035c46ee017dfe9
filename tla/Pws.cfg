SPECIFICATION Spec
CONSTANTS
    prime = 101
    temp_stack_size = 16
    Worksheets <- MCWorksheets
INVARIANTS
    ReadingsAgree
    ConstraintsHold
    WitnessFits
PROPERTY StatementMeans
