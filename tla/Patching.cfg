SPECIFICATION Spec
CONSTANTS
    Texts = {"a", "b", "c", "n"}
    MaxFindings = 2
    Contents <- MCContents
    Payloads <- MCPayloads
INVARIANTS
    AboveUntouched
    ExactUnlessShifted
    ExactUnlessRepeated
    TakesOnlyItsLines
    RaisesOnlyOnConflict
CHECK_DEADLOCK FALSE
