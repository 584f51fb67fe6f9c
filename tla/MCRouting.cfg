SPECIFICATION Spec
CONSTANTS
    C = 7
    AlpParent <- SixAlps
    Host <- OnePerClp
    Messages <- OneOfEach
    SixDigits <- Printed
    MaxNumber = 12
CHECK_DEADLOCK FALSE
INVARIANTS HopsAreDistance ArrivesUnchanged
PROPERTIES Arrives
