SPECIFICATION Spec
CONSTANTS
    visit1 = visit1
    visit2 = visit2
    visit3 = visit3
    Visits = {visit1, visit2, visit3}
    MaxNames = 2
    MaxBuilders = 2
    Credentials = 2
CHECK_DEADLOCK FALSE
SYMMETRY Symmetry
INVARIANTS NoStrayRepo ProjectKeepsRepo OneOfEach OwnBuilderOpened
