SPECIFICATION Spec
CONSTANTS
    a1 = a1
    a2 = a2
    Actions = {a1, a2}
    MaxGrants = 2
    MaxTokens = 2
    MaxRestarts = 0
SYMMETRY ActionSymmetry
INVARIANT TokensOfLastAuthorization
CHECK_DEADLOCK FALSE
