CONSTANTS
    ra = ra
    rb = rb
    h1 = h1
    h2 = h2
    c1 = c1
    c2 = c2
    None = None
    RefName <- MCRefName
    Hash <- MCHash
    Client <- MCOneClient
    InitPacked = TRUE
SPECIFICATION Spec
PROPERTY
    RemoveKeepsOthers
