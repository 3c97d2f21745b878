SPECIFICATION Spec
CONSTANTS
    Name = {x, y}
    Decl = {d1, d2}
    NoEntry = NoEntry
    MaxDepth = 3
CONSTRAINT DepthBound
INVARIANT TypeOK
PROPERTY ImplementsEnvironment
