SPECIFICATION BothSpec
CONSTANTS
    Sharers = {w1, w2, w3, w4}
    Excluders = {a1}
    Adders = {a1, a2}
    Workers = {w1}
    Frame = Frame
    NoOne = NoOne
    FirstCharts = {0, 1, 2}
    MaxAdds = 3
INVARIANTS
    TypeOK
    CompositionIsSound
PROPERTIES
    ContractSpec
    WriterIsServed
    BuildIsAdopted
