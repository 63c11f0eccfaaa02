SPECIFICATION Spec
CONSTANTS
    e1 = e1
    e2 = e2
    u1 = u1
    port = port
    tls = tls
    edge = edge
    Engines = {e1, e2}
    Users = {u1}
    Keys = {port}
    Sources = {"services"}
    SourceOf <- MCSourceOf
    Subject <- MCSubject
    Listing = {"services"}
    Blanket <- MCBlanket
    NewDevice = {port}
INVARIANTS TypeOK TrailAgrees DecisionSurvives
SYMMETRY EngineSymmetry
