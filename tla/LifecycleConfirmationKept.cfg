\* Rules are confirmed, rewritten, and rewritten back, then published.
CONSTANTS
    c1 = c1  c2 = c2  s1 = s1  s2 = s2  g1 = g1
    A = A  B = B  p1 = p1  p2 = p2  p3 = p3  x = x
    Clients = {c1}
    Sessions = {s1}
    Games = {g1}
    GameOf <- MCGameOf
    Rules = {A, B}
    Composed = {A, B}
    NoIR = NoIR
    Plans = {p1, p2, p3}
    NoPlan = NoPlan
    PlanOf <- MCPlanOf
    Passing <- MCPassing
    LegacyPlans = {}
    Clauses = {x}
    ClausesOf <- MCClausesOf
    NoEvidence = NoEvidence
    NoArtifact = NoArtifact
    MaxBuild = 1
    MaxRevision = 8
    MaxVersion = 2
SPECIFICATION Spec
ACTION_CONSTRAINT RegistrationCalls
PROPERTIES
    PublishedOnFreshConfirmation
