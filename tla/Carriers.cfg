CONSTANTS
    Callers = {c1, c2, c3}
    Threshold = 2
    HalfOpenProbe = 2
SPECIFICATION FairCarriersSpec
INVARIANTS ProbeSlotsAccounted
PROPERTIES BreakerRecovers
