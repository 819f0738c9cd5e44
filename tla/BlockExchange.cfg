SPECIFICATION Spec
CONSTANTS
    pub = pub  n1 = n1  n2 = n2
    Nodes <- ThreeNodes
    Publishers <- OnePublisher
    Slots = {s1, s2}
    MaxFaults = 2
SYMMETRY Interchangeable
INVARIANTS DamageIsLocal BlockSurvives
