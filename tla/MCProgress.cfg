\* One fault, outage, crash or failure in each component.
CONSTANTS
    g1 = g1  g2 = g2  w1 = w1  w2 = w2  e1 = e1  e2 = e2  NoGroup = NoGroup
    b1 = b1  b2 = b2  r1 = r1  v1 = v1  h1 = h1  h2 = h2  a1 = a1  none = none
SPECIFICATION Spec
PROPERTIES
    RequestIsAnswered
    EventuallySynced
    
    
    FlagTakesOver
    
CHECK_DEADLOCK FALSE
