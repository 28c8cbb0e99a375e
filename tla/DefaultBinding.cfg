CONSTANTS
    Own = own
    Namespaces = {own, n1}
    Specs <- MCDefaultSpecs
    FirstWorlds <- MCFirstWorlds
    MaxEdits = 0
    MaxMishaps = 0
SPECIFICATION Spec
CHECK_DEADLOCK FALSE
PROPERTIES
    DefaultGetsBound
