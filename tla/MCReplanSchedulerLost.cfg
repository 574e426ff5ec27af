\* The smallest site that loses an input: nobody else asks for a replan.
SPECIFICATION Spec
CONSTANTS
    Clients = {c1}
    TaskIds = {t1}
    MaxInputs = 2
    MaxCallbacks = 2
    None = None
PROPERTY
    EveryInputSeen
