CONSTANT Entry = {e1, e2}
SPECIFICATION Spec
INVARIANT ServicesAvailable
CHECK_DEADLOCK FALSE
