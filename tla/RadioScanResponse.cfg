SPECIFICATION Spec
CONSTANT None = None
INVARIANT ScanResponseSent
