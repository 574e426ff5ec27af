SPECIFICATION Spec
CONSTANT None = None
INVARIANT
    NoTestLeftOn
