SPECIFICATION Spec
CONSTANT MaxKeys = 1
INVARIANT PausedWhileMenuOpen
