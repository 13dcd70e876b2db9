SPECIFICATION Spec
CONSTANT MaxWorkers = 3
INVARIANT RunHasItsScreen
PROPERTY RunIsReleased
