SPECIFICATION SSpec
CONSTANT MaxLeaving = 1
INVARIANT ReadyMeansReleased
