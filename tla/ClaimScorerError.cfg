\* A scorer that fails.
CONSTANT None = None
SPECIFICATION Spec
INVARIANT ScorerErrorIsReviewed
