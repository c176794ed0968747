SPECIFICATION Spec

\* Translation ends after the second optimization stage.
CHECK_DEADLOCK FALSE

INVARIANTS
    ImplicationsClosed
    PassesAfterPrerequisites
