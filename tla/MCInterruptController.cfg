SPECIFICATION Spec
CONSTANT RegValues <- MCRegValues
INVARIANT TypeOK
PROPERTY ImplementsLatch
