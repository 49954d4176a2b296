--------------------------- MODULE MCKernelObjects ---------------------------
EXTENDS KernelObjects

CONSTANT n1

=============================================================================
