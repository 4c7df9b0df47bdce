CONSTANTS
  Numbers = {0, 1, 3, 10, 11}
  Results = {0, 5}
SPECIFICATION Spec
INVARIANTS TypeOK ProgramRestored RefusedNumbersFail NoKernelWordReturned
