CONSTANTS
    NsPerUs = 2
    UsPerSec = 3
    Wrap = 40
    Clocks <- FewClocks
SPECIFICATION Spec
INVARIANTS Normalised ExactIfItFits OffByLessThanASecond
