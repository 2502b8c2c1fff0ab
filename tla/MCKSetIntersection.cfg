\* Every input of MCInputs, to its end.
CONSTANT Inputs <- MCInputs
SPECIFICATION Spec
INVARIANTS TypeOK PairsComplete FindsAllShared
PROPERTIES Terminates
