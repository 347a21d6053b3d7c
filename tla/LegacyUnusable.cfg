CONSTANT MaxLines = 4
SPECIFICATION Spec
INVARIANT UnusableMeansDefault
