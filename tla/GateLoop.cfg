SPECIFICATION Spec
CONSTANTS
    CVE = {c1}
    Reports <- MCReports
INVARIANTS
    DecisionIsReference
    PassIffClean
