\* Three contents; either load, with and without failures of moving back.
SPECIFICATION Spec
CONSTANTS
    Values = {v1, v2, v3}
    Absent = Absent
    Torn = Torn
INVARIANT AcknowledgedSurvives
 
