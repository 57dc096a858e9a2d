SPECIFICATION Spec
PROPERTY ServiceIndependentOfRpmsg
CHECK_DEADLOCK FALSE
