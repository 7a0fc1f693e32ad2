SPECIFICATION Spec
INVARIANTS TypeOK ColumnsAgree DeliveredFirst
PROPERTIES CancelIsRequested WriteRightIsLostForGood
CHECK_DEADLOCK FALSE
