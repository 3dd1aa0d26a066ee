\* One part at a time; every part stops once its bounds are used up.
CONSTANT Listed = {a, b}
SPECIFICATION Spec
PROPERTY
    ClientsSettle
CHECK_DEADLOCK FALSE
