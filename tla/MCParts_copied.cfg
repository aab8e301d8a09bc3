CONSTANTS m1 = m1
          m2 = m2
          m3 = m3
          m4 = m4
SPECIFICATION Spec
CHECK_DEADLOCK FALSE
INVARIANT CopyAlwaysSucceeds
