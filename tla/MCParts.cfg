CONSTANTS m1 = m1
          m2 = m2
          m3 = m3
          m4 = m4
SYMMETRY Sym
SPECIFICATION Spec
CHECK_DEADLOCK FALSE
INVARIANT TypeOK
INVARIANT FetchIsComplete
INVARIANT WatchIsFaithful
 
INVARIANT DatabasesAreRight
 
 
INVARIANT CopiesAreChecked
PROPERTY WorkIsInOrder
PROPERTY EtcdIsBelieved
 
PROPERTY NothingGoesBack
PROPERTY ConnectionsAreSound
