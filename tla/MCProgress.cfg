CONSTANTS m1 = m1
          m2 = m2
          m3 = m3
SPECIFICATION Spec
CHECK_DEADLOCK FALSE
INVARIANT TypeOK
INVARIANT NoCheckFails
INVARIANT HeadsAreServable
INVARIANT OnlyServedHeads
PROPERTY ServingGrows
PROPERTY HeadsCatchUp
PROPERTY WorkEnds
PROPERTY EtcdFollows
PROPERTY Replicates
PROPERTY RequestsEnd
