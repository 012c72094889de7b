CONSTANTS
  Wrap = 5
  Gap = 2
  LoopGap = 2
SPECIFICATION Spec
INVARIANT TypeOK
INVARIANT DurationIsExact
INVARIANT ClosedIsKnown
PROPERTY ReconnectsApart
PROPERTY LoopsApart
