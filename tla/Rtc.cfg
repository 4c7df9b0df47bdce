CONSTANTS
  Freqs = {0, 2, 32, 1000, 1024, 2048}
  FirmwareA = 38
SPECIFICATION FairSpec
INVARIANTS TypeOK RateAsRequested ReadWaitsForTick NoTickLost
PROPERTIES CallsReturn
