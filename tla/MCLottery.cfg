SPECIFICATION FairSpec
CONSTANTS
  NPROC = 2
  Nice = {1, 2}
  DEFAULT_NICE_VALUE = 2
PROPERTY NoStarvation
