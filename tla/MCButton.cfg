CONSTANTS
  Wrap = 24
  BUTTON_BOOT_GUARD_MS = 3
  BUTTON_POST_ACTION_GUARD_MS = 2
  BUTTON_DEBOUNCE_MS = 3
  BUTTON_LONG_PRESS_MS = 5
  SEL_STABLE_MS = 2
  Bounce = 1
  MaxBusy = 2
SPECIFICATION ButtonSpec
INVARIANTS ButtonTypeOK NoPressLost
PROPERTY ActsAsPressed
