\* The search pipeline with two devices.
CONSTANTS
  Devices = 2
  LineSpan = 3
  LaunchSizes = {1, 4}
  MaxCounter = 3
  MaxAttempts = 2
SPECIFICATION Spec
INVARIANTS TypeOK SearchedOnce ResultsOfTheirLaunch ForgottenLaunchesKept
