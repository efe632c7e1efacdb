CONSTANTS
  MaxReloads = 1
SPECIFICATION OnboardingSpec
PROPERTY EnrollmentRetried
CHECK_DEADLOCK FALSE
