CONSTANTS
    MaxThreadLimit = 6
    Args <- SampleArgs
SPECIFICATION Spec
INVARIANT CheckedSettings
