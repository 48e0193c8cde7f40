\* The scan over manifests holding a line longer than 64 KiB.
CONSTANTS
    Lines <- LongLines
    MaxLines = 5
SPECIFICATION Spec
INVARIANT SanitizeMatchesSpec
