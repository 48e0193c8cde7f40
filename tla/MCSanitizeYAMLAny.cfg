\* The scan over manifests of up to five lines, over-long and empty lines included.
CONSTANTS
    Lines <- AnyKubectlLines
    MaxLines = 5
SPECIFICATION Spec
INVARIANT SanitizedPrefix
INVARIANT OrdinaryMatchesSpec
