\* Two processes start up on one user's directories.
SPECIFICATION SetupSpec
CONSTANTS
    h1 = h1  h2 = h2
    Handles = {h1, h2}
    AppIds <- MCAppIds
    IssuedKeys <- MCIssuedKeys
    RawIds = {"user"}
    Hosts <- MCHosts
    Licences <- MCLicences
    TypedKeys <- MCTypedKeys
    KeyBuffer = 6
    KeySegment = 32
    Faults = {"memory"}
    MaxChanges = 1
    MaxSettings = 2
    MaxFiles = 1
INVARIANTS
    SetupTypeOK
    SharedCache
    RightMachine
    TypoOpensNoHandle
    KeyIsRecognised
SYMMETRY SwapHandles
