\* Three effects; a script that orders, registers and unregisters any of them.
SPECIFICATION Spec
CONSTANTS
    Canonical <- MCCanonical
    RenderOrders <- MCRenderOrders
    Overrides <- MCOverrides
    Default = Default
INVARIANTS
    FramesShowChain
    TemporaryReturned
    FailuresExplained
    RegistriesMirror
