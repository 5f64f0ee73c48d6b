SPECIFICATION LoopSpec
CONSTANTS
    Payloads <- MCPayloads
INVARIANTS
    ClosedFormAgrees
