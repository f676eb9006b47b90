SPECIFICATION Spec
CONSTANTS
    Prompts <- MCPrompts
    MaxLines = 4
    MaxBlocks = 2
    None = None
INVARIANTS TextInOrder FailureShown FinishFaithful PromptArrives
CHECK_DEADLOCK FALSE
