CONSTANTS
    MaxBoots <- MCMaxBoots
    RunFspGop = TRUE
SPECIFICATION Spec
INVARIANT ResumeRepeatsBoot
