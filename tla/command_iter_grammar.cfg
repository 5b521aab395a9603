CONSTANTS
    Builtins <- MCBuiltins
    Alphabet <- MCAlphabet
    MaxInput = 5
SPECIFICATION Spec
INVARIANT IterFollowsGrammar
