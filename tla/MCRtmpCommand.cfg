SPECIFICATION Spec
CONSTANTS
    NumberLen = 2
    Messages <- MCMessages
    Tails <- MCTails
INVARIANTS TypeOK DecodedAsWritten CommandsUnderstood AppIsWhatConnectNames NestingBounded
PROPERTIES DecoderLowers
