SPECIFICATION MCSpec
CONSTANT NumWords = 3
INVARIANTS TypeOK InStep
PROPERTIES InstrStreamSpec InstrProgress
