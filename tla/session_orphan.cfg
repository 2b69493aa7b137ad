SPECIFICATION Spec
CONSTANT Configs <- PlainCall
INVARIANT NoOrphanedCall
CHECK_DEADLOCK FALSE
