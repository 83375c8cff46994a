SPECIFICATION Spec
CONSTANT Threads = {t1, t2, t3}
INVARIANT EveryReaderIsWoken
