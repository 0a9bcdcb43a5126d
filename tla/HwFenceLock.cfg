\* Three CPUs of the primary VM and the fence controller contend for one word.
CONSTANT Cpus = {c1, c2, c3}
SPECIFICATION Spec
INVARIANTS TypeOK MutualExclusion NoLostWakeup
PROPERTY SvmGetsLock
