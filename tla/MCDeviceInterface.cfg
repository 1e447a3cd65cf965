CONSTANTS
    Buffers = {"x", "z"}
    Views = {"v"}
    SizeOf <- MCSizeOf
    ClientHost = {"x"}
    Interfaces = {"cuda", "opencl"}
    Pooled = {"cuda"}
    Croppable = {"cuda", "opencl"}
    Boxed = {"opencl"}
    DeviceMemory = {1, 2}
    NativeMemory = {9}
    MaxDepth = 0
    MaxFuse = 3
    MaxRefused = 1
    MayMixSizes = FALSE
    MayOverwriteDirty = FALSE
SPECIFICATION Spec
INVARIANTS Coherent MemoryIsOwned UsesBalance
CHECK_DEADLOCK FALSE
