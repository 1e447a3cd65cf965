-------------------------- MODULE MCDeviceInterface --------------------------
EXTENDS DeviceInterface

MCSizeOf == [b \in Buffers |-> IF b = "z" THEN 16 ELSE 17]
=============================================================================
