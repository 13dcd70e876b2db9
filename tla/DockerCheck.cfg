SPECIFICATION DockerSpec
INVARIANTS NeverTemporary NoOrphan
PROPERTIES WaitsEnd
