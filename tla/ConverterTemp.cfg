CONSTANT Files = {"one", "two", "three"}
SPECIFICATION ConverterSpec
INVARIANT RemovesTempOnly
CHECK_DEADLOCK FALSE
