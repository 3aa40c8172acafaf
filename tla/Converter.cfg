CONSTANT Files = {"one", "two", "three"}
SPECIFICATION ConverterSpec
INVARIANT NothingLostIfPacked
CHECK_DEADLOCK FALSE
