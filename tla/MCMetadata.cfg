CONSTANT Sid = {s1}
SPECIFICATION Spec
CHECK_DEADLOCK FALSE
INVARIANT MetadataExists
