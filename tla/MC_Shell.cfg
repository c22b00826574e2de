CONSTANTS
  MAX_HEAP_OBJECTS = 16
  MaxMains = 10
SPECIFICATION Spec
INVARIANTS TypeOK TwoBlankObjects HeapLasts NamesOnly KernelHeapLasts
