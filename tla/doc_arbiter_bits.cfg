SPECIFICATION Spec
CONSTANT OsBits = {0, 1}
PROPERTY ArbiterPriorityOnly
