\* Halves of 6 bits: all 4096 numbers, and operands at the boundaries.
SPECIFICATION Spec
CONSTANTS
  HalfBits = 6
  Half = 32
  Digits = 2
  OperandBits = {0, 1, 21, 32, 64, 65, 128, 192, 320, 1024, 2047,
                 2048, 2049, 3776, 3903, 4031, 4032, 4033, 4075, 4095}
INVARIANT ModIsFloored
