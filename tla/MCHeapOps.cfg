\* every sequence of pushes and pops on a heap of up to seven items
CONSTANTS
  NaN = NaN
  Items <- MCItems
  MaxLen = 7
SPECIFICATION HeapSpec
PROPERTY PopsLeast
