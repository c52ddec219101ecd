\* Two executors that may write the same string-link.
CONSTANTS
  Nil = Nil
  Kinds = {"string", "link"}
  Executors = {m, a}
  Main = m
  Refs = {r1, r2, r3, r4}
SPECIFICATION Spec
SYMMETRY Memory
INVARIANT
  HeldAlive
