SPECIFICATION Spec
CONSTANTS
  e = e
  c1 = c1
  c2 = c2
  s1 = s1
  s2 = s2
  x = x
  Driver = Driver
  None = None
  Envs = {e}
  Dbcs = {c1, c2}
  Stmts = {s1, s2}
  Descs = {x}
  Roles = {"ard", "ird"}
CONSTRAINT FewPosted
SYMMETRY Alike
INVARIANTS
  TypeOK
  RegistryIsLive
  NothingLeaks
  DescriptorsAreUsable
  DiagnosticsTellLastCall
