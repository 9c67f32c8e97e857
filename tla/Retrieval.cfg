SPECIFICATION Spec
CONSTANTS
  Owners <- Tenants
  Spaces = {s1}
  Profiles = {p1}
  Sources = {d1}
  Chunks = {k1}
  Shapes = {small, large}
  Clients = {c1, c2}
  None = None
PROPERTIES TenantsApart ActivationsHold
