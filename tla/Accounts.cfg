CONSTANTS
  u1 = u1
  u2 = u2
  u3 = u3
  a1 = a1
  a2 = a2
  e1 = e1
  c1 = c1
  c2 = c2
  d1 = d1
  d2 = d2
  i1 = i1
  i2 = i2
  Users <- MCUsers
  Phones <- MCPhones
  Enterprises <- MCEnterprises
  Clients <- MCClients
  Admins <- MCAdmins
  Imports <- MCImports
  None = None
  Amounts = {1}
  MonthDays = 2
  MaxDay = 2
  MaxEvents = 5

SPECIFICATION ReportsSpec

SYMMETRY Symmetric

CHECK_DEADLOCK FALSE

INVARIANT RolesAgree
INVARIANT OwnerStays
INVARIANT FreeMeansFree
INVARIANT AuditTells
INVARIANT ReportsAgree
