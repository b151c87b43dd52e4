CONSTANTS
  Users = {u1, u2}
  Teams = {t1}
  Domains = {d1}
  Mailboxes = {m1}
  Usernames = {ann, bob}
  TeamNames = {sales}
  LocalParts = {info}
  ZoneName <- Zone
  Patches <- OneField
  Requests = {r1, r2}
  Absent = Absent
SPECIFICATION Spec
SYMMETRY Symmetry
INVARIANTS AdminStays LinksResolve KeptWayAdmits
CHECK_DEADLOCK FALSE
