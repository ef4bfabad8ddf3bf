\* Administration, sign-ins, renewals and syncs in any order.
SPECIFICATION Spec
CONSTANTS
  Person = {Boss, fitter}
  Boss = Boss
  Site = {s1, s2}
  RoleAt <- MCRoleAt
  Token = {t1, t2}
  Worker = {w1}
  NoToken = NoToken
SYMMETRY Symmetry

  
  
PROPERTIES
  SyncReconciles
