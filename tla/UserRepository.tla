--------------------------- MODULE UserRepository ---------------------------
(***************************************************************************)
(* The rows of users that registration creates.  Names compare COLLATE     *)
(* NOCASE: Username gives the name up to case.                             *)
(***************************************************************************)
EXTENDS DeviceRepository

CONSTANT Username    \* [Users -> names up to case]

FindByUsername(name) == {u \in users : Username[u] = name}

\* Mutant of CreateUser: the name is not looked up again.
CreateUserUnchecked(u) == users' = users \cup {u} /\ UNCHANGED devices

\* Look-up and insert are under one WriteLock.
CreateUser(u) ==
  /\ FindByUsername(Username[u]) = {}
  /\ users' = users \cup {u}
  /\ UNCHANGED devices
=============================================================================
