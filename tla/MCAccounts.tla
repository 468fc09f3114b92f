----------------------------- MODULE MCAccounts -----------------------------
(***************************************************************************)
(* Sessions, Prekeys and KeyBundle for TLC, side by side: in each          *)
(* behaviour one of them, chosen at the start, runs.  da and db are        *)
(* devices of user ua, dc of user ub, who asks for the same name in        *)
(* another case, and dd of user uc.  Ids s1, s2, s3 are issued to da, t1,  *)
(* t2 to db and r1 to dc; ka is the prekey id that two devices may both    *)
(* choose.                                                                 *)
(***************************************************************************)
EXTENDS Sessions, Prekeys, KeyBundle, TLC

CONSTANTS ua, ub, uc, da, db, dc, dd, s1, s2, s3, t1, t2, r1, w1, w2, ka, kb, old, new

MCOwner ==
  [d \in Devices |-> CASE d = dc -> ub [] d = dd -> uc [] OTHER -> ua]
MCUsername == [u \in Users |-> IF u = uc THEN "other" ELSE "name"]
MCSessionDevice ==
  [s \in SessionIds |-> IF s \in {s1, s2, s3} THEN da ELSE IF s = r1 THEN dc ELSE db]

\* Ids of one device are interchangeable, and so are the threads.
MCSymmetry ==
  Permutations({s1, s2, s3}) \cup Permutations({t1, t2}) \cup Permutations({w1, w2})

VARIABLE part    \* the component that runs

MCInit ==
  /\ HandlersInit /\ OtpInit /\ KeyInit
  /\ \/ part \in {"sessions", "keys"} /\ Init
     \/ part = "prekeys" /\ PrekeyInit /\ used_ids = users

MCNext ==
  /\ UNCHANGED part
  /\ \/ /\ part = "sessions" /\ Next
        /\ UNCHANGED <<otp_vars, fetch_vars, handed, accepted, key_vars>>
     \/ /\ part = "prekeys" /\ PrekeyNext
        /\ UNCHANGED <<session_vars, pc, job, clock, crashes, root, struck, used_ids,
                       key_vars>>
     \/ part = "keys" /\ KeyNext /\ UNCHANGED <<vars, prekey_vars>>

MCSpec == MCInit /\ [][MCNext]_<<part, vars, prekey_vars, key_vars>>

----------------------------------------------------------------------------
\* The tables, the handlers and the histories of the three have their types.
AccountsTypeOK ==
  CASE part = "sessions" -> TypeOK
    [] part = "prekeys" -> PrekeyTypeOK
    [] part = "keys" -> KeyTypeOK
=============================================================================
