----------------------------- MODULE KeyBundle -----------------------------
(***************************************************************************)
(* The password of an account and its wrapped sync key: AuthService::      *)
(* ChangePassword and PUT /v1/sync/key-bundle over two groups of columns   *)
(* of the users row.  ChangePassword reads the row, verifies and hashes on *)
(* the CPU pool, and then writes the verifier and the bundle in two store  *)
(* calls; both handlers number the bundle from the row they have read.     *)
(*                                                                         *)
(* A verifier is the password it accepts, a bundle the password that       *)
(* unwraps it.  Clients wrap under the password they set or, for a PUT,    *)
(* under the one that is current when they send the request.               *)
(***************************************************************************)
EXTENDS Naturals, FiniteSets

CONSTANTS
  Passwords,    \* passwords of the account
  First,        \* the one it was registered with
  Handlers,     \* pool threads
  MaxRequests,  \* bound on the number of requests
  MaxKills      \* bound on the number of crashes

ASSUME KeyAssumption == First \in Passwords

VARIABLES
  exists,            \* the row of the account
  verifier,          \* password_salt and password_verifier
  bundle,            \* wrapped_sync_key and its parameters
  sync_key_version,
  point,             \* [Handlers -> "idle", "verify", "credentials", "bundle"]
  req,               \* [Handlers -> [op, old, new]]: the request
  row,               \* [Handlers -> [verifier, version]]: the row as read
  requests, kills,
  stored,            \* history: number of bundles stored
  overtaken,         \* history, SUBSET Handlers: the row was written by another
                     \* request since this one read it
  clashed,           \* history: an overtaken request wrote, or a crash came
                     \* between the two writes of a password change, and no
                     \* other bundle was stored since
  miscounted,        \* history: an overtaken request stored a bundle
  past               \* history: the passwords the account has accepted

account_vars == <<exists, verifier, bundle, sync_key_version>>
key_history == <<stored, overtaken, clashed, miscounted, past>>
key_vars == <<account_vars, point, req, row, requests, kills, key_history>>

NoRequest == [op |-> "none", old |-> First, new |-> First]
NoRow == [verifier |-> First, version |-> 0]

KeyInit ==
  /\ exists = TRUE
  /\ verifier = First
  /\ bundle = First
  /\ sync_key_version = 1
  /\ point = [w \in Handlers |-> "idle"]
  /\ req = [w \in Handlers |-> NoRequest]
  /\ row = [w \in Handlers |-> NoRow]
  /\ requests = 0
  /\ kills = 0
  /\ stored = 0
  /\ overtaken = {}
  /\ clashed = FALSE
  /\ miscounted = FALSE
  /\ past = {First}

----------------------------------------------------------------------------
\* What the history records of a write of the verifier and of the bundle by w.
Overtake(w) == overtaken' = overtaken \cup {v \in Handlers \ {w} : point[v] # "idle"}

RecordVerifier(w) ==
  /\ Overtake(w)
  /\ clashed' = (clashed \/ w \in overtaken)
  /\ past' = past \cup {req[w].new}
  /\ UNCHANGED <<stored, miscounted>>

RecordBundle(w) ==
  /\ Overtake(w)
  /\ clashed' = (w \in overtaken)
  /\ miscounted' = (miscounted \/ w \in overtaken)
  /\ stored' = stored + 1
  /\ UNCHANGED past

\* FindById; a request for a deleted account ends here.
FindById(w, r, next) ==
  /\ point[w] = "idle"
  /\ exists
  /\ requests < MaxRequests
  /\ point' = [point EXCEPT ![w] = next]
  /\ req' = [req EXCEPT ![w] = r]
  /\ row' = [row EXCEPT ![w] = [verifier |-> verifier, version |-> sync_key_version]]
  /\ requests' = requests + 1
  /\ overtaken' = overtaken \ {w}
  /\ UNCHANGED <<account_vars, kills, stored, clashed, miscounted, past>>

\* Requests without the three fields of the bundle are refused and change
\* nothing.
ChangeFind(w) ==
  \E old, new \in Passwords :
    FindById(w, [op |-> "change", old |-> old, new |-> new], "verify")

PutFind(w) ==
  FindById(w, [op |-> "put", old |-> verifier, new |-> verifier], "bundle")

Returns(w) ==
  /\ point' = [point EXCEPT ![w] = "idle"]
  /\ req' = [req EXCEPT ![w] = NoRequest]
  /\ row' = [row EXCEPT ![w] = NoRow]

\* hasher_.Verify against the row as it was read, then hasher_.Hash.
ChangeVerify(w) ==
  /\ point[w] = "verify"
  /\ IF req[w].old = row[w].verifier
       THEN point' = [point EXCEPT ![w] = "credentials"] /\ UNCHANGED <<req, row>>
       ELSE Returns(w)
  /\ UNCHANGED <<account_vars, requests, kills, key_history>>

\* UpdatePasswordCredentials
ChangeCredentials(w) ==
  /\ point[w] = "credentials"
  /\ IF exists
       THEN /\ verifier' = req[w].new
            /\ RecordVerifier(w)
            /\ point' = [point EXCEPT ![w] = "bundle"]
            /\ UNCHANGED <<req, row>>
       ELSE UNCHANGED <<verifier, key_history>> /\ Returns(w)
  /\ UNCHANGED <<exists, bundle, sync_key_version, requests, kills>>

\* Mutant of SetSyncKeyBundle: the version is stored, the key is kept.
SetSyncKeyVersion(w) ==
  /\ sync_key_version' = row[w].version + 1
  /\ UNCHANGED bundle

SetSyncKeyBundle(w) ==
  /\ bundle' = req[w].new
  /\ sync_key_version' = row[w].version + 1

\* The last store call of both handlers.
StoreBundle(w) ==
  /\ point[w] = "bundle"
  /\ IF exists
       THEN SetSyncKeyBundle(w) /\ RecordBundle(w)
       ELSE UNCHANGED <<bundle, sync_key_version, key_history>>
  /\ Returns(w)
  /\ UNCHANGED <<exists, verifier, requests, kills>>

\* AdminService::DeleteUser.
RowDeleted ==
  /\ exists
  /\ exists' = FALSE
  /\ UNCHANGED <<verifier, bundle, sync_key_version, point, req, row, requests,
                 kills, key_history>>

KeyCrash ==
  /\ kills < MaxKills
  /\ kills' = kills + 1
  /\ clashed' = (clashed \/ \E w \in Handlers : point[w] = "bundle" /\ req[w].op = "change")
  /\ point' = [w \in Handlers |-> "idle"]
  /\ req' = [w \in Handlers |-> NoRequest]
  /\ row' = [w \in Handlers |-> NoRow]
  /\ overtaken' = {}
  /\ UNCHANGED <<account_vars, requests, stored, miscounted, past>>

KeyNext ==
  \/ \E w \in Handlers :
       \/ ChangeFind(w) \/ PutFind(w) \/ ChangeVerify(w)
       \/ ChangeCredentials(w) \/ StoreBundle(w)
  \/ RowDeleted
  \/ KeyCrash

KeySpec == KeyInit /\ [][KeyNext]_key_vars

----------------------------------------------------------------------------
\* Types of the account's row and of the handlers.
KeyTypeOK ==
  /\ {exists, clashed, miscounted} \subseteq BOOLEAN
  /\ {verifier, bundle} \subseteq Passwords
  /\ sync_key_version \in Nat
  /\ point \in [Handlers -> {"idle", "verify", "credentials", "bundle"}]
  /\ req \in [Handlers -> [op : {"none", "change", "put"}, old : Passwords,
                          new : Passwords]]
  /\ row \in [Handlers -> [verifier : Passwords, version : Nat]]
  /\ {requests, kills, stored} \subseteq Nat
  /\ overtaken \subseteq Handlers
  /\ past \subseteq Passwords

\* GET /v1/sync/key-bundle gives a new device what the password unwraps: when
\* no handler is under way the stored bundle is wrapped under the password the
\* account accepts.  A request that writes over a write it had not seen, and a
\* crash between the two writes of a password change, can leave the two apart,
\* but only until the next bundle is stored by a request that nobody overtook;
\* and the key is never lost: even then the bundle is wrapped under a password
\* the account has accepted.  Both handlers number the bundle from a row read
\* earlier: the version is never ahead of the number of bundles stored, and
\* counts them until an overtaken request stores one.
KeyRecoverable ==
  /\ bundle \in past
  /\ sync_key_version <= stored + 1
  /\ miscounted \/ sync_key_version = stored + 1
  /\ exists /\ ~ clashed /\ (\A w \in Handlers : point[w] = "idle") => bundle = verifier
=============================================================================
