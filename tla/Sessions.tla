------------------------------ MODULE Sessions ------------------------------
(***************************************************************************)
(* AuthenticationService, IdentityService and the cached token repository: *)
(* requests that log in, refresh, log out, validate and change users, over *)
(* a cache in memory and the tokens and users collections of MongoDB.  A   *)
(* request does one thing at a time: one access to the cache under its     *)
(* mutex, or one call of the database, which may fail.                     *)
(***************************************************************************)
EXTENDS Naturals, FiniteSets

CONSTANTS Users,     \* users by ID
          Requests,  \* requests handled at the same time
          NoUser,    \* the request holds no row
          MaxPairs,  \* bound: pairs of tokens minted
          MaxExpired,\* bound: tokens that expire
          Mortal,    \* bound: the pairs whose tokens may
          MaxFaults  \* bound: writes to the tokens collection that fail

ASSUME NoUserAssumption == NoUser \notin Users
ASSUME BoundsAssumption == {MaxPairs, MaxExpired, MaxFaults} \subseteq Nat

Pairs == 1..MaxPairs
Token == {"access", "refresh"} \X Pairs
Access(k) == <<"access", k>>
Refresh(k) == <<"refresh", k>>

VARIABLES
  row,      \* the users collection: [state: "new" | "stored" | "deleted", password]
  db,       \* tokens in the database
  cache,    \* tokens in accessCache and refreshCache
  claims,   \* the user signed in the JWTs of each minted pair
  expired,  \* tokens whose expiresAt has passed
  req,      \* the requests being handled
  faults,   \* writes to the tokens collection that have failed
  given,    \* history: pairs returned to a client
  spent,    \* history: tokens a call that returned nil has revoked
  raced     \* history: tokens that another request held when they were deleted, or cached after,
            \* since the process started

vars == <<row, db, cache, claims, expired, req, faults, given, spent, raced>>

minted == DOMAIN claims
Row == [state : {"new", "stored", "deleted"}, password : BOOLEAN]
Idle == [op |-> "none", at |-> "idle", pair |-> 0, new |-> 0, user |-> NoUser, late |-> FALSE]

Init ==
    /\ \E seeded \in SUBSET Users :  \* rows with a password are in the database from before
         row = [u \in Users |-> [state    |-> IF u \in seeded THEN "stored" ELSE "new",
                                 password |-> u \in seeded]]
    /\ db = {} /\ cache = {} /\ claims = <<>> /\ expired = {}
    /\ req = [r \in Requests |-> Idle]
    /\ faults = 0
    /\ given = {} /\ spent = {} /\ raced = {}

-----------------------------------------------------------------------------
(* A request: where it is, what it works on *)

Stored(u) == row[u].state = "stored"
At(r, op, place) == req[r].op \in op /\ req[r].at = place
Goto(r, place) == req' = [req EXCEPT ![r].at = place]
Fail(r) == req' = [req EXCEPT ![r] = Idle]

\* The token that a request presents, and the one that it is storing.
Presented(r) == IF req[r].op = "refresh" THEN Refresh(req[r].pair) ELSE Access(req[r].pair)
Storing(r) == IF req[r].at = "insert_refresh" THEN Refresh(req[r].new) ELSE Access(req[r].new)

\* History of the overlaps: some request is between the two halves of deleting the token ...
BeingDeleted(t) ==
    \E d \in Requests : At(d, {"refresh", "logout"}, "delete") /\ Presented(d) = t

\* ... or another than r has found it valid, and is about to cache it, or to delete it in turn.
HeldBesides(r, t) ==
    \E s \in Requests \ {r} :
        /\ req[s].op \in {"refresh", "validate"}
        /\ req[s].at \in {"fill", "get_user", "uncache", "delete"}
        /\ Presented(s) = t

\* A write of the tokens collection, and one that fails: it may have had its effect.
Written(new) == db' = new /\ UNCHANGED faults
Faulty(new) ==
    /\ faults < MaxFaults
    /\ faults' = faults + 1
    /\ db' \in {db, new}

\* GenerateTokens: new UUIDs, signed for the user whose row was read before; StoreAccessToken
\* puts its token in the cache first.  Nobody knows the token yet: the two are one step.
Mint(r, request) ==
    LET k == Cardinality(minted) + 1 IN
    /\ k \in Pairs
    /\ claims' = [i \in minted \cup {k} |-> IF i = k THEN request.user ELSE claims[i]]
    /\ cache' = cache \cup {Access(k)}
    /\ req' = [req EXCEPT ![r] = [request EXCEPT !.new = k, !.at = "insert_access"]]

-----------------------------------------------------------------------------
(* Login, RefreshToken, Logout, ValidateToken *)

\* GetUserByUsername; a wrong password, or the row of CreateUser, which has none, is refused.
\* For a name with no row FindByUsername panics, in Register too, which then never creates one.
Login(r, u) ==
    /\ req[r] = Idle
    /\ Stored(u) /\ row[u].password
    /\ Mint(r, [Idle EXCEPT !.op = "login", !.user = u])
    /\ UNCHANGED <<row, db, expired, faults, given, spent, raced>>

\* A client presents a token it was given; the JWT is refused once it has expired.
Begin(r, op, token) ==
    /\ req[r] = Idle
    /\ token[2] \in given
    /\ token \notin expired
    /\ req' = [req EXCEPT ![r] =
                 [Idle EXCEPT !.op = op, !.pair = token[2],
                              !.at = IF op = "logout" THEN "uncache" ELSE "look",
                              !.late = op = "refresh" /\ ~Stored(claims[token[2]])]]
    /\ UNCHANGED <<row, db, cache, claims, expired, faults, given, spent, raced>>

RefreshToken(r, k) == Begin(r, "refresh", Refresh(k))
Logout(r, k) == Begin(r, "logout", Access(k))
ValidateToken(r, k) == Begin(r, "validate", Access(k))

\* The repository's validation: what the request does once its token is known to be stored.
Known(r) == Goto(r, IF req[r].op = "refresh" THEN "get_user" ELSE "accepted")

Look(r) ==
    /\ At(r, {"refresh", "validate"}, "look")
    /\ LET t == Presented(r) IN
       IF t \notin cache THEN Goto(r, "find") /\ UNCHANGED cache
       ELSE IF t \in expired THEN cache' = cache \ {t} /\ Fail(r)
       ELSE Known(r) /\ UNCHANGED cache
    /\ UNCHANGED <<row, db, claims, expired, faults, given, spent, raced>>

\* FindOne: an error, no document and an expired one all refuse the token.
Find(r) ==
    /\ At(r, {"refresh", "validate"}, "find")
    /\ \/ Presented(r) \in db \ expired /\ Goto(r, "fill")
       \/ Fail(r)
    /\ UNCHANGED <<row, db, cache, claims, expired, faults, given, spent, raced>>

Fill(r) ==
    /\ At(r, {"refresh", "validate"}, "fill")
    /\ cache' = cache \cup {Presented(r)}
    /\ Known(r)
    /\ raced' = raced \cup {t \in {Presented(r)} : BeingDeleted(t)}
    /\ UNCHANGED <<row, db, claims, expired, faults, given, spent>>

\* A refresh that has found its user goes on with the row.
Found(r, u) == req' = [req EXCEPT ![r] = [@ EXCEPT !.at = "uncache", !.user = u]]

\* Mutant: the error of GetUserByID is ignored, the claims of the token stand in for the row.
GetUserUnchecked(r) ==
    /\ At(r, {"refresh"}, "get_user")
    /\ Found(r, claims[req[r].pair])
    /\ UNCHANGED <<row, db, cache, claims, expired, faults, given, spent, raced>>

GetUser(r) ==
    /\ At(r, {"refresh"}, "get_user")
    /\ \/ /\ Stored(claims[req[r].pair])
          /\ Found(r, claims[req[r].pair])
       \/ Fail(r)
    /\ UNCHANGED <<row, db, cache, claims, expired, faults, given, spent, raced>>

\* Mutant: the token is deleted in the database only.
UncacheForgotten(r) ==
    /\ At(r, {"refresh", "logout"}, "uncache")
    /\ Goto(r, "delete")
    /\ UNCHANGED <<row, db, cache, claims, expired, faults, given, spent, raced>>

\* DeleteAccessToken and DeleteRefreshToken: the cache under the mutex, then the database.
Uncache(r) ==
    /\ At(r, {"refresh", "logout"}, "uncache")
    /\ cache' = cache \ {Presented(r)}
    /\ Goto(r, "delete")
    /\ UNCHANGED <<row, db, claims, expired, faults, given, spent, raced>>

\* The delete returned nil: a logout returns nil, a refresh goes on.
Revoked(r) ==
    IF req[r].op = "refresh" THEN Goto(r, "mint") /\ UNCHANGED spent
    ELSE Fail(r) /\ spent' = spent \cup {Presented(r)}

\* Mutant: an error of DeleteOne is reported as success.
DeleteUnchecked(r) ==
    /\ At(r, {"refresh", "logout"}, "delete")
    /\ Written(db \ {Presented(r)}) \/ Faulty(db \ {Presented(r)})
    /\ raced' = raced \cup {t \in {Presented(r)} : HeldBesides(r, t)}
    /\ Revoked(r)
    /\ UNCHANGED <<row, cache, claims, expired, given>>

\* DeleteOne: that no document matched is no error; a call that fails may have had its effect.
Delete(r) ==
    /\ At(r, {"refresh", "logout"}, "delete")
    /\ raced' = raced \cup {t \in {Presented(r)} : HeldBesides(r, t)}
    /\ \/ /\ Written(db \ {Presented(r)})
          /\ Revoked(r)
       \/ Faulty(db \ {Presented(r)}) /\ Fail(r) /\ UNCHANGED spent
    /\ UNCHANGED <<row, cache, claims, expired, given>>

Regenerate(r) ==
    /\ At(r, {"refresh"}, "mint")
    /\ Mint(r, req[r])
    /\ UNCHANGED <<row, db, expired, faults, given, spent, raced>>

-----------------------------------------------------------------------------
(* StoreAccessToken, then StoreRefreshToken: the cache, then InsertOne *)

\* The insert took effect: after the access token the refresh token is next.
Inserted(r) ==
    /\ Written(db \cup {Storing(r)})
    /\ IF req[r].at = "insert_access"
       THEN cache' = cache \cup {Refresh(req[r].new)} /\ Goto(r, "insert_refresh")
       ELSE UNCHANGED cache /\ Goto(r, "save_user")

\* Mutant: the token whose insert failed stays in the cache.
InsertKeepsCached(r) ==
    /\ req[r].at \in {"insert_access", "insert_refresh"}
    /\ \/ Inserted(r)
       \/ /\ Faulty(db \cup {Storing(r)})
          /\ cache' = cache \ ({Access(req[r].new)} \ {Storing(r)})
          /\ IF req[r].at = "insert_access" THEN Fail(r) ELSE Goto(r, "drop_stored")
    /\ UNCHANGED <<row, claims, expired, given, spent, raced>>

\* An insert that fails, with or without effect, takes its token out of the cache; when it was
\* the refresh token, the access token stored before it is deleted, first from the cache.
Insert(r) ==
    /\ req[r].at \in {"insert_access", "insert_refresh"}
    /\ \/ Inserted(r)
       \/ /\ Faulty(db \cup {Storing(r)})
          /\ cache' = cache \ {Storing(r), Access(req[r].new)}
          /\ IF req[r].at = "insert_access" THEN Fail(r) ELSE Goto(r, "drop_stored")
    /\ UNCHANGED <<row, claims, expired, given, spent, raced>>

\* The error of this DeleteAccessToken is ignored.
DropStored(r) ==
    /\ req[r].at = "drop_stored"
    /\ Written(db \ {Access(req[r].new)}) \/ Faulty(db \ {Access(req[r].new)})
    /\ Fail(r)
    /\ UNCHANGED <<row, cache, claims, expired, given, spent, raced>>

\* Mutant: the row is written whether or not it is still there.
Upsert(u) == row' = [row EXCEPT ![u].state = "stored"]

\* UpdateUser of the repository: ReplaceOne by ID, no upsert, with the copy the request holds.
\* The copy differs from the row in fields the model leaves out, and in being there.
Replace(u) == Stored(u) /\ row' = [row EXCEPT ![u].state = "stored"]

\* The whole row read at the start is written back, its error ignored; then the pair is returned.
SaveUser(r) ==
    /\ req[r].at = "save_user"
    /\ \/ Replace(req[r].user)
       \/ UNCHANGED row
    /\ given' = given \cup {req[r].new}
    /\ spent' = IF req[r].op = "refresh" THEN spent \cup {Presented(r)} ELSE spent
    /\ Fail(r)
    /\ UNCHANGED <<db, cache, claims, expired, faults, raced>>

\* The validated request goes on to its handler.
Serve(r) ==
    /\ At(r, {"validate"}, "accepted")
    /\ Fail(r)
    /\ UNCHANGED <<row, db, cache, claims, expired, faults, given, spent, raced>>

-----------------------------------------------------------------------------
(* IdentityService *)

\* Its row has no password.
CreateUser(u) ==
    /\ row[u].state = "new"
    /\ row' = [row EXCEPT ![u].state = "stored"]
    /\ UNCHANGED <<db, cache, claims, expired, req, faults, given, spent, raced>>

DeleteUser(u) ==
    /\ Stored(u)
    /\ row' = [row EXCEPT ![u].state = "deleted"]
    /\ UNCHANGED <<db, cache, claims, expired, req, faults, given, spent, raced>>

\* GetUserByID of UpdateUser, AssignRole or AddUserToGroup.
ReadUser(r, u) ==
    /\ req[r] = Idle
    /\ Stored(u)
    /\ req' = [req EXCEPT ![r] = [Idle EXCEPT !.op = "update", !.at = "write", !.user = u]]
    /\ UNCHANGED <<row, db, cache, claims, expired, faults, given, spent, raced>>

WriteUser(r) ==
    /\ At(r, {"update"}, "write")
    /\ \/ Replace(req[r].user)
       \/ UNCHANGED row
    /\ Fail(r)
    /\ UNCHANGED <<db, cache, claims, expired, faults, given, spent, raced>>

-----------------------------------------------------------------------------
(* Time, the ticker, the TTL index of the collection, a restart *)

Expire(t) ==
    /\ t[2] \in given \cap Mortal
    /\ t \notin expired /\ Cardinality(expired) < MaxExpired
    /\ expired' = expired \cup {t}
    /\ UNCHANGED <<row, db, cache, claims, req, faults, given, spent, raced>>

CleanExpiredTokens ==
    /\ cache \cap expired # {}
    /\ cache' = cache \ expired
    /\ UNCHANGED <<row, db, claims, expired, req, faults, given, spent, raced>>

TTL ==
    /\ db \cap expired # {}
    /\ db' = db \ expired
    /\ UNCHANGED <<row, cache, claims, expired, req, faults, given, spent, raced>>

Restart ==
    /\ cache' = {}
    /\ req' = [r \in Requests |-> Idle]
    /\ raced' = {}
    /\ UNCHANGED <<row, db, claims, expired, faults, given, spent>>

-----------------------------------------------------------------------------

\* The calls of the token repository, as the steps they take.
ValidateAccessToken(r) == req[r].op = "validate" /\ (Look(r) \/ Find(r) \/ Fill(r))
ValidateRefreshToken(r) == req[r].op = "refresh" /\ (Look(r) \/ Find(r) \/ Fill(r))
DeleteAccessToken(r) == req[r].op = "logout" /\ (Uncache(r) \/ Delete(r))
DeleteRefreshToken(r) == req[r].op = "refresh" /\ (Uncache(r) \/ Delete(r))
StoreAccessToken(r) == req[r].at = "insert_access" /\ Insert(r)
StoreRefreshToken(r) == req[r].at = "insert_refresh" /\ Insert(r)

Step(r) ==
    \/ ValidateAccessToken(r) \/ ValidateRefreshToken(r)
    \/ DeleteAccessToken(r) \/ DeleteRefreshToken(r)
    \/ StoreAccessToken(r) \/ StoreRefreshToken(r)
    \/ GetUser(r) \/ Regenerate(r) \/ DropStored(r) \/ SaveUser(r) \/ Serve(r) \/ WriteUser(r)

Next ==
    \/ \E r \in Requests : Step(r)
    \/ \E r \in Requests, u \in Users :
         Login(r, u) \/ ReadUser(r, u)
    \/ \E r \in Requests, k \in given :
         RefreshToken(r, k) \/ Logout(r, k) \/ ValidateToken(r, k)
    \/ \E u \in Users : CreateUser(u) \/ DeleteUser(u)
    \/ \E t \in Token : Expire(t)
    \/ CleanExpiredTokens
    \/ TTL
    \/ Restart

Spec == Init /\ [][Next]_vars

-----------------------------------------------------------------------------

Places == {"idle", "look", "find", "fill", "get_user", "uncache", "delete", "mint",
           "insert_access", "insert_refresh", "drop_stored", "save_user", "accepted", "write"}

Request == [op   : {"none", "login", "refresh", "logout", "validate", "update"},
            at   : Places,
            pair : minted \cup {0},
            new  : minted \cup {0},
            user : Users \cup {NoUser},
            late : BOOLEAN]

\* The variables have their types, and a request in flight presents or mints a known pair.
TypeOK ==
    /\ row \in [Users -> Row]
    /\ minted \subseteq Pairs /\ claims \in [minted -> Users]
    /\ {db, cache, expired, spent, raced} \subseteq SUBSET {t \in Token : t[2] \in minted}
    /\ given \subseteq minted /\ faults \in 0..MaxFaults
    /\ req \in [Requests -> Request]

\* A token revoked by a call that returned nil, the access token of a Logout or the refresh
\* token a refresh has consumed, is in the database no more, whatever the other requests, the
\* failures and a restart; and in the cache only if a request that had found it valid put it
\* there while it was being deleted or after: then the memory of this process accepts it still.
RevokedForGood == spent \cap db = {} /\ spent \cap cache \subseteq raced

\* A refresh token is consumed once: a refresh gets past the deletion of a token with which
\* another one has obtained its pair only if the two overlapped, the one holding the token
\* found valid when the other deleted it; that there was nothing left to delete stops nobody.
ConsumedOnce ==
    \A r \in Requests :
        /\ req[r].op = "refresh" /\ Presented(r) \in spent
        /\ req[r].at \in {"mint", "insert_access", "insert_refresh", "drop_stored", "save_user"}
        => Presented(r) \in raced

\* A live token in the cache is in the database, or its own request is still storing it, or it
\* was deleted while another request held it: the cache never vouches for a token that was not
\* stored, and for one that was deleted only after such a race.
CacheVouches ==
    \A t \in cache \ (db \cup expired \cup raced) :
        \E r \in Requests :
            /\ Storing(r) = t
            /\ req[r].at \in {"insert_access", "insert_refresh"}

\* A refresh that starts when the user is already deleted obtains no tokens.
DeletedUserGetsNothing ==
    \A r \in Requests : req[r].op = "refresh" /\ req[r].late => req[r].new = 0

\* A user deleted while a login, a refresh or an update holds a copy of its row is not brought
\* back by the write of that copy.
DeletedStaysDeleted ==
    [][\A u \in Users : row[u].state = "deleted" => row'[u].state = "deleted"]_vars

=============================================================================
