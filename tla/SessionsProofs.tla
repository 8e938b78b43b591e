--------------------------- MODULE SessionsProofs ---------------------------
(***************************************************************************)
(* Proofs about Sessions, for every number of users, requests, tokens and  *)
(* faults.  What is revoked stays out of the database because the only     *)
(* tokens a request inserts are those of the pair it minted, which nobody  *)
(* else holds (Fresh) and no client has been given before it is returned,  *)
(* while only what a client presents can be revoked (RevokedWasGiven).     *)
(* What the memory still accepts, and who still uses a token that another  *)
(* has consumed, was seen when the token was deleted (Races): whoever      *)
(* found it valid before holds it then, or has put it into the cache.      *)
(***************************************************************************)
EXTENDS Sessions, FiniteSetTheorems, TLAPS

\* Pairs are numbered from 1 as they are minted.
Numbered == \E n \in 0..MaxPairs : minted = 1..n

\* From the mint of a pair to the end of its request.
StoringPlaces == {"insert_access", "insert_refresh", "drop_stored", "save_user"}
IsStoring(r) == req[r].at \in StoringPlaces

\* A request holds what it works on: a client presents a pair it was given, a pair that is
\* stored was minted, and whoever mints or writes a row has found its user.
Equipped ==
    \A r \in Requests :
      /\ req[r].op \in {"refresh", "logout", "validate"} => req[r].pair \in given
      /\ IsStoring(r) => req[r].new \in minted
      /\ \/ IsStoring(r) \/ req[r].at \in {"mint", "write"}
         \/ req[r].op = "refresh" /\ req[r].at \in {"uncache", "delete"}
         => req[r].user \in Users

\* A pair that is being stored is its request's alone, and no client has it.
Fresh ==
    \A r \in Requests : IsStoring(r) =>
        /\ req[r].new \notin given
        /\ \A s \in Requests : s # r /\ IsStoring(s) => req[s].new # req[r].new

\* What has been revoked was given to a client.
RevokedWasGiven == \A t \in spent : t[2] \in given

\* A refresh that has deleted the token it presents finds it deleted to its end.
Consuming(r) == req[r].op = "refresh" /\ (req[r].at = "mint" \/ IsStoring(r))
Consumed == \A r \in Requests : Consuming(r) => Refresh(req[r].pair) \notin db

\* What has been revoked is not in the database.
OutOfDatabase == spent \cap db = {}

\* The parts a request can have in a token that is deleted: it is between the two halves of
\* deleting it, it has found it valid, it has consumed it.
Deletes(r, t) == At(r, {"refresh", "logout"}, "delete") /\ Presented(r) = t
Consumes(r, t) == Consuming(r) /\ Presented(r) = t
Holds(r, t) ==
    /\ req[r].op \in {"refresh", "validate"}
    /\ req[r].at \in {"fill", "get_user", "uncache", "delete"}
    /\ Presented(r) = t
Uses(r, t) == Holds(r, t) \/ Consumes(r, t)

\* A token that is being deleted, or was, is cached only after a race ...
CachedByRace ==
    \A t \in cache : t \in spent \/ (\E r \in Requests : Deletes(r, t) \/ Consumes(r, t))
                    => t \in raced

\* ... and used only by a request that raced the one which consumed or revoked it.
UsedByRace ==
    \A s \in Requests : \A t \in Token :
        Uses(s, t) /\ (t \in spent \/ \E r \in Requests \ {s} : Consumes(r, t)) => t \in raced

\* The access token that is cleaned up is in the cache no more.
DroppedUncached ==
    \A r \in Requests : req[r].at = "drop_stored" => Access(req[r].new) \notin cache

Races == CachedByRace /\ UsedByRace /\ DroppedUncached

\* The tokens the cache may hold although their requests no longer store them.
Covered == db \cup expired \cup raced
Inserting(r) == req[r].at \in {"insert_access", "insert_refresh"}

\* A token that was found in the database and is about to be cached is still accounted for.
FillsWhatItFound ==
    \A r \in Requests : req[r].at = "fill" =>
        req[r].op \in {"refresh", "validate"} /\ Presented(r) \in Covered

\* Whoever was signed into a token, or is held by a request, has had a row.
Acquainted ==
    /\ \A k \in minted : row[claims[k]].state # "new"
    /\ \A r \in Requests : req[r].user \in Users => row[req[r].user].state # "new"

\* A refresh that began with its user deleted never gets past the lookup of that user.
IsLate(r) == req[r].op = "refresh" /\ req[r].late
BeforeLookup == {"look", "find", "fill", "get_user"}
LateStaysOut ==
    \A r \in Requests : IsLate(r) =>
        /\ req[r].at \in BeforeLookup /\ req[r].new = 0
        /\ row[claims[req[r].pair]].state = "deleted"

TypeInv == TypeOK /\ Numbered /\ Equipped
Revocation == Fresh /\ RevokedWasGiven /\ Consumed /\ OutOfDatabase
RevokedInv == TypeInv /\ Revocation /\ Races
CacheInv == FillsWhatItFound /\ CacheVouches
UserInv == Acquainted /\ LateStaysOut

-----------------------------------------------------------------------------
(* The steps *)

\* The calls of the repository are made of their steps.
LEMMA StepCases ==
    ASSUME NEW r \in Requests, Step(r)
    PROVE  \/ Look(r) \/ Find(r) \/ Fill(r) \/ GetUser(r) \/ Uncache(r) \/ Delete(r)
           \/ Regenerate(r) \/ Insert(r) \/ DropStored(r) \/ SaveUser(r) \/ Serve(r) \/ WriteUser(r)
BY DEF Step, ValidateAccessToken, ValidateRefreshToken, DeleteAccessToken, DeleteRefreshToken,
       StoreAccessToken, StoreRefreshToken

\* A pair that is minted was not minted before.
LEMMA MintIsNew ==
    ASSUME TypeInv, NEW k, k = Cardinality(minted) + 1, k \in Pairs
    PROVE  k \notin minted /\ minted \cup {k} = 1..k
<1>1. PICK n \in 0..MaxPairs : minted = 1..n
  BY DEF TypeInv, Numbered
<1>2. Cardinality(minted) = n
  BY <1>1, FS_Interval, BoundsAssumption
<1> QED BY <1>1, <1>2, BoundsAssumption DEF Pairs

-----------------------------------------------------------------------------
(* Types *)

\* Before the first request nothing is minted.
LEMMA InitTypeInv == Init => TypeInv
<1> SUFFICES ASSUME Init PROVE TypeInv
  OBVIOUS
<1> USE DEF Init, Idle, minted
<1>1. TypeOK
  BY NoUserAssumption, BoundsAssumption
  DEF TypeOK, Row, Request, Places
<1>2. Numbered
  BY BoundsAssumption DEF Numbered
<1>3. Equipped
  BY DEF Equipped, IsStoring, StoringPlaces
<1> QED BY <1>1, <1>2, <1>3 DEF TypeInv

\* What a request that goes to another place keeps ...
LEMMA GotoFields ==
    ASSUME req \in [Requests -> Request], NEW r \in Requests, NEW p, Goto(r, p)
    PROVE  /\ req'[r].op = req[r].op /\ req'[r].at = p
           /\ req'[r].pair = req[r].pair /\ req'[r].new = req[r].new
           /\ req'[r].user = req[r].user /\ req'[r].late = req[r].late
           /\ \A s \in Requests : s # r => req'[s] = req[s]
           /\ p \in Places => req' \in [Requests -> Request]
BY DEF Goto, Request

\* ... what one that has found its user keeps ...
LEMMA UserFields ==
    ASSUME req \in [Requests -> Request], NEW r \in Requests, NEW u \in Users,
           Found(r, u)
    PROVE  /\ req'[r].op = req[r].op /\ req'[r].at = "uncache"
           /\ req'[r].pair = req[r].pair /\ req'[r].new = req[r].new
           /\ req'[r].user = u /\ req'[r].late = req[r].late
           /\ \A s \in Requests : s # r => req'[s] = req[s]
           /\ req' \in [Requests -> Request]
BY ZenonT(60) DEF Found, Request, Places

\* ... and what one that ends forgets.
LEMMA FailFields ==
    ASSUME req \in [Requests -> Request], NEW r \in Requests, Fail(r)
    PROVE  /\ req'[r].op = "none" /\ req'[r].at = "idle" /\ req'[r].new = 0 /\ ~req'[r].late
           /\ req'[r].user = NoUser
           /\ \A s \in Requests : s # r => req'[s] = req[s]
           /\ req' \in [Requests -> Request]
BY DEF Fail, Idle, Request, Places

\* A request that has minted a pair is its new one, about to be stored.
LEMMA MintFields ==
    ASSUME req \in [Requests -> Request], NEW r \in Requests, NEW q \in Request, Mint(r, q)
    PROVE  /\ req'[r].op = q.op /\ req'[r].at = "insert_access" /\ req'[r].pair = q.pair
           /\ req'[r].new = Cardinality(minted) + 1 /\ req'[r].user = q.user /\ req'[r].late = q.late
           /\ \A s \in Requests : s # r => req'[s] = req[s]
<1> DEFINE k == Cardinality(minted) + 1
           f == [q EXCEPT !.new = k, !.at = "insert_access"]
<1>1. req' = [req EXCEPT ![r] = f]
  BY DEF Mint
<1>2. /\ f.op = q.op /\ f.at = "insert_access" /\ f.pair = q.pair
      /\ f.new = k /\ f.user = q.user /\ f.late = q.late
  BY DEF Request
<1> HIDE DEF f
<1>3. req'[r] = f /\ \A s \in Requests : s # r => req'[s] = req[s]
  BY <1>1
<1> QED BY <1>2, <1>3

\* Login, and the second half of a refresh.
LEMMA MintKeepsTypeInv ==
    ASSUME TypeInv, NEW r \in Requests, NEW q \in Request, q.user \in Users, Mint(r, q),
           q.op \in {"refresh", "logout", "validate"} => q.pair \in given,
           UNCHANGED <<row, db, expired, faults, given, spent, raced>>
    PROVE  TypeInv'
<1> DEFINE k == Cardinality(minted) + 1
<1>1. k \in Pairs /\ k \notin minted /\ minted' = 1..k /\ minted' = minted \cup {k}
  BY MintIsNew DEF Mint, minted
<1> HIDE DEF k
<1>2. claims' \in [minted' -> Users]
  BY <1>1 DEF Mint, TypeInv, TypeOK, minted
<1>3. req' \in [Requests -> Request']
  BY <1>1 DEF Mint, TypeInv, TypeOK, Request, Places, k
<1>4. TypeOK'
  BY <1>1, <1>2, <1>3 DEF Mint, TypeInv, TypeOK, Row, Token, Access, k
<1>5. Numbered'
  BY <1>1, BoundsAssumption DEF Numbered, Pairs
<1>6. Equipped'
  <2>1. ASSUME NEW s \in Requests, s # r, Equipped PROVE IsStoring(s)' => req'[s].new \in minted'
    BY <1>1, <2>1, MintFields DEF TypeInv, TypeOK, Equipped, IsStoring
  <2>2. IsStoring(r)' => req'[r].new \in minted'
    BY <1>1, MintFields DEF TypeInv, TypeOK, k
  <2>3. q.op \in {"refresh", "logout", "validate"} => q.pair \in given
    OBVIOUS
  <2> QED BY <2>1, <2>2, <2>3, MintFields DEF TypeInv, TypeOK, Equipped, IsStoring, StoringPlaces
<1> QED BY <1>4, <1>5, <1>6 DEF TypeInv

\* A token made of a pair that was minted is a token.
LEMMA TokensOfPairs ==
    ASSUME TypeOK, NEW k \in minted
    PROVE  {Access(k), Refresh(k)} \subseteq {t \in Token : t[2] \in minted}
BY DEF TypeOK, Token, Access, Refresh

\* Every other step of a request: the variables keep their types, and it has what it needs.
LEMMA StepKeepsTypeInv ==
    ASSUME TypeInv, NEW r \in Requests, Step(r)
    PROVE  TypeInv'
<1> USE DEF TypeInv
<1> DEFINE Tokens == {t \in Token : t[2] \in minted}
<1>0. /\ req \in [Requests -> Request] /\ req[r] \in Request
      /\ req[r].op \in {"refresh", "logout", "validate"} => Presented(r) \in Tokens
      /\ IsStoring(r) => Storing(r) \in Tokens /\ Access(req[r].new) \in Tokens
                          /\ Refresh(req[r].new) \in Tokens
  BY TokensOfPairs DEF TypeOK, Equipped, Presented, Storing
<1>1. CASE Regenerate(r)
  <2>1. req[r] \in Request /\ req[r].user \in Users /\ req[r].pair \in given
    BY <1>0, <1>1 DEF Regenerate, At, Equipped
  <2> QED BY <1>1, <2>1, MintKeepsTypeInv DEF Regenerate
<1>2. CASE Look(r) \/ Find(r) \/ Fill(r) \/ Serve(r)
  <2>1. req' \in [Requests -> Request]
    BY <1>0, <1>2, GotoFields, FailFields DEF Look, Find, Fill, Serve, Known, Places
  <2>2. TypeOK'
    BY <1>0, <1>2, <2>1 DEF Look, Find, Fill, Serve, At, TypeOK, minted, Request
  <2>3. Equipped'
    BY <1>0, <1>2, GotoFields, FailFields
    DEF Look, Find, Fill, Serve, At, Known, Equipped, IsStoring, StoringPlaces, minted
  <2> QED BY <1>2, <2>2, <2>3 DEF Numbered, minted, Look, Find, Fill, Serve
<1>3. CASE GetUser(r)
  <2>1. CASE Fail(r)
    <3>1. TypeOK'
      BY <1>0, <1>3, <2>1, FailFields DEF GetUser, TypeOK, minted, Request
    <3>2. Equipped'
      BY <1>0, <1>3, <2>1, FailFields DEF GetUser, Equipped, IsStoring, StoringPlaces, minted
    <3> QED BY <1>3, <3>1, <3>2 DEF Numbered, minted, GetUser
  <2>2. CASE Found(r, claims[req[r].pair])
    <3>1. claims[req[r].pair] \in Users /\ req[r].op = "refresh"
      BY <1>0, <1>3 DEF GetUser, At, TypeOK, Equipped
    <3>2. TypeOK'
      BY <1>0, <1>3, <2>2, <3>1, UserFields DEF GetUser, TypeOK, minted, Request
    <3>3. Equipped'
      BY <1>0, <1>3, <2>2, <3>1, UserFields DEF GetUser, Equipped, IsStoring, StoringPlaces,
         minted
    <3> QED BY <1>3, <3>2, <3>3 DEF Numbered, minted, GetUser
  <2> QED BY <1>3, <2>1, <2>2 DEF GetUser
<1>4. CASE Uncache(r) \/ Delete(r)
  <2>0. req[r].op \in {"refresh", "logout"} /\ req[r].at \in {"uncache", "delete"}
    BY <1>4 DEF Uncache, Delete, At
  <2>1. Goto(r, "delete") \/ (req[r].op = "refresh" /\ Goto(r, "mint")) \/ Fail(r)
    BY <1>4 DEF Uncache, Delete, Revoked
  <2>2. req' \in [Requests -> Request]
    BY <1>0, <2>1, GotoFields, FailFields DEF Places
  <2>3. TypeOK'
    <3>1. {db', cache', raced', spent'} \subseteq SUBSET Tokens
      BY <1>0, <1>4, <2>0 DEF Uncache, Delete, Written, Faulty, Revoked, TypeOK
    <3>2. faults' \in 0..MaxFaults
      BY <1>4, BoundsAssumption DEF Uncache, Delete, Written, Faulty, TypeOK
    <3>3. UNCHANGED <<row, claims, expired, given>>
      BY <1>4 DEF Uncache, Delete
    <3> QED BY <2>2, <3>1, <3>2, <3>3 DEF TypeOK, minted, Request
  <2>4. given' = given /\ minted' = minted
    BY <1>4 DEF Uncache, Delete, minted
  <2>5. Equipped'
    BY <1>0, <2>0, <2>1, <2>4, GotoFields, FailFields DEF Equipped, IsStoring, StoringPlaces
  <2> QED BY <2>3, <2>4, <2>5 DEF Numbered
<1>5. CASE Insert(r) \/ DropStored(r)
  <2>0. IsStoring(r)
    BY <1>5 DEF Insert, DropStored, IsStoring, StoringPlaces
  <2>1. Goto(r, "insert_refresh") \/ Goto(r, "save_user") \/ Goto(r, "drop_stored") \/ Fail(r)
    BY <1>5 DEF Insert, Inserted, DropStored
  <2>2. req' \in [Requests -> Request]
    BY <1>0, <2>1, GotoFields, FailFields DEF Places
  <2>3. TypeOK'
    <3>1. {db', cache', raced', spent'} \subseteq SUBSET Tokens
      BY <1>0, <1>5, <2>0 DEF Insert, DropStored, Inserted, Written, Faulty, TypeOK
    <3>2. faults' \in 0..MaxFaults
      BY <1>5, BoundsAssumption DEF Insert, DropStored, Inserted, Written, Faulty, TypeOK
    <3>3. UNCHANGED <<row, claims, expired, given>>
      BY <1>5 DEF Insert, DropStored
    <3> QED BY <2>2, <3>1, <3>2, <3>3 DEF TypeOK, minted, Request
  <2>4. given' = given /\ minted' = minted
    BY <1>5 DEF Insert, DropStored, minted
  <2>5. Equipped'
    BY <1>0, <2>0, <2>1, <2>4, GotoFields, FailFields DEF Equipped, IsStoring, StoringPlaces
  <2> QED BY <2>3, <2>4, <2>5 DEF Numbered
<1>6. CASE SaveUser(r) \/ WriteUser(r)
  <2>0. req[r].user \in Users
    BY <1>0, <1>6 DEF SaveUser, WriteUser, At, Equipped, IsStoring, StoringPlaces
  <2>1. row' \in [Users -> Row]
    BY <1>6, <2>0 DEF SaveUser, WriteUser, Replace, TypeOK, Row
  <2>2. Fail(r) /\ minted' = minted /\ given \subseteq given' /\ given' \subseteq given \cup {req[r].new}
    BY <1>6 DEF SaveUser, WriteUser, minted
  <2>3. given' \subseteq minted
    BY <1>0, <1>6, <2>2 DEF SaveUser, WriteUser, TypeOK, IsStoring, StoringPlaces, Equipped
  <2>4. TypeOK'
    BY <1>0, <1>6, <2>1, <2>2, <2>3, FailFields DEF SaveUser, WriteUser, TypeOK, minted, Request
  <2>5. Equipped'
    BY <1>0, <2>2, FailFields DEF Equipped, IsStoring, StoringPlaces
  <2> QED BY <2>2, <2>4, <2>5 DEF Numbered
<1> QED BY <1>1, <1>2, <1>3, <1>4, <1>5, <1>6, StepCases

\* A request that has just begun: the pair it presents was given to its client.
LEMMA BeginFields ==
    ASSUME TypeInv, NEW r \in Requests, NEW t \in Token,
           NEW op \in {"refresh", "logout", "validate"}, Begin(r, op, t)
    PROVE  /\ req'[r].op = op /\ req'[r].at \in {"look", "uncache"} /\ req'[r].pair = t[2]
           /\ op = "refresh" => req'[r].at = "look"
           /\ req'[r].new = 0 /\ req'[r].user = NoUser /\ t[2] \in given
           /\ req'[r].late = (op = "refresh" /\ ~Stored(claims[t[2]]))
           /\ \A s \in Requests : s # r => req'[s] = req[s]
           /\ req' \in [Requests -> Request]
<1> DEFINE f == [Idle EXCEPT !.op = op, !.pair = t[2],
                             !.at = IF op = "logout" THEN "uncache" ELSE "look",
                             !.late = op = "refresh" /\ ~Stored(claims[t[2]])]
<1>1. req' = [req EXCEPT ![r] = f] /\ t[2] \in given
  BY DEF Begin
<1>2. /\ f.op = op /\ f.at \in {"look", "uncache"} /\ f.pair = t[2] /\ f.new = 0
      /\ f.user = NoUser
      /\ op = "refresh" => f.at = "look"
      /\ f.late = (op = "refresh" /\ ~Stored(claims[t[2]]))
  BY DEF Idle
<1>3. f \in Request
  BY <1>1 DEF Request, Places, Idle, TypeInv, TypeOK
<1> HIDE DEF f
<1>4. req'[r] = f /\ \A s \in Requests : s # r => req'[s] = req[s]
  BY <1>1 DEF TypeInv, TypeOK
<1>5. req' \in [Requests -> Request]
  BY <1>1, <1>3 DEF TypeInv, TypeOK
<1> QED BY <1>1, <1>2, <1>4, <1>5

\* A request that has read the row it is going to write.
LEMMA ReadFields ==
    ASSUME TypeInv, NEW r \in Requests, NEW u \in Users, ReadUser(r, u)
    PROVE  /\ req'[r].op = "update" /\ req'[r].at = "write" /\ req'[r].new = 0
           /\ req'[r].user = u /\ ~req'[r].late
           /\ \A s \in Requests : s # r => req'[s] = req[s]
           /\ req' \in [Requests -> Request]
BY DEF ReadUser, Idle, Request, Places, TypeInv, TypeOK

\* A login mints for a request that was idle.
LEMMA LoginMints ==
    ASSUME TypeInv, NEW r \in Requests, NEW u \in Users, Login(r, u)
    PROVE  \E q \in Request : /\ q.op = "login" /\ q.user = u /\ ~q.late /\ Mint(r, q)
                             /\ UNCHANGED <<row, db, expired, faults, given, spent, raced>>
<1>1. [Idle EXCEPT !.op = "login", !.user = u] \in Request
  BY DEF Idle, Request, Places
<1> QED BY <1>1 DEF Login, Idle

\* What any step does, with Mint named where it happens.
LEMMA NextCases ==
    ASSUME Next
    PROVE  \/ \E r \in Requests : Step(r)
           \/ \E r \in Requests, u \in Users : Login(r, u) \/ ReadUser(r, u)
           \/ \E r \in Requests, k \in given, op \in {"refresh", "logout", "validate"} :
                  Begin(r, op, IF op = "refresh" THEN Refresh(k) ELSE Access(k))
           \/ \E u \in Users : CreateUser(u) \/ DeleteUser(u)
           \/ \E t \in Token : Expire(t)
           \/ CleanExpiredTokens \/ TTL \/ Restart
BY DEF Next, RefreshToken, Logout, ValidateToken

\* Every action keeps the types.
LEMMA NextKeepsTypeInv == TypeInv /\ [Next]_vars => TypeInv'
<1> SUFFICES ASSUME TypeInv, [Next]_vars PROVE TypeInv'
  OBVIOUS
<1>1. CASE UNCHANGED vars
  BY <1>1 DEF vars, TypeInv, TypeOK, Numbered, Equipped, IsStoring, minted, Request
<1>2. ASSUME NEW r \in Requests, Step(r) PROVE TypeInv'
  BY <1>2, StepKeepsTypeInv
<1>3. ASSUME NEW r \in Requests, NEW u \in Users, Login(r, u) PROVE TypeInv'
  BY <1>3, LoginMints, MintKeepsTypeInv
<1>4. ASSUME NEW r \in Requests, NEW u \in Users, ReadUser(r, u) PROVE TypeInv'
  <2>1. TypeOK'
    BY <1>4, ReadFields DEF ReadUser, TypeInv, TypeOK, minted, Request
  <2>2. Equipped'
    <3>1. minted' = minted /\ given' = given
      BY <1>4 DEF ReadUser, minted
    <3> QED BY <1>4, <3>1, ReadFields DEF TypeInv, Equipped, IsStoring, StoringPlaces
  <2> QED BY <1>4, <2>1, <2>2 DEF ReadUser, TypeInv, Numbered, minted
<1>5. ASSUME NEW r \in Requests, NEW k \in given, NEW op \in {"refresh", "logout", "validate"},
             Begin(r, op, IF op = "refresh" THEN Refresh(k) ELSE Access(k))
      PROVE  TypeInv'
  <2> DEFINE t == IF op = "refresh" THEN Refresh(k) ELSE Access(k)
  <2>0. t \in Token
    BY DEF TypeInv, TypeOK, Token, Access, Refresh
  <2> HIDE DEF t
  <2>1. Begin(r, op, t)
    BY <1>5 DEF t
  <2>2. TypeOK'
    BY ZenonT(60), <2>0, <2>1, BeginFields DEF Begin, TypeInv, TypeOK, minted, Request
  <2>3. Equipped'
    <3>1. minted' = minted /\ given' = given
      BY <2>1 DEF Begin, minted
    <3> QED BY <2>0, <2>1, <3>1, BeginFields DEF TypeInv, Equipped, IsStoring, StoringPlaces
  <2> QED BY <2>1, <2>2, <2>3 DEF Begin, TypeInv, Numbered, minted
<1>6. ASSUME NEW u \in Users, CreateUser(u) \/ DeleteUser(u) PROVE TypeInv'
  <2>1. row' \in [Users -> Row]
    BY <1>6 DEF CreateUser, DeleteUser, TypeInv, TypeOK, Row
  <2>2. UNCHANGED <<db, cache, claims, expired, req, faults, given, spent, raced>>
    BY <1>6 DEF CreateUser, DeleteUser
  <2> QED BY <2>1, <2>2 DEF TypeInv, TypeOK, Numbered, Equipped, IsStoring, minted, Request
<1>7. ASSUME NEW t \in Token, Expire(t) PROVE TypeInv'
  BY <1>7 DEF Expire, TypeInv, TypeOK, Numbered, Equipped, IsStoring, minted, Request
<1>8. CASE CleanExpiredTokens \/ TTL
  BY <1>8 DEF CleanExpiredTokens, TTL, TypeInv, TypeOK, Numbered, Equipped, IsStoring, minted,
     Request
<1>9. CASE Restart
  <2>1. req' \in [Requests -> Request] /\ \A r \in Requests : req'[r].op = "none" /\ req'[r].at = "idle"
    BY <1>9 DEF Restart, Idle, Request, Places
  <2>2. TypeOK'
    BY <1>9, <2>1 DEF Restart, TypeInv, TypeOK, minted, Request
  <2>3. Equipped'
    BY <2>1 DEF Equipped, IsStoring, StoringPlaces
  <2> QED BY <1>9, <2>2, <2>3 DEF Restart, TypeInv, Numbered, minted
<1> QED BY <1>1, <1>2, <1>3, <1>4, <1>5, <1>6, <1>7, <1>8, <1>9, NextCases

\* The variables keep their types, and every request in flight has what its next step needs.
THEOREM TypeInvariant == Spec => []TypeInv
BY InitTypeInv, NextKeepsTypeInv, PTL DEF Spec

-----------------------------------------------------------------------------
(* Revoked for good *)

\* Nothing is revoked yet.
LEMMA InitRevocation == Init => Revocation
BY DEF Init, Idle, Revocation, Fresh, RevokedWasGiven, Consumed, Consuming, OutOfDatabase,
       IsStoring, StoringPlaces

\* A step that stores no token, returns no pair, revokes nothing, and puts no request into the
\* places where it stores or has consumed a token, changes nothing of the matter.
LEMMA QuietSteps ==
    ASSUME TypeInv, Revocation, given' = given, spent' = spent, db' \subseteq db,
           \A s \in Requests : IsStoring(s)' => IsStoring(s) /\ req'[s].new = req[s].new,
           \A s \in Requests : Consuming(s)' => Consuming(s) /\ req'[s].pair = req[s].pair
    PROVE  Revocation'
<1>1. Fresh'
  BY DEF Revocation, Fresh
<1>2. Consumed'
  BY DEF Revocation, Consumed
<1>3. RevokedWasGiven' /\ OutOfDatabase'
  BY DEF Revocation, RevokedWasGiven, OutOfDatabase
<1> QED BY <1>1, <1>2, <1>3 DEF Revocation

\* The pair that is minted is given to nobody and stored by nobody else.
LEMMA MintKeepsRevocation ==
    ASSUME TypeInv, Revocation, NEW r \in Requests, NEW q \in Request, Mint(r, q),
           q.op = "refresh" => Consuming(r) /\ q.pair = req[r].pair,
           UNCHANGED <<db, given, spent>>
    PROVE  Revocation'
<1> DEFINE k == Cardinality(minted) + 1
<1>1. k \notin minted
  BY MintIsNew DEF Mint
<1>2. /\ req'[r].new = k /\ req'[r].op = q.op /\ req'[r].pair = q.pair
      /\ \A s \in Requests : s # r => req'[s] = req[s]
  BY MintFields DEF TypeInv, TypeOK
<1> HIDE DEF k
<1>3. Fresh'
  <2>1. k \notin given /\ \A s \in Requests : IsStoring(s) => req[s].new # k
    BY <1>1 DEF TypeInv, TypeOK, Equipped
  <2> QED BY <1>2, <2>1 DEF Revocation, Fresh, IsStoring
<1>4. Consumed'
  BY <1>2 DEF Revocation, Consumed, Consuming, IsStoring
<1>5. RevokedWasGiven' /\ OutOfDatabase'
  BY DEF Revocation, RevokedWasGiven, OutOfDatabase
<1> QED BY <1>3, <1>4, <1>5 DEF Revocation

\* The steps of a request.
LEMMA StepKeepsRevocation ==
    ASSUME TypeInv, Revocation, NEW r \in Requests, Step(r)
    PROVE  Revocation'
<1>0. req \in [Requests -> Request] /\ req[r] \in Request
  BY DEF TypeInv, TypeOK
<1>1. CASE Regenerate(r)
  <2>1. Consuming(r)
    BY <1>1 DEF Regenerate, At, Consuming
  <2> QED BY <1>0, <1>1, <2>1, MintKeepsRevocation DEF Regenerate
<1>2. CASE Look(r) \/ Find(r) \/ Fill(r) \/ GetUser(r) \/ Uncache(r) \/ Serve(r) \/ WriteUser(r) \/ DropStored(r)
  <2>1. UNCHANGED <<given, spent>> /\ db' \subseteq db
    BY <1>2 DEF Look, Find, Fill, GetUser, Uncache, Serve, WriteUser, DropStored, Written, Faulty
  <2>2. \/ \E p \in {"find", "fill", "get_user", "accepted", "delete"} : Goto(r, p)
        \/ Fail(r)
        \/ Found(r, claims[req[r].pair]) /\ At(r, {"refresh"}, "get_user")
    BY <1>2 DEF Look, Find, Fill, GetUser, Uncache, Serve, WriteUser, DropStored, Known
  <2>3. CASE \E p \in {"find", "fill", "get_user", "accepted", "delete"} : Goto(r, p)
    BY <1>0, <2>1, <2>3, GotoFields, QuietSteps DEF IsStoring, StoringPlaces, Consuming
  <2>4. CASE Fail(r)
    BY <1>0, <2>1, <2>4, FailFields, QuietSteps DEF IsStoring, StoringPlaces, Consuming
  <2>5. CASE Found(r, claims[req[r].pair]) /\ At(r, {"refresh"}, "get_user")
    <3>1. claims[req[r].pair] \in Users
      BY <1>0, <2>5 DEF At, TypeInv, TypeOK, Equipped
    <3> QED BY <1>0, <2>1, <2>5, <3>1, UserFields, QuietSteps DEF IsStoring, StoringPlaces, Consuming
  <2> QED BY <2>2, <2>3, <2>4, <2>5
<1>3. CASE Delete(r)
  <2>0. req[r].op \in {"refresh", "logout"} /\ req[r].at = "delete" /\ given' = given
    BY <1>3 DEF Delete, At
  <2>1. CASE Fail(r) /\ UNCHANGED spent /\ Faulty(db \ {Presented(r)})
    BY <1>0, <2>0, <2>1, FailFields, QuietSteps DEF Faulty, IsStoring, StoringPlaces, Consuming
  <2>2. CASE req[r].op = "logout" /\ Fail(r) /\ spent' = spent \cup {Presented(r)} /\ db' = db \ {Presented(r)}
    <3>1. Presented(r)[2] \in given
      BY <2>2 DEF Presented, Access, TypeInv, Equipped
    <3>2. RevokedWasGiven' /\ OutOfDatabase'
      BY <2>0, <2>2, <3>1 DEF Revocation, RevokedWasGiven, OutOfDatabase
    <3>3. Fresh' /\ Consumed'
      BY <1>0, <2>0, <2>2, FailFields
      DEF Revocation, Fresh, Consumed, Consuming, IsStoring, StoringPlaces
    <3> QED BY <3>2, <3>3 DEF Revocation
  <2>3. CASE req[r].op = "refresh" /\ Goto(r, "mint") /\ UNCHANGED spent /\ db' = db \ {Presented(r)}
    <3>1. RevokedWasGiven' /\ OutOfDatabase'
      BY <2>0, <2>3 DEF Revocation, RevokedWasGiven, OutOfDatabase
    <3>2. Fresh'
      BY <1>0, <2>0, <2>3, GotoFields DEF Revocation, Fresh, IsStoring, StoringPlaces
    <3>3. Consumed'
      BY <1>0, <2>0, <2>3, GotoFields
      DEF Revocation, Consumed, Consuming, Presented, IsStoring, StoringPlaces
    <3> QED BY <3>1, <3>2, <3>3 DEF Revocation
  <2> QED BY <1>3, <2>0, <2>1, <2>2, <2>3 DEF Delete, Written, Revoked
<1>4. CASE Insert(r)
  <2>0. IsStoring(r) /\ given' = given /\ spent' = spent /\ db' \subseteq db \cup {Storing(r)}
    BY <1>4 DEF Insert, Inserted, Written, Faulty, IsStoring, StoringPlaces
  <2>1. Storing(r)[2] \notin given
    BY <2>0 DEF Storing, Access, Refresh, Revocation, Fresh
  <2>2. \A s \in Requests : req'[s].at \in StoringPlaces =>
             IsStoring(s) /\ req'[s].new = req[s].new /\ req'[s].op = req[s].op /\ req'[s].pair = req[s].pair
    <3>1. Goto(r, "insert_refresh") \/ Goto(r, "save_user") \/ Goto(r, "drop_stored") \/ Fail(r)
      BY <1>4 DEF Insert, Inserted
    <3> QED BY <1>0, <2>0, <3>1, GotoFields, FailFields DEF IsStoring, StoringPlaces
  <2>3. RevokedWasGiven' /\ OutOfDatabase'
    BY <2>0, <2>1 DEF Revocation, RevokedWasGiven, OutOfDatabase
  <2>4. Fresh'
    BY <2>0, <2>2 DEF Revocation, Fresh, IsStoring
  <2>5. Consumed'
    <3>1. \A s \in Requests : Consuming(s)' => Consuming(s) /\ req'[s].pair = req[s].pair
      <4>1. req'[r].at # "mint" /\ \A s \in Requests : s # r => req'[s] = req[s]
        BY <1>0, <1>4, GotoFields, FailFields DEF Insert, Inserted
      <4> QED BY <2>2, <4>1 DEF Consuming, IsStoring
    <3>2. \A s \in Requests : Consuming(s) => Refresh(req[s].pair) # Storing(r)
      BY <2>1 DEF TypeInv, Equipped, Consuming, Refresh
    <3> QED BY <2>0, <3>1, <3>2 DEF Revocation, Consumed
  <2> QED BY <2>3, <2>4, <2>5 DEF Revocation
<1>5. CASE SaveUser(r)
  <2>0. /\ IsStoring(r) /\ Fail(r) /\ db' = db /\ given' = given \cup {req[r].new}
        /\ spent' = IF req[r].op = "refresh" THEN spent \cup {Presented(r)} ELSE spent
    BY <1>5 DEF SaveUser, IsStoring, StoringPlaces
  <2>1. /\ ~IsStoring(r)' /\ ~Consuming(r)'
        /\ \A s \in Requests : s # r => req'[s] = req[s]
    BY <1>0, <2>0, FailFields DEF IsStoring, StoringPlaces, Consuming
  <2>2. Fresh'
    BY <2>0, <2>1 DEF Revocation, Fresh, IsStoring
  <2>3. Consumed'
    BY <2>0, <2>1 DEF Revocation, Consumed, Consuming, IsStoring
  <2>4. req[r].op = "refresh" => Presented(r)[2] \in given /\ Presented(r) \notin db
    BY <2>0 DEF Presented, Refresh, TypeInv, Equipped, Revocation, Consumed, Consuming
  <2>5. RevokedWasGiven' /\ OutOfDatabase'
    BY <2>0, <2>4 DEF Revocation, RevokedWasGiven, OutOfDatabase
  <2> QED BY <2>2, <2>3, <2>5 DEF Revocation
<1> QED BY <1>1, <1>2, <1>3, <1>4, <1>5, StepCases

\* Every action keeps the revoked tokens out of the database.
LEMMA NextKeepsRevocation == TypeInv /\ Revocation /\ [Next]_vars => Revocation'
<1> SUFFICES ASSUME TypeInv, Revocation, [Next]_vars PROVE Revocation'
  OBVIOUS
<1>0. req \in [Requests -> Request]
  BY DEF TypeInv, TypeOK
<1>1. CASE UNCHANGED vars
  BY <1>1, QuietSteps DEF vars, IsStoring, Consuming
<1>2. ASSUME NEW r \in Requests, Step(r) PROVE Revocation'
  BY <1>2, StepKeepsRevocation
<1>3. ASSUME NEW r \in Requests, NEW u \in Users, Login(r, u) PROVE Revocation'
  BY <1>3, LoginMints, MintKeepsRevocation
<1>4. ASSUME NEW r \in Requests, NEW u \in Users, ReadUser(r, u) PROVE Revocation'
  <2>1. UNCHANGED <<db, given, spent>>
    BY <1>4 DEF ReadUser
  <2> QED BY <1>4, <2>1, ReadFields, QuietSteps DEF IsStoring, StoringPlaces, Consuming
<1>5. ASSUME NEW r \in Requests, NEW k \in given, NEW op \in {"refresh", "logout", "validate"},
             Begin(r, op, IF op = "refresh" THEN Refresh(k) ELSE Access(k))
      PROVE  Revocation'
  <2> DEFINE t == IF op = "refresh" THEN Refresh(k) ELSE Access(k)
  <2>0. t \in Token
    BY DEF TypeInv, TypeOK, Token, Access, Refresh
  <2> HIDE DEF t
  <2>1. Begin(r, op, t)
    BY <1>5 DEF t
  <2>2. UNCHANGED <<db, given, spent>>
    BY <2>1 DEF Begin
  <2> QED BY <2>0, <2>1, <2>2, BeginFields, QuietSteps DEF IsStoring, StoringPlaces, Consuming
<1>6. ASSUME NEW u \in Users, CreateUser(u) \/ DeleteUser(u) PROVE Revocation'
  BY <1>6, QuietSteps DEF CreateUser, DeleteUser, IsStoring, Consuming
<1>7. ASSUME NEW t \in Token, Expire(t) PROVE Revocation'
  BY <1>7, QuietSteps DEF Expire, IsStoring, Consuming
<1>8. CASE CleanExpiredTokens \/ TTL
  BY <1>8, QuietSteps DEF CleanExpiredTokens, TTL, IsStoring, Consuming
<1>9. CASE Restart
  BY <1>9, QuietSteps DEF Restart, Idle, IsStoring, StoringPlaces, Consuming
<1> QED BY <1>1, <1>2, <1>3, <1>4, <1>5, <1>6, <1>7, <1>8, <1>9, NextCases

-----------------------------------------------------------------------------
(* Who may still use what was revoked *)

\* The parts of a request that does not step stay the same.
LEMMA OthersKeepTheirParts ==
    ASSUME NEW s \in Requests, req'[s] = req[s]
    PROVE  /\ (req[s].at = "drop_stored")' = (req[s].at = "drop_stored")
           /\ Access(req[s].new)' = Access(req[s].new)
           /\ \A t : /\ Deletes(s, t)' = Deletes(s, t) /\ Holds(s, t)' = Holds(s, t)
                     /\ Consumes(s, t)' = Consumes(s, t) /\ Uses(s, t)' = Uses(s, t)
BY DEF Deletes, Holds, Consumes, Uses, Consuming, IsStoring, At, Presented, Access

\* What a step of one request has to show of the tokens it caches, of the parts it takes up and
\* of the tokens it revokes.
LEMMA StepKeepsRaces ==
    ASSUME Races, NEW r \in Requests, TypeOK, TypeOK',
           \A s \in Requests : s # r => req'[s] = req[s],
           raced \subseteq raced',
           \A t \in cache' \ cache : \/ t \in raced'
                                     \/ /\ t \notin spent'
                                        /\ \A s \in Requests : ~Deletes(s, t)' /\ ~Consumes(s, t)',
           \A t \in cache' \ cache : \A s \in Requests :
              (req[s].at = "drop_stored")' => Access(req[s].new)' # t,
           \A t \in Token : Deletes(r, t)' => Deletes(r, t) \/ t \notin cache',
           \A t \in Token : Consumes(r, t)' => \/ Consumes(r, t) \/ t \in raced'
                                               \/ /\ t \notin cache'
                                                  /\ \A s \in Requests \ {r} : ~Uses(s, t),
           \A t \in Token : Uses(r, t)' => \/ Uses(r, t) \/ t \in raced'
                                           \/ /\ t \notin spent'
                                              /\ \A s \in Requests \ {r} : ~Consumes(s, t),
           \A t \in spent' \ spent : \/ t \in raced'
                                     \/ t \notin cache' /\ \A s \in Requests : ~Uses(s, t)',
           (req[r].at = "drop_stored")' => Access(req[r].new)' \notin cache'
    PROVE  Races'
<1>1. \A s \in Requests : s # r =>
        /\ (req[s].at = "drop_stored")' = (req[s].at = "drop_stored")
        /\ Access(req[s].new)' = Access(req[s].new)
        /\ \A t : /\ Deletes(s, t)' = Deletes(s, t) /\ Holds(s, t)' = Holds(s, t)
                  /\ Consumes(s, t)' = Consumes(s, t) /\ Uses(s, t)' = Uses(s, t)
  BY OthersKeepTheirParts
<1>2. cache \subseteq Token /\ cache' \subseteq Token /\ spent' \subseteq Token
  BY DEF TypeOK
<1>3. CachedByRace'
  <2> SUFFICES ASSUME NEW t \in cache',
                      t \in spent' \/ \E s \in Requests : Deletes(s, t)' \/ Consumes(s, t)'
               PROVE  t \in raced'
    BY DEF CachedByRace
  <2>1. CASE t \notin cache
    BY <2>1
  <2>2. CASE t \in cache /\ (t \in spent \/ \E s \in Requests : Deletes(s, t) \/ Consumes(s, t))
    BY <2>2 DEF Races, CachedByRace
  <2>3. CASE \E s \in Requests : Deletes(s, t)' \/ Consumes(s, t)'
    BY <1>1, <1>2, <2>2, <2>3
  <2>4. CASE t \in spent' \ spent
    BY <2>4
  <2> QED BY <2>1, <2>2, <2>3, <2>4
<1>4. UsedByRace'
  <2> SUFFICES ASSUME NEW s \in Requests, NEW t \in Token, Uses(s, t)',
                      t \in spent' \/ \E d \in Requests \ {s} : Consumes(d, t)'
               PROVE  t \in raced'
    BY DEF UsedByRace
  <2>1. CASE Uses(s, t) /\ (t \in spent \/ \E d \in Requests \ {s} : Consumes(d, t))
    BY <2>1 DEF Races, UsedByRace
  <2>2. CASE t \in spent' \ spent
    BY <2>2
  <2>3. CASE s = r
    BY <1>1, <2>1, <2>2, <2>3
  <2>4. CASE s # r
    BY <1>1, <2>1, <2>2, <2>4
  <2> QED BY <2>3, <2>4
<1>5. DroppedUncached'
  BY <1>1 DEF Races, DroppedUncached
<1> QED BY <1>3, <1>4, <1>5 DEF Races

\* A request that ends, begins, or goes where it has no part in a token.
LEMMA IdlersKeepRaces ==
    ASSUME Races, TypeOK, TypeOK', NEW r \in Requests,
           \A s \in Requests : s # r => req'[s] = req[s],
           raced \subseteq raced', spent' = spent, cache' \subseteq cache,
           \/ req'[r].at \in {"idle", "look", "find", "accepted", "write"}
           \/ req'[r].at = "uncache" /\ req'[r].op = "logout"
    PROVE  Races'
<1>1. /\ req'[r].at # "drop_stored"
      /\ \A t \in Token : ~Deletes(r, t)' /\ ~Consumes(r, t)' /\ ~Uses(r, t)'
  BY DEF Deletes, Holds, Consumes, Uses, Consuming, IsStoring, StoringPlaces, At
<1> QED BY <1>1, StepKeepsRaces

\* What a request presents was given to its client; a pair that is stored was not.
LEMMA PresentedIsGiven ==
    ASSUME TypeInv, Revocation, NEW s \in Requests
    PROVE  /\ req[s].op \in {"refresh", "logout", "validate"}
                => Presented(s)[2] \in given /\ Presented(s) \in Token
           /\ Consuming(s) => Presented(s) = Refresh(req[s].pair) /\ Presented(s) \notin db
           /\ req[s].op \in {"logout", "validate"} => Presented(s) = Access(req[s].pair)
           /\ IsStoring(s) => req[s].new \notin given /\ req[s].new \in minted
BY DEF TypeInv, TypeOK, Equipped, Revocation, Fresh, Consumed, Consuming, Presented, Token,
       Access, Refresh

\* The two tokens of a pair differ, and so do those of different pairs.
LEMMA TokensDiffer ==
    \A i, j : /\ Access(i) # Refresh(j) /\ (Access(i) = Access(j) => i = j)
              /\ Access(i)[2] = i /\ Refresh(i)[2] = i
BY DEF Access, Refresh

\* Nobody has a part in the tokens of a pair that was just minted.
LEMMA MintKeepsRaces ==
    ASSUME TypeInv, TypeOK', Revocation, Races, NEW r \in Requests, NEW q \in Request, Mint(r, q),
           \/ q.op = "login"
           \/ q.op = "refresh" /\ Consuming(r) /\ q.pair = req[r].pair,
           UNCHANGED <<raced, spent>>
    PROVE  Races'
<1>0. PICK k : k = Cardinality(minted) + 1
  OBVIOUS
<1>1. /\ req'[r].op = q.op /\ req'[r].at = "insert_access" /\ req'[r].pair = q.pair
      /\ \A s \in Requests : s # r => req'[s] = req[s]
      /\ cache' = cache \cup {Access(k)} /\ k \notin minted
  BY <1>0, MintFields, MintIsNew DEF TypeInv, TypeOK, Mint
<1>2. \A s \in Requests : /\ Consuming(s)' => req'[s].op = "refresh"
                          /\ s # r => Presented(s)' = Presented(s) /\ Consuming(s)' = Consuming(s)
  BY <1>1 DEF Consuming, IsStoring, Presented
<1>3. Access(k) \notin spent
  BY <1>1, TokensDiffer DEF TypeInv, TypeOK
<1>4. \A s \in Requests : ~Deletes(s, Access(k))' /\ ~Consumes(s, Access(k))'
  <2> SUFFICES ASSUME NEW s \in Requests PROVE ~Deletes(s, Access(k))' /\ ~Consumes(s, Access(k))'
    OBVIOUS
  <2>1. ~Consumes(s, Access(k))'
    BY <1>2, TokensDiffer DEF Consumes, Presented
  <2>2. ~Deletes(r, Access(k))'
    BY <1>1 DEF Deletes, At
  <2>3. s # r => ~Deletes(s, Access(k))'
    <3>1. Deletes(s, Access(k)) => k \in given
      BY PresentedIsGiven, TokensDiffer DEF Deletes, At
    <3>2. k \notin given
      BY <1>1 DEF TypeInv, TypeOK
    <3>3. s # r => Deletes(s, Access(k))' = Deletes(s, Access(k))
      BY <1>1, OthersKeepTheirParts
    <3> QED BY <3>1, <3>2, <3>3
  <2> QED BY <2>1, <2>2, <2>3
<1>5. \A s \in Requests : (req[s].at = "drop_stored")' => Access(req[s].new)' # Access(k)
  <2>1. \A s \in Requests : req[s].at = "drop_stored" => Access(req[s].new) # Access(k)
    BY <1>1, PresentedIsGiven, TokensDiffer DEF IsStoring, StoringPlaces
  <2> QED BY <1>1, <2>1, OthersKeepTheirParts
<1>6. \A t \in Token : /\ ~Deletes(r, t)' /\ (Uses(r, t)' => Consumes(r, t))
                       /\ Consumes(r, t)' => Consumes(r, t)
  <2>1. Consuming(r)' => Consuming(r) /\ Presented(r)' = Presented(r)
    <3>1. Consuming(r)' => q.op = "refresh"
      BY <1>1, <1>2
    <3> QED BY <1>1, <3>1 DEF Consuming, Presented, Refresh
  <2> QED BY <1>1, <2>1 DEF Deletes, Holds, Uses, Consumes, At
<1>7. \A t \in Token : Consumes(r, t) => Uses(r, t)
  BY DEF Uses
<1>8. \A t \in cache' \ cache :
        /\ t \notin spent' /\ \A s \in Requests : ~Deletes(s, t)' /\ ~Consumes(s, t)'
        /\ \A s \in Requests : (req[s].at = "drop_stored")' => Access(req[s].new)' # t
  <2>1. \A t \in cache' \ cache : t = Access(k)
    BY <1>1
  <2> QED BY <1>3, <1>4, <1>5, <2>1
<1>9. req'[r].at # "drop_stored" /\ \A s \in Requests : s # r => req'[s] = req[s]
  BY <1>1
<1>10. TypeOK
  BY DEF TypeInv
<1> QED BY <1>6, <1>7, <1>8, <1>9, <1>10, StepKeepsRaces

\* A request keeps what it presents as it goes on.
LEMMA GotoPresents ==
    ASSUME req \in [Requests -> Request], NEW r \in Requests, NEW p \in Places, Goto(r, p)
    PROVE  Presented(r)' = Presented(r)
BY GotoFields DEF Presented

\* The deletion of a token: whoever else holds it now was seen.
LEMMA DeleteKeepsRaces ==
    ASSUME TypeInv, TypeOK', Revocation, Races, NEW r \in Requests, Delete(r)
    PROVE  Races'
<1> DEFINE t == Presented(r)
<1>1. /\ req \in [Requests -> Request] /\ TypeOK /\ t \in Token
      /\ req[r].op \in {"refresh", "logout"} /\ req[r].at = "delete"
      /\ cache' = cache /\ raced \subseteq raced' /\ (HeldBesides(r, t) => t \in raced')
  BY PresentedIsGiven DEF Delete, At, TypeInv, TypeOK
<1>2. CASE Fail(r) /\ UNCHANGED spent
  BY <1>1, <1>2, FailFields, IdlersKeepRaces
<1>3. t \in cache => t \in raced
  BY <1>1 DEF Races, CachedByRace, Deletes, At
<1>4. \A s \in Requests \ {r} : Holds(s, t) => HeldBesides(r, t)
  BY DEF Holds, HeldBesides
<1>5. CASE req[r].op = "logout" /\ Fail(r) /\ spent' = spent \cup {t}
  <2>1. /\ req'[r].at = "idle" /\ \A s \in Requests : s # r => req'[s] = req[s]
    BY <1>1, <1>5, FailFields
  <2>2. /\ req'[r].at # "drop_stored"
        /\ \A u \in Token : ~Deletes(r, u)' /\ ~Consumes(r, u)' /\ ~Uses(r, u)'
    BY <2>1 DEF Deletes, Holds, Consumes, Uses, Consuming, IsStoring, StoringPlaces, At
  <2>3. \A s \in Requests : ~Consumes(s, t)
    BY <1>5, PresentedIsGiven, TokensDiffer DEF Consumes
  <2>4. \A s \in Requests \ {r} : Uses(s, t) => t \in raced'
    BY <1>1, <1>4, <2>3 DEF Uses
  <2>5. \A u \in spent' \ spent :
          u \in raced' \/ (u \notin cache' /\ \A s \in Requests : ~Uses(s, u)')
    <3>1. \A u \in spent' \ spent : u = t
      BY <1>5
    <3>2. \A u \in Token : \A s \in Requests \ {r} : Uses(s, u)' => Uses(s, u)
      BY <2>1, OthersKeepTheirParts
    <3>3. \A u \in spent' \ spent : \A s \in Requests : Uses(s, u)' => u \in raced'
      BY <1>1, <2>2, <2>4, <3>1, <3>2
    <3> QED BY <1>1, <1>3, <3>1, <3>3
  <2> QED BY <1>1, <2>1, <2>2, <2>5, StepKeepsRaces
<1>6. CASE req[r].op = "refresh" /\ Goto(r, "mint") /\ UNCHANGED spent
  <2>1. /\ req'[r].op = "refresh" /\ req'[r].at = "mint" /\ Presented(r)' = t
        /\ \A s \in Requests : s # r => req'[s] = req[s]
    BY <1>1, <1>6, GotoFields, GotoPresents DEF Places
  <2>2. Uses(r, t) /\ Holds(r, t)
    BY <1>1, <1>6 DEF Uses, Holds
  <2>3. \A s \in Requests \ {r} : Uses(s, t) => t \in raced'
    <3>1. \A s \in Requests \ {r} : Consumes(s, t) => t \in raced
      BY <1>1, <2>2 DEF Races, UsedByRace
    <3> QED BY <1>1, <1>4, <3>1 DEF Uses
  <2>4. \A u \in Token : ~Deletes(r, u)' /\ (Consumes(r, u)' \/ Uses(r, u)' => u = t)
    BY <2>1 DEF Deletes, Consumes, Uses, Holds, At
  <2>5. \A u \in Token : Consumes(r, u)' => \/ u \in raced'
                                            \/ /\ u \notin cache'
                                               /\ \A s \in Requests \ {r} : ~Uses(s, u)
    BY <1>1, <1>3, <2>3, <2>4
  <2>6. \A u \in Token : Uses(r, u)' => Uses(r, u)
    BY <2>2, <2>4
  <2>7. req'[r].at # "drop_stored"
    BY <2>1
  <2> QED BY <1>1, <1>6, <2>1, <2>4, <2>5, <2>6, <2>7, StepKeepsRaces
<1> QED BY <1>1, <1>2, <1>5, <1>6 DEF Delete, Revoked

\* A validation that puts the token it found into the cache.
LEMMA FillKeepsRaces ==
    ASSUME TypeInv, TypeOK', Revocation, Races, NEW r \in Requests, Fill(r)
    PROVE  Races'
<1>0. PICK t : t = Presented(r)
  OBVIOUS
<1>1. /\ req \in [Requests -> Request] /\ TypeOK /\ t \in Token /\ t[2] \in given
      /\ req[r].op \in {"refresh", "validate"} /\ req[r].at = "fill"
      /\ cache' = cache \cup {t} /\ raced \subseteq raced' /\ (BeingDeleted(t) => t \in raced')
      /\ spent' = spent
  BY <1>0, PresentedIsGiven DEF Fill, At, TypeInv, TypeOK
<1>2. Holds(r, t) /\ Uses(r, t) /\ ~Deletes(r, t) /\ ~Consumes(r, t)
  BY <1>0, <1>1
  DEF Holds, Uses, Deletes, Consumes, Consuming, IsStoring, StoringPlaces, At
<1>3. /\ req'[r].op = req[r].op /\ Presented(r)' = t
      /\ req'[r].at = IF req[r].op = "refresh" THEN "get_user" ELSE "accepted"
      /\ \A s \in Requests : s # r => req'[s] = req[s]
  BY <1>0, <1>1, GotoFields, GotoPresents DEF Fill, Known, Places
<1>4. /\ req'[r].at # "drop_stored"
      /\ \A u \in Token : ~Deletes(r, u)' /\ ~Consumes(r, u)' /\ (Uses(r, u)' => u = t)
  BY <1>3 DEF Deletes, Holds, Consumes, Uses, Consuming, IsStoring, StoringPlaces, At
<1>5. t \in raced' \/ (t \notin spent' /\ \A s \in Requests : ~Deletes(s, t)' /\ ~Consumes(s, t)')
  <2>1. t \in spent \/ (\E s \in Requests \ {r} : Consumes(s, t)) => t \in raced
    BY <1>1, <1>2 DEF Races, UsedByRace
  <2>2. \A s \in Requests \ {r} : Deletes(s, t) => t \in raced'
    BY <1>1 DEF Deletes, BeingDeleted
  <2>3. \A s \in Requests \ {r} : Deletes(s, t)' = Deletes(s, t) /\ Consumes(s, t)' = Consumes(s, t)
    BY <1>3, OthersKeepTheirParts
  <2> QED BY <1>1, <1>4, <2>1, <2>2, <2>3
<1>6. \A s \in Requests : (req[s].at = "drop_stored")' => Access(req[s].new)' # t
  <2>1. \A s \in Requests : req[s].at = "drop_stored" => Access(req[s].new) # t
    BY <1>1, PresentedIsGiven, TokensDiffer DEF IsStoring, StoringPlaces
  <2> QED BY <1>3, <2>1, OthersKeepTheirParts
<1>7. \A u \in cache' \ cache : u = t
  BY <1>1
<1>8. \A u \in cache' \ cache :
        /\ \/ u \in raced'
           \/ u \notin spent' /\ \A s \in Requests : ~Deletes(s, u)' /\ ~Consumes(s, u)'
        /\ \A s \in Requests : (req[s].at = "drop_stored")' => Access(req[s].new)' # u
  BY <1>5, <1>6, <1>7
<1>9. \A u \in Token : Uses(r, u)' => Uses(r, u)
  BY <1>2, <1>4
<1> QED BY <1>1, <1>3, <1>4, <1>8, <1>9, StepKeepsRaces

\* A pair on its way to the two stores: its tokens are nobody's yet.
LEMMA StoringKeepsRaces ==
    ASSUME TypeInv, TypeOK', Revocation, Races, NEW r \in Requests, Insert(r)
    PROVE  Races'
<1>0. PICK t : t = Refresh(req[r].new)
  OBVIOUS
<1>1. /\ req \in [Requests -> Request] /\ TypeOK
      /\ IsStoring(r) /\ req[r].new \notin given /\ req[r].at \in {"insert_access", "insert_refresh"}
      /\ raced' = raced /\ spent' = spent
      /\ cache' \subseteq cache \cup {t}
  BY <1>0, PresentedIsGiven
  DEF Insert, Inserted, IsStoring, StoringPlaces, TypeInv, TypeOK
<1>2. PICK p \in {"insert_refresh", "save_user", "drop_stored", "idle"} :
         /\ req'[r].at = p
         /\ p # "idle" => Goto(r, p)
         /\ p = "drop_stored" => cache' = cache \ {Storing(r), Access(req[r].new)}
         /\ \A s \in Requests : s # r => req'[s] = req[s]
  BY <1>1, GotoFields, FailFields DEF Insert, Inserted
<1>3. p # "idle" => /\ req'[r].op = req[r].op /\ req'[r].new = req[r].new
                    /\ Presented(r)' = Presented(r)
  BY <1>1, <1>2, GotoFields, GotoPresents DEF Places
<1>4. \A u \in Token : /\ ~Deletes(r, u)' /\ (Uses(r, u)' => Consumes(r, u))
                       /\ Consumes(r, u)' => Consumes(r, u)
  <2>1. p = "idle" => \A u \in Token : ~Uses(r, u)' /\ ~Deletes(r, u)' /\ ~Consumes(r, u)'
    BY <1>2 DEF Deletes, Holds, Uses, Consumes, Consuming, IsStoring, StoringPlaces, At
  <2>2. p # "idle" => \A u \in Token : /\ ~Deletes(r, u)' /\ (Uses(r, u)' => Consumes(r, u))
                                       /\ Consumes(r, u)' => Consumes(r, u)
    BY <1>1, <1>2, <1>3
    DEF Deletes, Holds, Uses, Consumes, Consuming, IsStoring, StoringPlaces, At
  <2> QED BY <2>1, <2>2
<1>5. (req[r].at = "drop_stored")' => Access(req[r].new)' \notin cache'
  BY <1>2, <1>3 DEF Access
<1>6. t \notin spent
  BY <1>0, <1>1, TokensDiffer DEF Revocation, RevokedWasGiven
<1>7. \A s \in Requests : ~Deletes(s, t)' /\ ~Consumes(s, t)'
  <2>1. \A s \in Requests : ~Deletes(s, t) /\ ~Consumes(s, t)
    BY <1>0, <1>1, PresentedIsGiven, TokensDiffer DEF Deletes, Consumes, Consuming, At
  <2>2. \A s \in Requests : s # r => ~Deletes(s, t)' /\ ~Consumes(s, t)'
    BY <1>2, <2>1, OthersKeepTheirParts
  <2>3. ~Deletes(r, t)'
    BY <1>2 DEF Deletes, At
  <2>4. ~Consumes(r, t)'
    <3>1. p = "idle" => ~Consumes(r, t)'
      BY <1>2 DEF Consumes, Consuming, IsStoring, StoringPlaces
    <3>2. p # "idle" /\ Consumes(r, t)' => Consumes(r, t)
      BY <1>1, <1>2, <1>3 DEF Consumes, Consuming, IsStoring, StoringPlaces
    <3> QED BY <2>1, <3>1, <3>2
  <2> QED BY <2>2, <2>3, <2>4
<1>8. \A s \in Requests : Access(req[s].new)' # t
  BY <1>0, TokensDiffer DEF Access, Refresh
<1>9. \A u \in cache' \ cache : u = t
  BY <1>1
<1>10. \A u \in cache' \ cache :
         /\ u \notin spent' /\ \A s \in Requests : ~Deletes(s, u)' /\ ~Consumes(s, u)'
         /\ \A s \in Requests : (req[s].at = "drop_stored")' => Access(req[s].new)' # u
  BY <1>1, <1>6, <1>7, <1>8, <1>9
<1>11. \A u \in Token : Consumes(r, u) => Uses(r, u)
  BY DEF Uses
<1> QED BY <1>1, <1>2, <1>4, <1>5, <1>10, <1>11, StepKeepsRaces

\* A pair that is returned: who else uses the token it was obtained with was seen already.
LEMMA ReturningKeepsRaces ==
    ASSUME TypeInv, TypeOK', Races, NEW r \in Requests, SaveUser(r)
    PROVE  Races'
<1>0. PICK t : t = Presented(r)
  OBVIOUS
<1>1. /\ req \in [Requests -> Request] /\ TypeOK /\ Fail(r)
      /\ cache' = cache /\ raced' = raced
      /\ spent' \subseteq spent \cup {t} /\ spent' \subseteq Token
  BY <1>0 DEF SaveUser, TypeInv, TypeOK
<1>2. req'[r].at = "idle" /\ \A s \in Requests : s # r => req'[s] = req[s]
  BY <1>1, FailFields
<1>3. /\ req'[r].at # "drop_stored"
      /\ \A u \in Token : ~Deletes(r, u)' /\ ~Consumes(r, u)' /\ ~Uses(r, u)'
  BY <1>2 DEF Deletes, Holds, Consumes, Uses, Consuming, IsStoring, StoringPlaces, At
<1>4. \A u \in spent' \ spent : Consumes(r, u) /\ u \in Token
  BY <1>0, <1>1 DEF SaveUser, Consumes, Consuming, IsStoring, StoringPlaces
<1>5. \A u \in spent' \ spent : u \in cache => u \in raced
  BY <1>4 DEF Races, CachedByRace
<1>6. \A u \in spent' \ spent : \A s \in Requests : Uses(s, u)' => u \in raced
  <2>1. \A u \in spent' \ spent : \A s \in Requests \ {r} : Uses(s, u) => u \in raced
    BY <1>4 DEF Races, UsedByRace
  <2>2. \A u \in Token : \A s \in Requests \ {r} : Uses(s, u)' => Uses(s, u)
    BY <1>2, OthersKeepTheirParts
  <2> QED BY <1>3, <1>4, <2>1, <2>2
<1> QED BY <1>1, <1>2, <1>3, <1>5, <1>6, StepKeepsRaces

\* The steps of a request.
LEMMA StepsKeepRaces ==
    ASSUME TypeInv, Revocation, Races, NEW r \in Requests, Step(r)
    PROVE  Races'
<1>0. TypeOK /\ TypeOK' /\ req \in [Requests -> Request] /\ req[r] \in Request
  BY StepKeepsTypeInv DEF TypeInv, TypeOK
<1>1. CASE Regenerate(r)
  <2>1. req[r].op = "refresh" /\ Consuming(r)
    BY <1>1 DEF Regenerate, At, Consuming
  <2> QED BY <1>0, <1>1, <2>1, MintKeepsRaces DEF Regenerate
<1>2. CASE Fill(r) \/ Delete(r) \/ Insert(r) \/ SaveUser(r)
  BY <1>0, <1>2, FillKeepsRaces, DeleteKeepsRaces, StoringKeepsRaces, ReturningKeepsRaces
<1>3. CASE Look(r) \/ Find(r) \/ GetUser(r) \/ Uncache(r) \/ Serve(r) \/ WriteUser(r) \/ DropStored(r)
  <2>0. raced' = raced /\ spent' = spent /\ cache' \subseteq cache
    BY <1>3 DEF Look, Find, GetUser, Uncache, Serve, WriteUser, DropStored
  <2>1. CASE Fail(r)
    BY <1>0, <2>0, <2>1, FailFields, IdlersKeepRaces
  <2>2. CASE \E p \in {"find", "accepted"} : Goto(r, p)
    BY <1>0, <2>0, <2>2, GotoFields, IdlersKeepRaces
  <2>3. CASE \/ Look(r) /\ Goto(r, "get_user") /\ Presented(r) \in cache
             \/ Find(r) /\ Goto(r, "fill") /\ Presented(r) \in db
    <3>1. /\ req'[r].op = req[r].op /\ req'[r].at \in {"get_user", "fill"}
          /\ Presented(r)' = Presented(r)
          /\ \A s \in Requests : s # r => req'[s] = req[s]
      BY <1>0, <2>3, GotoFields, GotoPresents DEF Places
    <3>2. /\ req'[r].at # "drop_stored"
          /\ \A t \in Token : ~Deletes(r, t)' /\ ~Consumes(r, t)' /\ (Uses(r, t)' => t = Presented(r))
      BY <3>1 DEF Deletes, Holds, Consumes, Uses, Consuming, IsStoring, StoringPlaces, At
    <3>3. \/ Presented(r) \in raced
          \/ Presented(r) \notin spent /\ \A s \in Requests : ~Consumes(s, Presented(r))
      <4>1. Presented(r) \in cache =>
              \/ Presented(r) \in raced
              \/ Presented(r) \notin spent /\ \A s \in Requests : ~Consumes(s, Presented(r))
        BY DEF Races, CachedByRace
      <4>2. Presented(r) \in db =>
              Presented(r) \notin spent /\ \A s \in Requests : ~Consumes(s, Presented(r))
        BY PresentedIsGiven DEF Consumes, Revocation, OutOfDatabase
      <4> QED BY <2>3, <4>1, <4>2
    <3>4. \A t \in Token : Uses(r, t)' =>
             t \in raced' \/ (t \notin spent' /\ \A s \in Requests : ~Consumes(s, t))
      BY <2>0, <3>2, <3>3
    <3> QED BY <1>0, <2>0, <3>1, <3>2, <3>4, StepKeepsRaces
  <2>4. CASE \/ GetUser(r) /\ Found(r, claims[req[r].pair])
             \/ Uncache(r) /\ Goto(r, "delete") /\ Presented(r) \notin cache'
    <3>1. claims[req[r].pair] \in Users \/ ~GetUser(r)
      BY <1>0 DEF GetUser, At, TypeInv, TypeOK, Equipped
    <3>2. /\ req'[r].op = req[r].op /\ Presented(r)' = Presented(r)
          /\ \/ req[r].op = "refresh" /\ req[r].at = "get_user" /\ req'[r].at = "uncache"
             \/ /\ req[r].op \in {"refresh", "logout"} /\ req[r].at = "uncache"
                /\ req'[r].at = "delete" /\ Presented(r) \notin cache'
          /\ \A s \in Requests : s # r => req'[s] = req[s]
      BY <1>0, <2>4, <3>1, GotoFields, UserFields DEF GetUser, Uncache, At, Presented
    <3>3. /\ req'[r].at # "drop_stored"
          /\ \A t \in Token : /\ Deletes(r, t)' => t \notin cache'
                              /\ ~Consumes(r, t)' /\ (Uses(r, t)' => Uses(r, t))
      BY <3>2 DEF Deletes, Holds, Consumes, Uses, Consuming, IsStoring, StoringPlaces, At
    <3> QED BY <1>0, <2>0, <3>2, <3>3, StepKeepsRaces
  <2>5. \/ Fail(r) \/ \E p \in {"find", "accepted"} : Goto(r, p)
        \/ Look(r) /\ Goto(r, "get_user") /\ Presented(r) \in cache
        \/ Find(r) /\ Goto(r, "fill") /\ Presented(r) \in db
        \/ GetUser(r) /\ Found(r, claims[req[r].pair])
        \/ Uncache(r) /\ Goto(r, "delete") /\ Presented(r) \notin cache'
    BY <1>3 DEF Look, Find, GetUser, Uncache, Serve, WriteUser, DropStored, Known
  <2> QED BY <2>1, <2>2, <2>3, <2>4, <2>5
<1> QED BY <1>1, <1>2, <1>3, StepCases

\* Every action.
LEMMA NextKeepsRaces == TypeInv /\ Revocation /\ Races /\ [Next]_vars => Races'
<1> SUFFICES ASSUME TypeInv, Revocation, Races, [Next]_vars PROVE Races'
  OBVIOUS
<1>0. TypeOK /\ TypeOK'
  BY NextKeepsTypeInv DEF TypeInv
<1>1. ASSUME UNCHANGED <<spent, raced, req>>, cache' \subseteq cache PROVE Races'
  BY <1>1 DEF Races, CachedByRace, UsedByRace, DroppedUncached, Deletes, Holds, Consumes, Uses,
       Consuming, IsStoring, At, Presented
<1>2. ASSUME NEW r \in Requests, Step(r) PROVE Races'
  BY <1>2, StepsKeepRaces
<1>3. ASSUME NEW r \in Requests, NEW u \in Users, Login(r, u) PROVE Races'
  BY <1>0, <1>3, LoginMints, MintKeepsRaces
<1>4. ASSUME NEW r \in Requests, NEW u \in Users, ReadUser(r, u) PROVE Races'
  BY <1>0, <1>4, ReadFields, IdlersKeepRaces DEF ReadUser
<1>5. ASSUME NEW r \in Requests, NEW k \in given, NEW op \in {"refresh", "logout", "validate"},
             Begin(r, op, IF op = "refresh" THEN Refresh(k) ELSE Access(k))
      PROVE  Races'
  <2> DEFINE t == IF op = "refresh" THEN Refresh(k) ELSE Access(k)
  <2>0. t \in Token
    BY DEF TypeInv, TypeOK, Token, Access, Refresh
  <2> HIDE DEF t
  <2>1. Begin(r, op, t)
    BY <1>5 DEF t
  <2>2. UNCHANGED <<spent, raced, cache>>
    BY <2>1 DEF Begin
  <2>3. \/ req'[r].at = "look"
        \/ req'[r].at = "uncache" /\ req'[r].op = "logout"
    BY <2>1 DEF Begin, Idle, TypeInv, TypeOK
  <2>4. \A s \in Requests : s # r => req'[s] = req[s]
    BY <2>0, <2>1, BeginFields
  <2> QED BY <1>0, <2>2, <2>3, <2>4, IdlersKeepRaces
<1>6. CASE \/ UNCHANGED vars \/ \E u \in Users : CreateUser(u) \/ DeleteUser(u)
           \/ \E t \in Token : Expire(t)
           \/ CleanExpiredTokens \/ TTL
  BY <1>1, <1>6 DEF vars, CreateUser, DeleteUser, Expire, CleanExpiredTokens, TTL
<1>7. CASE Restart
  BY <1>7 DEF Restart, Idle, Races, CachedByRace, UsedByRace, DroppedUncached, Holds, Consumes,
     Uses, Consuming, IsStoring, StoringPlaces
<1> QED BY <1>2, <1>3, <1>4, <1>5, <1>6, <1>7, NextCases

\* The invariant holds from the start.
LEMMA RevokedInvariant == Spec => []RevokedInv
<1>1. Init => RevokedInv
  <2>1. Init => Races
    BY DEF Init, Idle, Races, CachedByRace, UsedByRace, DroppedUncached, Holds, Consumes, Uses,
         Consuming, IsStoring, StoringPlaces
  <2> QED BY <2>1, InitTypeInv, InitRevocation DEF RevokedInv
<1>2. RevokedInv /\ [Next]_vars => RevokedInv'
  BY NextKeepsTypeInv, NextKeepsRevocation, NextKeepsRaces DEF RevokedInv
<1> QED BY <1>1, <1>2, PTL DEF Spec

\* A token revoked by a call that returned nil never comes back into the database, whatever the
\* other requests, the failing writes and the restarts, and is in the cache only where another
\* request held it when it was deleted, or cached it before the deletion was over.
THEOREM RevokedTokensStayOut == Spec => []RevokedForGood
<1>1. RevokedInv => RevokedForGood
  BY DEF RevokedInv, Revocation, Races, CachedByRace, OutOfDatabase, RevokedForGood
<1> QED BY <1>1, RevokedInvariant, PTL

\* A refresh token with which a pair was obtained takes another refresh past its deletion only
\* where the two overlapped.
THEOREM RefreshTokensAreConsumedOnce == Spec => []ConsumedOnce
<1>1. RevokedInv => ConsumedOnce
  <2> SUFFICES ASSUME RevokedInv, NEW r \in Requests,
                      req[r].op = "refresh", Presented(r) \in spent,
                      req[r].at \in {"mint", "insert_access", "insert_refresh", "drop_stored",
                                     "save_user"}
               PROVE  Presented(r) \in raced
    BY DEF ConsumedOnce
  <2>1. Uses(r, Presented(r))
    BY DEF Uses, Consumes, Consuming, IsStoring, StoringPlaces
  <2>2. Presented(r) \in Token
    BY PresentedIsGiven DEF RevokedInv
  <2> QED BY <2>1, <2>2 DEF RevokedInv, Races, UsedByRace
<1> QED BY <1>1, RevokedInvariant, PTL

-----------------------------------------------------------------------------
(* What the cache vouches for *)

\* What is no longer accounted for is not in the cache, and nobody is about to put it there.
NothingLost ==
    \A t \in Covered \ Covered' :
        t \notin cache' /\ \A s \in Requests : req'[s].at = "fill" => Presented(s)' # t

\* A token that leaves the database without expiring was deleted: by a call that took it out of
\* the cache before, and whoever was caching it meanwhile raced that call.
LEMMA NothingIsLost == RevokedInv /\ FillsWhatItFound /\ [Next]_vars => NothingLost
<1> SUFFICES ASSUME RevokedInv, FillsWhatItFound, [Next]_vars PROVE NothingLost
  OBVIOUS
<1>0. TypeInv /\ Revocation /\ Races /\ TypeOK /\ req \in [Requests -> Request]
  BY DEF RevokedInv, TypeInv, TypeOK
<1>1. Covered \subseteq Covered' => NothingLost
  BY DEF NothingLost
<1>2. ASSUME NEW r \in Requests, Delete(r) PROVE NothingLost
  <2>0. PICK t : t = Presented(r)
    OBVIOUS
  <2>1. /\ req[r].op \in {"refresh", "logout"} /\ req[r].at = "delete" /\ Deletes(r, t)
        /\ expired' = expired /\ cache' = cache /\ db \ {t} \subseteq db'
        /\ raced' = raced \cup {u \in {t} : HeldBesides(r, u)}
    BY <1>2, <2>0 DEF Delete, At, Deletes, Written, Faulty
  <2>2. \A u \in Covered \ Covered' : u = t /\ ~HeldBesides(r, t) /\ t \notin raced
    BY <2>1 DEF Covered
  <2>3. t \in cache => t \in raced
    BY <1>0, <2>1 DEF Races, CachedByRace
  <2>4. Goto(r, "mint") \/ Fail(r)
    BY <1>2 DEF Delete, Revoked
  <2>5. req'[r].at # "fill" /\ \A s \in Requests : s # r => req'[s] = req[s]
    BY <1>0, <2>4, GotoFields, FailFields
  <2>6. \A s \in Requests : req'[s].at = "fill" /\ Presented(s)' = t => HeldBesides(r, t)
    BY <2>5 DEF FillsWhatItFound, HeldBesides, Presented
  <2> QED BY <2>1, <2>2, <2>3, <2>6 DEF NothingLost
<1>3. ASSUME NEW r \in Requests, DropStored(r) PROVE NothingLost
  <2>0. PICK t : t = Access(req[r].new)
    OBVIOUS
  <2>1. /\ req[r].at = "drop_stored" /\ IsStoring(r) /\ expired' = expired /\ cache' = cache
        /\ raced' = raced /\ db \ {t} \subseteq db' /\ Fail(r)
    BY <1>3, <2>0 DEF DropStored, Written, Faulty, IsStoring, StoringPlaces
  <2>2. \A u \in Covered \ Covered' : u = t
    BY <2>1 DEF Covered
  <2>3. t \notin cache /\ t[2] \notin given
    BY <1>0, <2>0, <2>1, PresentedIsGiven, TokensDiffer DEF Races, DroppedUncached
  <2>4. req'[r].at # "fill" /\ \A s \in Requests : s # r => req'[s] = req[s]
    BY <1>0, <2>1, FailFields
  <2>5. \A s \in Requests : req[s].at = "fill" => Presented(s) # t
    BY <1>0, <2>3, PresentedIsGiven DEF FillsWhatItFound
  <2>6. \A s \in Requests : req'[s].at = "fill" => Presented(s)' # t
    BY <2>4, <2>5 DEF Presented
  <2> QED BY <2>1, <2>2, <2>3, <2>6 DEF NothingLost
<1>4. ASSUME NEW r \in Requests, Step(r), ~Delete(r), ~DropStored(r) PROVE NothingLost
  <2>1. CASE Insert(r)
    BY <1>1, <2>1 DEF Insert, Inserted, Written, Faulty, Covered
  <2>2. CASE Fill(r)
    BY <1>1, <2>2 DEF Fill, Covered
  <2> QED
    BY <1>1, <1>4, <2>1, <2>2, StepCases
    DEF Look, Find, GetUser, Uncache, Regenerate, SaveUser, Serve, WriteUser, Covered
<1>5. ASSUME NEW r \in Requests, NEW u \in Users, Login(r, u) \/ ReadUser(r, u)
      PROVE  NothingLost
  BY <1>1, <1>5 DEF Login, ReadUser, Covered
<1>6. ASSUME NEW r \in Requests, NEW op, NEW t, Begin(r, op, t) PROVE NothingLost
  BY <1>1, <1>6 DEF Begin, Covered
<1>7. CASE \/ UNCHANGED vars
           \/ \E u \in Users : CreateUser(u) \/ DeleteUser(u)
           \/ \E t \in Token : Expire(t)
           \/ CleanExpiredTokens \/ TTL
  BY <1>1, <1>7 DEF vars, CreateUser, DeleteUser, Expire, CleanExpiredTokens, TTL, Covered
<1>8. CASE Restart
  BY <1>8 DEF Restart, Idle, NothingLost
<1> QED BY <1>2, <1>3, <1>4, <1>5, <1>6, <1>7, <1>8, NextCases

\* A step that caches no token, ends no insertion and finds no token changes nothing of it.
LEMMA QuietForCache ==
    ASSUME CacheInv, NothingLost, cache' \subseteq cache,
           \A s \in Requests : Inserting(s) => Inserting(s)' /\ Storing(s)' = Storing(s),
           \A s \in Requests : (req[s].at = "fill")' =>
              req[s].at = "fill" /\ req'[s].op = req[s].op /\ Presented(s)' = Presented(s)
    PROVE  CacheInv'
BY DEF CacheInv, FillsWhatItFound, CacheVouches, NothingLost, Covered, Inserting

\* A request that is not storing tokens, and does not start to cache one, moves on.
LEMMA MovesForCache ==
    ASSUME TypeInv, CacheInv, NothingLost, cache' \subseteq cache,
           NEW r \in Requests, ~Inserting(r), req'[r].at # "fill",
           \A s \in Requests : s # r => req'[s] = req[s]
    PROVE  CacheInv'
<1>1. \A s \in Requests : Inserting(s) => Inserting(s)' /\ Storing(s)' = Storing(s)
  BY DEF Inserting, Storing
<1>2. \A s \in Requests : (req[s].at = "fill")' =>
        req[s].at = "fill" /\ req'[s].op = req[s].op /\ Presented(s)' = Presented(s)
  BY DEF Presented
<1> QED BY <1>1, <1>2, QuietForCache

\* The request that mints vouches for its access token.
LEMMA MintKeepsCacheInv ==
    ASSUME TypeInv, CacheInv, NothingLost, NEW r \in Requests, NEW q \in Request,
           Mint(r, q), ~Inserting(r)
    PROVE  CacheInv'
<1> DEFINE k == Cardinality(minted) + 1
<1>1. /\ req'[r].new = k /\ req'[r].at = "insert_access"
      /\ \A s \in Requests : s # r => req'[s] = req[s]
      /\ cache' = cache \cup {Access(k)}
  BY MintFields DEF TypeInv, TypeOK, Mint
<1> HIDE DEF k
<1>2. Inserting(r)' /\ Storing(r)' = Access(k)
  BY <1>1 DEF Inserting, Storing
<1>3. \A s \in Requests : Inserting(s) => Inserting(s)' /\ Storing(s)' = Storing(s)
  BY <1>1 DEF Inserting, Storing
<1>4. CacheVouches'
  BY <1>1, <1>2, <1>3 DEF CacheInv, CacheVouches, NothingLost, Covered, Inserting
<1>5. FillsWhatItFound'
  BY <1>1 DEF CacheInv, FillsWhatItFound, NothingLost, Presented
<1> QED BY <1>4, <1>5 DEF CacheInv

\* The steps of a request.
LEMMA StepKeepsCacheInv ==
    ASSUME TypeInv, CacheInv, NothingLost, NEW r \in Requests, Step(r)
    PROVE  CacheInv'
<1>0. req \in [Requests -> Request] /\ req[r] \in Request
  BY DEF TypeInv, TypeOK
<1>1. CASE Regenerate(r)
  BY <1>0, <1>1, MintKeepsCacheInv DEF Regenerate, At, Inserting
<1>2. CASE Look(r) \/ GetUser(r) \/ Uncache(r) \/ Delete(r) \/ Serve(r) \/ WriteUser(r) \/ DropStored(r) \/ SaveUser(r)
  <2>1. cache' \subseteq cache /\ ~Inserting(r)
    BY <1>2 DEF Look, GetUser, Uncache, Delete, Serve, WriteUser, DropStored, SaveUser, At,
       Inserting
  <2>2. \/ \E p \in {"find", "get_user", "accepted", "delete", "mint"} : Goto(r, p)
        \/ Fail(r)
        \/ Found(r, claims[req[r].pair]) /\ claims[req[r].pair] \in Users
    <3>1. GetUser(r) => claims[req[r].pair] \in Users
      BY <1>0 DEF GetUser, At, TypeInv, TypeOK, Equipped
    <3> QED BY <1>2, <3>1 DEF Look, GetUser, Uncache, Delete, Serve, WriteUser, DropStored, SaveUser, Known, Revoked
  <2>3. req'[r].at # "fill" /\ \A s \in Requests : s # r => req'[s] = req[s]
    BY <1>0, <2>2, GotoFields, FailFields, UserFields
  <2> QED BY <2>1, <2>3, MovesForCache
<1>3. CASE Find(r)
  <2>0. ~Inserting(r) /\ cache' = cache
    BY <1>3 DEF Find, At, Inserting
  <2>1. CASE Fail(r)
    BY <1>0, <2>0, <2>1, FailFields, MovesForCache
  <2>2. CASE Goto(r, "fill") /\ Presented(r) \in db
    <3>1. /\ Presented(r)' = Presented(r) /\ req'[r].op = req[r].op
          /\ \A s \in Requests : s # r => req'[s] = req[s]
      BY <1>0, <2>2, GotoFields DEF Presented
    <3>2. FillsWhatItFound'
      <4>1. req[r].op \in {"refresh", "validate"} /\ Presented(r) \in Covered'
        BY <1>3, <2>2 DEF Find, At, Covered
      <4>2. \A s \in Requests : s # r /\ req'[s].at = "fill"
              => req'[s].op \in {"refresh", "validate"} /\ Presented(s)' \in Covered'
        BY <3>1 DEF CacheInv, FillsWhatItFound, NothingLost, Presented
      <4> QED BY <3>1, <4>1, <4>2 DEF FillsWhatItFound
    <3>3. CacheVouches'
      BY <2>0, <3>1 DEF CacheInv, CacheVouches, NothingLost, Covered, Inserting, Storing
    <3> QED BY <3>2, <3>3 DEF CacheInv
  <2> QED BY <1>3, <2>1, <2>2 DEF Find
<1>4. CASE Fill(r)
  <2>0. ~Inserting(r) /\ cache' = cache \cup {Presented(r)} /\ Presented(r) \in Covered
    BY <1>4 DEF Fill, At, Inserting, CacheInv, FillsWhatItFound
  <2>1. req'[r].at # "fill" /\ \A s \in Requests : s # r => req'[s] = req[s]
    BY <1>0, <1>4, GotoFields DEF Fill, Known
  <2>2. CacheVouches'
    BY <2>0, <2>1 DEF CacheInv, CacheVouches, NothingLost, Covered, Inserting, Storing
  <2>3. FillsWhatItFound'
    BY <2>1 DEF CacheInv, FillsWhatItFound, NothingLost, Presented
  <2> QED BY <2>2, <2>3 DEF CacheInv
<1>5. CASE Insert(r)
  <2>1. Goto(r, "insert_refresh") \/ Goto(r, "save_user") \/ Goto(r, "drop_stored") \/ Fail(r)
    BY <1>5 DEF Insert, Inserted
  <2>2. req'[r].at # "fill" /\ \A s \in Requests : s # r => req'[s] = req[s]
    BY <1>0, <2>1, GotoFields, FailFields
  <2>3. FillsWhatItFound'
    BY <2>2 DEF CacheInv, FillsWhatItFound, NothingLost, Presented
  <2>4. ASSUME NEW t \in cache' \ Covered'
        PROVE  \E s \in Requests : (Inserting(s) /\ Storing(s) = t)'
    <3>1. CASE t \in cache /\ t # Storing(r)
      BY <2>2, <2>4, <3>1 DEF CacheInv, CacheVouches, NothingLost, Covered, Inserting, Storing
    <3>2. CASE t = Storing(r) \/ t \notin cache
      <4>1. Inserted(r) /\ req[r].at = "insert_access" /\ t = Refresh(req[r].new)
        BY <1>5, <2>4, <3>2 DEF Insert, Inserted, Written, Faulty, Covered
      <4>2. (Inserting(r) /\ Storing(r) = t)'
        BY <1>0, <4>1, GotoFields DEF Inserted, Inserting, Storing
      <4> QED BY <4>2
    <3> QED BY <3>1, <3>2
  <2>5. CacheVouches'
    BY <2>4 DEF CacheVouches, Covered, Inserting
  <2> QED BY <2>3, <2>5 DEF CacheInv
<1> QED BY <1>1, <1>2, <1>3, <1>4, <1>5, StepCases

\* Every action.
LEMMA NextKeepsCacheInv == RevokedInv /\ CacheInv /\ [Next]_vars => CacheInv'
<1> SUFFICES ASSUME RevokedInv, CacheInv, [Next]_vars PROVE CacheInv'
  OBVIOUS
<1>0. TypeInv /\ NothingLost /\ req \in [Requests -> Request]
  BY NothingIsLost DEF CacheInv, RevokedInv, TypeInv, TypeOK
<1>1. CASE UNCHANGED vars
  BY <1>0, <1>1, QuietForCache DEF vars, Inserting, Storing, Presented
<1>2. ASSUME NEW r \in Requests, Step(r) PROVE CacheInv'
  BY <1>0, <1>2, StepKeepsCacheInv
<1>3. ASSUME NEW r \in Requests, NEW u \in Users, Login(r, u) PROVE CacheInv'
  <2>1. ~Inserting(r)
    BY <1>3 DEF Login, Idle, Inserting
  <2> QED BY <1>0, <1>3, <2>1, LoginMints, MintKeepsCacheInv
<1>4. ASSUME NEW r \in Requests, NEW u \in Users, ReadUser(r, u) PROVE CacheInv'
  <2>1. ~Inserting(r) /\ cache' = cache
    BY <1>4 DEF ReadUser, Idle, Inserting
  <2> QED BY <1>0, <1>4, <2>1, ReadFields, MovesForCache
<1>5. ASSUME NEW r \in Requests, NEW k \in given, NEW op \in {"refresh", "logout", "validate"},
             Begin(r, op, IF op = "refresh" THEN Refresh(k) ELSE Access(k))
      PROVE  CacheInv'
  <2> DEFINE t == IF op = "refresh" THEN Refresh(k) ELSE Access(k)
  <2>0. t \in Token
    BY <1>0 DEF TypeInv, TypeOK, Token, Access, Refresh
  <2> HIDE DEF t
  <2>1. Begin(r, op, t)
    BY <1>5 DEF t
  <2>2. ~Inserting(r) /\ cache' = cache
    BY <2>1 DEF Begin, Idle, Inserting
  <2> QED BY <1>0, <2>0, <2>1, <2>2, BeginFields, MovesForCache
<1>6. CASE \/ \E u \in Users : CreateUser(u) \/ DeleteUser(u)
           \/ \E t \in Token : Expire(t)
           \/ CleanExpiredTokens \/ TTL
  <2>1. cache' \subseteq cache /\ req' = req
    BY <1>6 DEF CreateUser, DeleteUser, Expire, CleanExpiredTokens, TTL
  <2> QED BY <1>0, <2>1, QuietForCache DEF Inserting, Storing, Presented
<1>7. CASE Restart
  BY <1>7 DEF Restart, Idle, CacheInv, CacheVouches, FillsWhatItFound
<1> QED BY <1>1, <1>2, <1>3, <1>4, <1>5, <1>6, <1>7, NextCases

\* The cache never vouches for a token that was not stored: a live one is in the database, or on
\* its way there, or was deleted while another request held it.
THEOREM CacheVouchesForStored == Spec => []CacheVouches
<1>1. Init => CacheInv
  BY DEF Init, Idle, CacheInv, CacheVouches, FillsWhatItFound
<1>2. CacheInv => CacheVouches
  BY DEF CacheInv
<1> QED BY <1>1, <1>2, RevokedInvariant, NextKeepsCacheInv, PTL DEF Spec

-----------------------------------------------------------------------------
(* Users *)

\* A row is created once and deleted for good, whoever writes the copy it holds.
LEMMA RowsOnlyAdvance ==
    ASSUME TypeInv, [Next]_vars, NEW u \in Users
    PROVE  /\ row[u].state = "deleted" => row'[u].state = "deleted"
           /\ row[u].state # "new" => row'[u].state # "new"
<1>0. row \in [Users -> Row]
  BY DEF TypeInv, TypeOK
<1>1. CASE row' = row
  BY <1>1
<1>2. ASSUME NEW v, Replace(v) \/ CreateUser(v) \/ DeleteUser(v)
      PROVE  /\ row[u].state = "deleted" => row'[u].state = "deleted"
             /\ row[u].state # "new" => row'[u].state # "new"
  BY <1>0, <1>2 DEF Replace, CreateUser, DeleteUser, Stored, Row
<1>3. ASSUME NEW r \in Requests, Step(r), row' # row
      PROVE  Replace(req[r].user)
  BY <1>3, StepCases DEF Look, Find, Fill, GetUser, Uncache, Delete, Regenerate, Insert,
     DropStored, SaveUser, Serve, WriteUser
<1>4. ASSUME NEW r \in Requests, NEW v \in Users, Login(r, v) \/ ReadUser(r, v) PROVE row' = row
  BY <1>4 DEF Login, ReadUser
<1>5. ASSUME NEW r \in Requests, NEW op, NEW t, Begin(r, op, t) PROVE row' = row
  BY <1>5 DEF Begin
<1>6. CASE UNCHANGED vars \/ (\E t \in Token : Expire(t)) \/ CleanExpiredTokens \/ TTL \/ Restart
  BY <1>1, <1>6 DEF vars, Expire, CleanExpiredTokens, TTL, Restart
<1> QED BY <1>1, <1>2, <1>3, <1>4, <1>5, <1>6, NextCases

\* No copy held across a deletion brings the user back.
THEOREM DeletedUsersStayDeleted == Spec => DeletedStaysDeleted
<1>1. TypeInv /\ [Next]_vars => [\A u \in Users : row[u].state = "deleted" => row'[u].state = "deleted"]_vars
  BY RowsOnlyAdvance
<1> QED BY <1>1, InitTypeInv, NextKeepsTypeInv, PTL DEF Spec, DeletedStaysDeleted

\* A step that signs nothing and gives no request a user or a late start keeps the users straight.
LEMMA QuietForUsers ==
    ASSUME TypeInv, UserInv, [Next]_vars, claims' = claims,
           \A s \in Requests : req'[s].user \in Users =>
               req'[s].user = req[s].user \/ row[req'[s].user].state # "new",
           \A s \in Requests : IsLate(s)' =>
               /\ IsLate(s) /\ req'[s].pair = req[s].pair /\ req'[s].new = req[s].new
               /\ req'[s].at \in BeforeLookup
    PROVE  UserInv'
<1>1. minted' = minted /\ claims \in [minted -> Users]
  BY DEF minted, TypeInv, TypeOK
<1>2. Acquainted'
  <2>1. \A k \in minted' : (row[claims[k]].state # "new")'
    BY <1>1, RowsOnlyAdvance DEF UserInv, Acquainted
  <2>2. ASSUME NEW s \in Requests, req'[s].user \in Users PROVE row'[req'[s].user].state # "new"
    <3>1. row[req'[s].user].state # "new"
      BY <2>2 DEF UserInv, Acquainted
    <3> QED BY <2>2, <3>1, RowsOnlyAdvance
  <2> QED BY <2>1, <2>2 DEF Acquainted
<1>3. LateStaysOut'
  <2> SUFFICES ASSUME NEW s \in Requests, IsLate(s)'
               PROVE  (/\ req[s].at \in BeforeLookup /\ req[s].new = 0
                       /\ row[claims[req[s].pair]].state = "deleted")'
    BY DEF LateStaysOut, BeforeLookup
  <2>1. IsLate(s) /\ req'[s].pair = req[s].pair /\ req'[s].new = 0 /\ req'[s].at \in BeforeLookup
    BY DEF UserInv, LateStaysOut
  <2>2. claims[req[s].pair] \in Users
    BY <1>1, <2>1 DEF IsLate, TypeInv, TypeOK, Equipped
  <2>3. row'[claims[req[s].pair]].state = "deleted"
    BY <2>1, <2>2, RowsOnlyAdvance DEF UserInv, LateStaysOut
  <2> QED BY <2>1, <2>3 DEF BeforeLookup
<1> QED BY <1>2, <1>3 DEF UserInv

\* A request that goes on, ends or waits takes no new user and does not become late.
LEMMA MovesForUsers ==
    ASSUME TypeInv, UserInv, [Next]_vars, claims' = claims, NEW r \in Requests,
           \/ Fail(r)
           \/ \E p : Goto(r, p) /\ (IsLate(r) => p \in BeforeLookup)
    PROVE  UserInv'
<1>0. req \in [Requests -> Request]
  BY DEF TypeInv, TypeOK
<1>1. CASE Fail(r)
  BY <1>0, <1>1, FailFields, QuietForUsers, NoUserAssumption DEF IsLate, UserInv, LateStaysOut
<1>2. ASSUME NEW p, Goto(r, p), IsLate(r) => p \in BeforeLookup PROVE UserInv'
  BY <1>0, <1>2, GotoFields, QuietForUsers DEF IsLate, UserInv, LateStaysOut
<1> QED BY <1>1, <1>2

\* Tokens are signed for a user that the request has found, and never by a late refresh.
LEMMA MintKeepsUserInv ==
    ASSUME TypeInv, UserInv, [Next]_vars, NEW r \in Requests, NEW q \in Request, Mint(r, q),
           q.user \in Users, row[q.user].state # "new", ~(q.op = "refresh" /\ q.late)
    PROVE  UserInv'
<1> DEFINE k == Cardinality(minted) + 1
<1>1. /\ req'[r].op = q.op /\ req'[r].late = q.late /\ req'[r].user = q.user
      /\ \A s \in Requests : s # r => req'[s] = req[s]
  BY MintFields DEF TypeInv, TypeOK
<1>2. /\ claims' = [i \in minted \cup {k} |-> IF i = k THEN q.user ELSE claims[i]]
      /\ k \notin minted
  BY MintIsNew DEF Mint
<1> HIDE DEF k
<1>3. /\ minted' = minted \cup {k} /\ claims'[k] = q.user
      /\ \A i \in minted : claims'[i] = claims[i] /\ claims[i] \in Users
  BY <1>2 DEF minted, TypeInv, TypeOK
<1>4. Acquainted'
  <2>1. \A i \in minted' : row'[claims'[i]].state # "new"
    BY <1>3, RowsOnlyAdvance DEF UserInv, Acquainted
  <2>2. \A s \in Requests : req'[s].user \in Users => row'[req'[s].user].state # "new"
    BY <1>1, RowsOnlyAdvance DEF UserInv, Acquainted
  <2> QED BY <2>1, <2>2 DEF Acquainted
<1>5. LateStaysOut'
  <2> SUFFICES ASSUME NEW s \in Requests, IsLate(s)'
               PROVE  (/\ req[s].at \in BeforeLookup /\ req[s].new = 0
                       /\ row[claims[req[s].pair]].state = "deleted")'
    BY DEF LateStaysOut, BeforeLookup
  <2>1. s # r /\ req'[s] = req[s] /\ IsLate(s)
    BY <1>1 DEF IsLate
  <2>2. req[s].pair \in minted
    BY <2>1 DEF IsLate, TypeInv, TypeOK, Equipped
  <2>3. row[claims[req[s].pair]].state = "deleted" /\ req[s].at \in BeforeLookup /\ req[s].new = 0
    BY <2>1 DEF UserInv, LateStaysOut
  <2>4. row'[claims'[req[s].pair]].state = "deleted"
    BY <1>3, <2>2, <2>3, RowsOnlyAdvance
  <2> QED BY <2>1, <2>3, <2>4 DEF BeforeLookup
<1> QED BY <1>4, <1>5 DEF UserInv

\* The steps of a request.
LEMMA StepKeepsUserInv ==
    ASSUME TypeInv, UserInv, [Next]_vars, NEW r \in Requests, Step(r)
    PROVE  UserInv'
<1>0. req \in [Requests -> Request] /\ req[r] \in Request
  BY DEF TypeInv, TypeOK
<1>1. CASE Regenerate(r)
  <2>1. req[r].user \in Users /\ ~IsLate(r) /\ req[r].op = "refresh"
    BY <1>1 DEF Regenerate, At, TypeInv, Equipped, UserInv, LateStaysOut, BeforeLookup
  <2> QED BY <1>0, <1>1, <2>1, MintKeepsUserInv DEF Regenerate, UserInv, Acquainted, IsLate
<1>2. CASE Look(r) \/ Find(r) \/ Fill(r)
  <2>1. \/ Fail(r)
        \/ \E p \in {"find", "fill", "get_user"} : Goto(r, p)
        \/ req[r].op # "refresh" /\ Goto(r, "accepted")
    BY <1>2 DEF Look, Find, Fill, Known
  <2>2. claims' = claims
    BY <1>2 DEF Look, Find, Fill
  <2> QED BY <2>1, <2>2, MovesForUsers DEF BeforeLookup, IsLate
<1>3. CASE GetUser(r)
  <2>1. claims' = claims
    BY <1>3 DEF GetUser
  <2>2. CASE Fail(r)
    BY <2>1, <2>2, MovesForUsers
  <2>3. CASE Stored(claims[req[r].pair]) /\ Found(r, claims[req[r].pair])
    <3>1. claims[req[r].pair] \in Users /\ ~IsLate(r)
      BY <1>0, <1>3, <2>3 DEF GetUser, At, Stored, TypeInv, TypeOK, Equipped, UserInv,
         LateStaysOut
    <3>2. \A s \in Requests : req'[s].user \in Users =>
               req'[s].user = req[s].user \/ row[req'[s].user].state # "new"
      BY <1>0, <2>3, <3>1, UserFields DEF Stored
    <3>3. \A s \in Requests : IsLate(s)' => IsLate(s) /\ req'[s] = req[s]
      BY <1>0, <2>3, <3>1, UserFields DEF IsLate
    <3> QED BY <2>1, <3>2, <3>3, QuietForUsers DEF UserInv, LateStaysOut
  <2> QED BY <1>3, <2>2, <2>3 DEF GetUser
<1>4. CASE Uncache(r) \/ Delete(r) \/ Insert(r) \/ DropStored(r) \/ SaveUser(r) \/ Serve(r) \/ WriteUser(r)
  <2>1. ~IsLate(r)
    BY <1>4 DEF Uncache, Delete, Insert, DropStored, SaveUser, Serve, WriteUser, At,
                UserInv, LateStaysOut, BeforeLookup
  <2>2. claims' = claims
    BY <1>4 DEF Uncache, Delete, Insert, DropStored, SaveUser, Serve, WriteUser
  <2>3. Fail(r) \/ \E p : Goto(r, p)
    BY <1>4 DEF Uncache, Delete, Revoked, Insert, Inserted, DropStored, SaveUser, Serve, WriteUser
  <2> QED BY <2>1, <2>2, <2>3, MovesForUsers
<1> QED BY <1>1, <1>2, <1>3, <1>4, StepCases

\* Every action.
LEMMA NextKeepsUserInv == TypeInv /\ UserInv /\ [Next]_vars => UserInv'
<1> SUFFICES ASSUME TypeInv, UserInv, [Next]_vars PROVE UserInv'
  OBVIOUS
<1>0. req \in [Requests -> Request]
  BY DEF TypeInv, TypeOK
<1>1. CASE claims' = claims /\ req' = req
  BY <1>1, QuietForUsers DEF IsLate, UserInv, LateStaysOut
<1>2. ASSUME NEW r \in Requests, Step(r) PROVE UserInv'
  BY <1>2, StepKeepsUserInv
<1>3. ASSUME NEW r \in Requests, NEW u \in Users, Login(r, u) PROVE UserInv'
  <2>1. PICK q \in Request : q.op = "login" /\ q.user = u /\ ~q.late /\ Mint(r, q)
    BY <1>3, LoginMints
  <2>2. row[u].state # "new"
    BY <1>3 DEF Login, Stored
  <2> QED BY <2>1, <2>2, MintKeepsUserInv
<1>4. ASSUME NEW r \in Requests, NEW u \in Users, ReadUser(r, u) PROVE UserInv'
  <2>1. claims' = claims /\ row[u].state # "new"
    BY <1>4 DEF ReadUser, Stored
  <2>2. \A s \in Requests : IsLate(s)' => IsLate(s) /\ req'[s] = req[s]
    BY <1>4, ReadFields DEF IsLate
  <2>3. \A s \in Requests : req'[s].user = req[s].user \/ req'[s].user = u
    BY <1>4, ReadFields
  <2> QED BY <2>1, <2>2, <2>3, QuietForUsers DEF UserInv, LateStaysOut
<1>5. ASSUME NEW r \in Requests, NEW k \in given, NEW op \in {"refresh", "logout", "validate"},
             Begin(r, op, IF op = "refresh" THEN Refresh(k) ELSE Access(k))
      PROVE  UserInv'
  <2> DEFINE t == IF op = "refresh" THEN Refresh(k) ELSE Access(k)
  <2>0. t \in Token /\ t[2] \in minted
    BY DEF TypeInv, TypeOK, Token, Access, Refresh
  <2> HIDE DEF t
  <2>1. Begin(r, op, t)
    BY <1>5 DEF t
  <2>2. UNCHANGED <<row, claims>> /\ minted' = minted
    BY <2>1 DEF Begin, minted
  <2>3. /\ req'[r].op = op /\ req'[r].pair = t[2] /\ req'[r].new = 0 /\ req'[r].user = NoUser
        /\ op = "refresh" => req'[r].at = "look"
        /\ req'[r].late = (op = "refresh" /\ ~Stored(claims[t[2]]))
        /\ \A s \in Requests : s # r => req'[s] = req[s]
    BY <2>0, <2>1, BeginFields
  <2>4. Acquainted'
    BY <2>2, <2>3, NoUserAssumption DEF UserInv, Acquainted
  <2>5. IsLate(r)' => row[claims[t[2]]].state = "deleted"
    BY <2>0, <2>3 DEF IsLate, Stored, UserInv, Acquainted, TypeInv, TypeOK, Row
  <2>6. LateStaysOut'
    BY <2>2, <2>3, <2>5 DEF UserInv, LateStaysOut, IsLate, BeforeLookup
  <2> QED BY <2>4, <2>6 DEF UserInv
<1>6. CASE \/ UNCHANGED vars
           \/ \E u \in Users : CreateUser(u) \/ DeleteUser(u)
           \/ \E t \in Token : Expire(t)
           \/ CleanExpiredTokens \/ TTL
  BY <1>1, <1>6 DEF vars, CreateUser, DeleteUser, Expire, CleanExpiredTokens, TTL
<1>7. CASE Restart
  <2>1. /\ claims' = claims
        /\ \A s \in Requests : req'[s].user = NoUser /\ ~IsLate(s)'
    BY <1>7 DEF Restart, Idle, IsLate
  <2> QED BY <2>1, QuietForUsers, NoUserAssumption
<1> QED BY <1>2, <1>3, <1>4, <1>5, <1>6, <1>7, NextCases

\* A refresh that begins after the deletion of its user never obtains tokens.
THEOREM LateRefreshGetsNothing == Spec => []DeletedUserGetsNothing
<1>1. Init => UserInv
  BY NoUserAssumption DEF Init, Idle, UserInv, Acquainted, LateStaysOut, IsLate, minted
<1>2. UserInv => DeletedUserGetsNothing
  BY DEF UserInv, LateStaysOut, IsLate, DeletedUserGetsNothing
<1> QED BY <1>1, <1>2, InitTypeInv, NextKeepsTypeInv, NextKeepsUserInv, PTL DEF Spec

=============================================================================
