------------------------ MODULE RequestPipelineProofs ------------------------
(***************************************************************************)
(* RequestPipeline, for every set of users, requests and inputs, every     *)
(* capacity of the buckets and every lifetime of tokens: the entitlement   *)
(* behind an answer, the cause of a refusal or of a 429, and the quota of  *)
(* a client.                                                               *)
(***************************************************************************)
EXTENDS RequestPipelineInv, FiniteSetTheorems, TLAPS

\* What the assumptions say of one input.
LEMMA InputTypes ==
  ASSUME NEW q \in Inputs
  PROVE  /\ q.route \in Routes
         /\ q.auth \in Foreign \cup {None, Issued}
         /\ q.user \in Users \cup {None}
         /\ q.route \in IPThrottledRoutes => IPKey(q) \in Keys
  BY InputAssumption, AuthAssumption DEF Keys

LEMMA UserKeys == \A u \in Users : UserKey(u) \in Keys
  BY DEF Keys

\* A header that is not read is no token, or one of another issuer.
LEMMA Presented ==
  ASSUME NEW q \in Inputs, NEW c \in Presentable(q)
  PROVE  c \in minted \cup Foreign \cup {None}
  BY InputTypes DEF Presentable

\* JWTAuth accepts the tokens that were minted, until they expire, and no other.
LEMMA OnlyMintedPass ==
  ASSUME AccessTokensTypeOK, Genuine, NEW c \in minted \cup Foreign \cup {None}
  PROVE  Authenticated(c) <=> c \in minted /\ now < c.exp
<1>1. CASE c \in minted
  BY <1>1, NoUserAssumption
     DEF Authenticated, decode_token, Genuine, AccessTokensTypeOK
<1>2. CASE c \in Foreign /\ c \notin minted
  BY <1>2, ForeignAssumption DEF Authenticated, decode_token
<1>3. CASE c = None
  BY <1>3, NoUserAssumption DEF Authenticated, AccessTokensTypeOK
<1> QED
  BY <1>1, <1>2, <1>3

\* Taking a token that is there keeps the accounts.
LEMMA TakeIsAccounted ==
  ASSUME TypeOK, Accounted, NEW r \in Requests, NEW k \in Keys,
         k \notin charged[r], ~Limited(k), Take(r, k), UNCHANGED now
  PROVE  Accounted' /\ RateLimitingTypeOK'
<1> USE DEF TypeOK, RateLimitingTypeOK
<1>1. bucket[k] \in 1..Burst
  BY LimitAssumption DEF Limited
<1>2. RateLimitingTypeOK'
  BY <1>1, LimitAssumption DEF Take
<1>3. ASSUME NEW j \in Keys
      PROVE  bucket'[j] + Cardinality(Takers(j)') = bucket[j] + Cardinality(Takers(j))
  <2>1. IsFiniteSet(Takers(j)) /\ Cardinality(Takers(j)) \in Nat
    BY RequestsAssumption, FS_Subset, FS_CardinalityType DEF Takers
  <2>2. CASE j = k
    <3>1. Takers(j)' = Takers(j) \cup {r} /\ r \notin Takers(j)
      BY <2>2 DEF Take, Takers
    <3>2. Cardinality(Takers(j)') = Cardinality(Takers(j)) + 1
      BY <2>1, <3>1, FS_AddElement
    <3> QED
      BY <1>1, <2>1, <2>2, <3>2 DEF Take
  <2>3. CASE j # k
    <3>1. Takers(j)' = Takers(j)
      BY <2>3 DEF Take, Takers
    <3> QED
      BY <2>3, <3>1 DEF Take
  <2> QED
    BY <2>2, <2>3
<1> QED
  BY <1>2, <1>3 DEF Accounted

\* So does every step that takes nothing and takes no time.
LEMMA QuietIsAccounted ==
  ASSUME Accounted, UNCHANGED <<bucket, charged, now>>
  PROVE  Accounted'
  BY DEF Accounted, Takers

\* Time puts at most one token back.
LEMMA TickIsAccounted ==
  ASSUME TypeOK, Accounted, Tick
  PROVE  Accounted' /\ RateLimitingTypeOK'
<1> USE DEF TypeOK, RateLimitingTypeOK, AccessTokensTypeOK
<1>1. RateLimitingTypeOK'
  BY LimitAssumption DEF Tick, Refilled
<1>2. ASSUME NEW k \in Keys
      PROVE  /\ bucket'[k] + Cardinality(Takers(k)') >= Burst
             /\ bucket'[k] + Cardinality(Takers(k)') <= Burst + now'
  <2>1. Takers(k)' = Takers(k)
    BY DEF Tick, Takers
  <2>2. Cardinality(Takers(k)) \in Nat
    BY RequestsAssumption, FS_Subset, FS_CardinalityType DEF Takers
  <2>3. /\ bucket[k] + Cardinality(Takers(k)) >= Burst
        /\ bucket[k] + Cardinality(Takers(k)) <= Burst + now
    BY DEF Accounted
  <2>4. now \in Nat /\ bucket[k] \in 0..Burst /\ Burst \in Nat
    BY LimitAssumption, ClockAssumption
  <2>5. now' = now + 1
    BY DEF Tick
  <2>6. bucket'[k] = IF bucket[k] < Burst THEN bucket[k] + 1 ELSE Burst
    BY DEF Tick, Refilled
  <2> QED
    BY <2>1, <2>2, <2>3, <2>4, <2>5, <2>6
<1> QED
  BY <1>1, <1>2 DEF Accounted

\* What others do does not concern a request: only the world and new tokens could.
LEMMA OthersFrame ==
  ASSUME NEW s \in Requests, Sound(s), minted \subseteq minted',
         UNCHANGED <<now, flags>>,
         pc'[s] = pc[s], input'[s] = input[s], bearer'[s] = bearer[s], reply'[s] = reply[s],
         since'[s] = since[s], ever'[s] = ever[s], always'[s] = always[s],
         charged'[s] = charged[s], passed'[s] = passed[s]
  PROVE  Sound(s)'
<1> USE DEF Sound
<1>1. Staged(s)'
  BY DEF Staged
<1>2. Authentic(s)'
  BY DEF Authentic, PastJWTAuth
<1>3. Allowed(s)' <=> Allowed(s)
  BY DEF Allowed
<1>4. Valid(s, now) => Valid(s, now)'
  BY DEF Valid
<1>5. Valid(s, since[s]) => Valid(s, since[s])'
  BY DEF Valid
<1>6. WellNoted(s)'
  BY <1>3, <1>4 DEF WellNoted, InFlight, PastUserQuery
<1>7. Charged(s)'
  BY DEF Charged
<1>8. Justified(s)'
  BY <1>5 DEF Justified
<1> QED
  BY <1>1, <1>2, <1>6, <1>7, <1>8

-----------------------------------------------------------------------------
\* A request that has not arrived, with full buckets.
LEMMA InitIInv == Init => IInv
<1> SUFFICES ASSUME Init PROVE IInv
  OBVIOUS
<1>1. TypeOK
  <2>1. \A u \in Users : issue_access_token(u) \in Token
    BY ClockAssumption DEF Init, issue_access_token, Token
  <2>2. AccessTokensTypeOK
    BY <2>1, ClockAssumption DEF Init, AccessTokensTypeOK
  <2>3. RateLimitingTypeOK
    BY LimitAssumption DEF Init, RateLimitingTypeOK, FullBuckets
  <2> QED
    BY <2>2, <2>3, ClockAssumption DEF Init, TypeOK, Stages
<1>2. Genuine
  BY DEF Init, Genuine, issue_access_token
<1>3. Accounted
  <2>1. ASSUME NEW k \in Keys PROVE bucket[k] = Burst /\ Takers(k) = {} /\ now = 0
    BY DEF Init, Takers, FullBuckets
  <2> QED
    BY <2>1, FS_EmptySet, LimitAssumption DEF Accounted
<1>4. ASSUME NEW r \in Requests PROVE Sound(r)
  <2>1. /\ pc[r] = "idle" /\ bearer[r] = None /\ reply[r] = None
        /\ charged[r] = {} /\ passed[r] = {} /\ since[r] = 0 /\ now = 0
    BY DEF Init
  <2>2. Staged(r) /\ Authentic(r) /\ WellNoted(r)
    BY <2>1 DEF Staged, Authentic, PastJWTAuth, WellNoted, InFlight, PastUserQuery
  <2>3. Charged(r)
    BY <2>1 DEF Charged
  <2>4. Justified(r)
    BY <2>1, AnswersAssumption DEF Justified, Answers
  <2> QED
    BY <2>2, <2>3, <2>4 DEF Sound
<1> QED
  BY <1>1, <1>2, <1>3, <1>4 DEF IInv

-----------------------------------------------------------------------------
(* Steps of one request.                                                   *)

\* A step of request r is sound if it leaves r itself sound.
LEMMA LocalStep ==
  ASSUME IInv, NEW r \in Requests, minted \subseteq minted', UNCHANGED <<now, flags>>,
         \A s \in Requests \ {r} :
           /\ pc'[s] = pc[s] /\ input'[s] = input[s] /\ bearer'[s] = bearer[s]
           /\ reply'[s] = reply[s] /\ since'[s] = since[s] /\ ever'[s] = ever[s]
           /\ always'[s] = always[s] /\ charged'[s] = charged[s] /\ passed'[s] = passed[s],
         TypeOK', Genuine', Accounted', Sound(r)'
  PROVE  IInv'
<1>1. ASSUME NEW s \in Requests \ {r} PROVE Sound(s)'
  BY OthersFrame DEF IInv
<1> QED
  BY <1>1 DEF IInv

\* A step that takes nothing and reads nothing new.
LEMMA QuietStep ==
  ASSUME IInv, NEW r \in Requests, pc[r] \notin {"idle", "done"},
         NEW x \in Stages \ {"idle", "ip limit", "body"}, NEW y \in Answers \cup {None},
         pc' = [pc EXCEPT ![r] = x], reply' = [reply EXCEPT ![r] = y],
         UNCHANGED <<world, bucket, charged, request, passed, history>>,
         minted \subseteq minted', minted' \subseteq Token, Genuine',
         x = "user limit" => pc[r] = "body",
         Staged(r)', PastJWTAuth(r)' => bearer[r] \in minted /\ since[r] < bearer[r].exp,
         PastUserQuery(r)' => ever[r], Justified(r)'
  PROVE  IInv'
<1> USE DEF world, request, history
<1>1. TypeOK'
  BY DEF IInv, TypeOK, AccessTokensTypeOK, RateLimitingTypeOK
<1>2. Accounted'
  BY QuietIsAccounted DEF IInv
<1>3. pc'[r] = x /\ reply'[r] = y
  BY DEF IInv, TypeOK
<1>4. Authentic(r)'
  BY DEF IInv, Sound, Authentic
<1>5. Allowed(r)' <=> Allowed(r)
  BY DEF Allowed
<1>6. Valid(r, now) => Valid(r, now)'
  BY DEF Valid
<1>7. WellNoted(r)'
  BY <1>3, <1>5, <1>6 DEF IInv, Sound, WellNoted, InFlight
<1>8. Charged(r)'
  BY <1>3 DEF IInv, Sound, Charged
<1>9. Sound(r)'
  BY <1>4, <1>7, <1>8 DEF Sound
<1> QED
  BY <1>1, <1>2, <1>9, LocalStep DEF IInv, TypeOK

\* The request goes on to its next stage.
LEMMA GotoStep ==
  ASSUME IInv, NEW r \in Requests, NEW from \in Stages \ {"idle", "done"},
         NEW to \in Stages \ {"idle", "ip limit", "body", "done"},
         Goto(r, from, to),
         UNCHANGED <<world, minted, bucket, charged, request, passed, history>>,
         to = "user limit" => from = "body",
         Staged(r)', PastJWTAuth(r)' => bearer[r] \in minted /\ since[r] < bearer[r].exp,
         PastUserQuery(r)' => ever[r]
  PROVE  IInv'
<1>1. pc[r] = from /\ pc' = [pc EXCEPT ![r] = to] /\ UNCHANGED reply
  BY DEF Goto
<1>2. reply[r] = None /\ reply' = [reply EXCEPT ![r] = None]
  BY <1>1 DEF IInv, TypeOK, Sound, Justified
<1>3. Justified(r)'
  BY <1>1, <1>2, AnswersAssumption DEF Justified, Answers
<1>4. Genuine' /\ minted' \subseteq Token
  BY DEF IInv, Genuine, TypeOK, AccessTokensTypeOK
<1> QED
  BY <1>1, <1>2, <1>3, <1>4, QuietStep

\* The request is answered, and the answer has its cause.
LEMMA AnswerStep ==
  ASSUME IInv, NEW r \in Requests, NEW from \in Stages \ {"idle", "done"},
         NEW answer \in Answers, Answer(r, from, answer),
         UNCHANGED <<world, minted, bucket, charged, request, passed, history>>,
         answer \in {"ok", "not found"} /\ input[r].route \in Protected \cup {"issue"} =>
           Valid(r, since[r]) /\ ever[r],
         answer \in {"unauthorized", "forbidden"} => ~always[r]
  PROVE  IInv'
<1>1. /\ pc[r] = from /\ pc' = [pc EXCEPT ![r] = "done"]
      /\ reply' = [reply EXCEPT ![r] = answer]
  BY DEF Answer
<1>2. pc'[r] = "done" /\ reply'[r] = answer
  BY <1>1 DEF IInv, TypeOK
<1>3. Valid(r, since[r]) => Valid(r, since[r])'
  BY DEF Valid, request, history
<1>4. Justified(r)'
  BY <1>2, <1>3 DEF Justified, request, history
<1>5. Genuine' /\ minted' \subseteq Token
  BY DEF IInv, Genuine, TypeOK, AccessTokensTypeOK
<1>6. Staged(r)' /\ ~PastJWTAuth(r)' /\ ~PastUserQuery(r)'
  BY <1>1, <1>2 DEF IInv, Sound, Staged, PastJWTAuth, PastUserQuery, request
<1> QED
  BY <1>1, <1>4, <1>5, <1>6, QuietStep DEF Stages

\* The request takes a token, and goes on or is answered.
LEMMA TakeStep ==
  ASSUME IInv, NEW r \in Requests, NEW k \in Keys, k \notin charged[r],
         ~Limited(k), Take(r, k),
         NEW x \in Stages, NEW y \in Answers \cup {None}, NEW p \in SUBSET {"ip", "user"},
         pc' = [pc EXCEPT ![r] = x], reply' = [reply EXCEPT ![r] = y],
         passed' = [passed EXCEPT ![r] = p],
         UNCHANGED <<world, minted, request, history>>,
         Sound(r)'
  PROVE  IInv'
<1> USE DEF world, request, history
<1>1. Accounted' /\ RateLimitingTypeOK'
  BY TakeIsAccounted DEF IInv
<1>2. TypeOK'
  BY <1>1 DEF IInv, TypeOK, AccessTokensTypeOK
<1>3. Genuine'
  BY DEF IInv, Genuine
<1> QED
  BY <1>1, <1>2, <1>3, LocalStep DEF IInv, TypeOK, RateLimitingTypeOK, Take

-----------------------------------------------------------------------------
(* What the checks of a request decide.                                    *)

\* JWTAuth accepts a bearer that was valid when its request arrived.
LEMMA PassedJWTAuth ==
  ASSUME IInv, NEW r \in Requests, Authenticated(bearer[r])
  PROVE  bearer[r] \in minted /\ since[r] < bearer[r].exp
<1>1. bearer[r] \in minted /\ now < bearer[r].exp /\ since[r] <= now
  BY OnlyMintedPass DEF IInv, TypeOK, Sound, Authentic
<1>2. bearer[r].exp \in Nat /\ since[r] \in Int /\ now \in Int
  BY <1>1, ClockAssumption DEF IInv, TypeOK, AccessTokensTypeOK, Token
<1> QED
  BY <1>1, <1>2

\* JWTAuth refuses a bearer that was not valid all the time.
LEMMA RefusedByJWTAuth ==
  ASSUME IInv, NEW r \in Requests, InFlight(r), input[r].route \in Protected,
         ~Authenticated(bearer[r])
  PROVE  ~always[r]
<1>1. ~Valid(r, now)
  BY OnlyMintedPass DEF IInv, TypeOK, Sound, Authentic, Valid, Protected
<1> QED
  BY <1>1 DEF IInv, Sound, WellNoted

\* The user of an authentic bearer, and what allows it.
LEMMA UserOfBearer ==
  ASSUME IInv, NEW r \in Requests, input[r].route \in Protected, bearer[r] \in minted
  PROVE  /\ bearer[r].sub \in Users
         /\ Allowed(r) <=> /\ flags[bearer[r].sub].active
                           /\ input[r].route = "lookup" => flags[bearer[r].sub].staff
<1>1. bearer[r] # None /\ bearer[r].sub \in Users
  BY NoUserAssumption DEF IInv, Genuine, TypeOK, AccessTokensTypeOK
<1> QED
  BY <1>1, NoUserAssumption DEF Allowed, Protected

\* At its query the request is authentic and well noted.
LEMMA AtQuery ==
  ASSUME IInv, NEW r \in Requests, pc[r] = "actor"
  PROVE  /\ input[r].route \in Protected
         /\ bearer[r] \in minted /\ since[r] < bearer[r].exp
         /\ Valid(r, since[r])
         /\ Allowed(r) => ever[r]
         /\ always[r] => Allowed(r)
  BY DEF IInv, Sound, Staged, Authentic, PastJWTAuth, WellNoted, InFlight, Valid

-----------------------------------------------------------------------------
(* One lemma for each kind of action.                                      *)

LEMMA DispatchStep == ASSUME IInv, NEW r \in Requests, Dispatch(r) PROVE IInv'
<1> USE DEF Dispatch
<1>1. pc[r] = "body" /\ input[r].route \in IPThrottledRoutes /\ input[r] \in Inputs
  BY DEF IInv, Sound, Staged
<1>2. CASE input[r].route \in Protected /\ Authenticated(bearer[r])
  <2>1. Goto(r, "body", "user limit")
    BY <1>2 DEF JWTAuth
  <2>2. pc'[r] = "user limit"
    BY <2>1 DEF Goto, IInv, TypeOK
  <2>3. Staged(r)' /\ ~PastUserQuery(r)'
    BY <1>1, <1>2, <2>2 DEF Staged, PastUserQuery, request, Protected, IPThrottledRoutes
  <2> QED
    BY <1>2, <2>1, <2>3, PassedJWTAuth, GotoStep DEF Stages
<1>3. CASE input[r].route \in Protected /\ ~Authenticated(bearer[r])
  <2>1. Answer(r, "body", "unauthorized")
    BY <1>3 DEF JWTAuth
  <2>2. ~always[r]
    BY <1>1, <1>3, RefusedByJWTAuth DEF InFlight
  <2> QED
    BY <2>1, <2>2, AnswerStep DEF Stages, Answers
<1>4. CASE input[r].route = "issue"
  <2>1. Goto(r, "body", "credentials")
    BY <1>4 DEF Protected
  <2>2. pc'[r] = "credentials"
    BY <2>1 DEF Goto, IInv, TypeOK
  <2>3. Staged(r)' /\ ~PastUserQuery(r)' /\ ~PastJWTAuth(r)'
    BY <1>1, <1>4, <2>2 DEF Staged, PastUserQuery, PastJWTAuth, request
  <2> QED
    BY <2>1, <2>3, GotoStep DEF Stages
<1>5. CASE input[r].route \notin Protected \cup {"issue"}
  <2>1. Goto(r, "body", "handler")
    BY <1>5
  <2>2. pc'[r] = "handler"
    BY <2>1 DEF Goto, IInv, TypeOK
  <2>3. Staged(r)' /\ ~PastUserQuery(r)' /\ ~PastJWTAuth(r)'
    BY <1>1, <1>5, <2>2 DEF Staged, PastUserQuery, PastJWTAuth, request
  <2> QED
    BY <2>1, <2>3, GotoStep DEF Stages
<1> QED
  BY <1>2, <1>3, <1>4, <1>5

\* Answers that claim nothing: of the limits, of validation, of errors.
LEMMA PlainAnswers ==
  ASSUME IInv, NEW r \in Requests, Turn(r) \/ TurnUser(r) \/ Unprocessable(r) \/ Fail(r)
  PROVE  IInv'
<1>1. PICK from \in Stages \ {"idle", "done"}, answer \in {"limited", "unprocessable", "error"} :
        Answer(r, from, answer)
  BY DEF Turn, TurnUser, Unprocessable, Fail, Stages
<1>2. UNCHANGED <<world, minted, bucket, charged, request, passed, history>>
  BY DEF Turn, TurnUser, Unprocessable, Fail
<1> QED
  BY <1>1, <1>2, AnswerStep DEF Answers

LEMMA GetCurrentUserStep == ASSUME IInv, NEW r \in Requests, get_current_user(r) PROVE IInv'
<1> DEFINE answer == IF get_active_user_by_id(bearer[r].sub) THEN "ok" ELSE "unauthorized"
<1>1. pc[r] = "actor" /\ input[r].route = "me" /\ Answer(r, "actor", answer)
  BY DEF get_current_user, Reached
<1>2. Allowed(r) <=> get_active_user_by_id(bearer[r].sub)
  BY <1>1, AtQuery, UserOfBearer DEF get_active_user_by_id
<1> QED
  BY <1>1, <1>2, AtQuery, AnswerStep DEF get_current_user, Stages, Answers

LEMMA LoadRevokerStep == ASSUME IInv, NEW r \in Requests, LoadRevoker(r) PROVE IInv'
<1> USE DEF LoadRevoker, Reached
<1>1. Allowed(r) <=> get_active_user_by_id(bearer[r].sub)
  BY AtQuery, UserOfBearer DEF get_active_user_by_id
<1>2. CASE get_active_user_by_id(bearer[r].sub)
  <2>1. Goto(r, "actor", "handler")
    BY <1>2
  <2>2. pc'[r] = "handler"
    BY <2>1 DEF Goto, IInv, TypeOK
  <2>3. Staged(r)'
    BY <2>2 DEF Staged, request, IInv, Sound
  <2> QED
    BY <1>1, <1>2, <2>1, <2>3, AtQuery, GotoStep DEF Stages
<1>3. CASE ~get_active_user_by_id(bearer[r].sub)
  BY <1>1, <1>3, AtQuery, AnswerStep DEF Stages, Answers
<1> QED
  BY <1>2, <1>3

LEMMA LoadActorStep == ASSUME IInv, NEW r \in Requests, LoadActor(r) PROVE IInv'
<1> USE DEF LoadActor, Reached
<1>1. Allowed(r) <=> get_active_user_by_id(bearer[r].sub) /\ check_access(bearer[r].sub)
  BY AtQuery, UserOfBearer DEF get_active_user_by_id, check_access
<1>2. CASE Allowed(r)
  <2>1. Goto(r, "actor", "target")
    BY <1>1, <1>2
  <2>2. pc'[r] = "target"
    BY <2>1 DEF Goto, IInv, TypeOK
  <2>3. Staged(r)'
    BY <2>2 DEF Staged, request, IInv, Sound
  <2> QED
    BY <1>2, <2>1, <2>3, AtQuery, GotoStep DEF Stages
<1>3. CASE ~Allowed(r)
  <2>1. PICK answer \in {"unauthorized", "forbidden"} : Answer(r, "actor", answer)
    BY <1>1, <1>3
  <2> QED
    BY <1>3, <2>1, AtQuery, AnswerStep DEF Stages, Answers
<1> QED
  BY <1>2, <1>3

LEMMA LoadTargetStep == ASSUME IInv, NEW r \in Requests, LoadTarget(r) PROVE IInv'
<1>1. PICK answer \in {"ok", "not found"} : Answer(r, "target", answer)
  BY DEF LoadTarget
<1>2. ever[r] /\ Valid(r, since[r])
  BY <1>1 DEF Answer, IInv, Sound, WellNoted, PastUserQuery, Authentic, PastJWTAuth, Valid
<1> QED
  BY <1>1, <1>2, AnswerStep DEF LoadTarget, Stages, Answers

LEMMA AuthenticateUserStep == ASSUME IInv, NEW r \in Requests, authenticate_user(r) PROVE IInv'
<1> USE DEF authenticate_user
<1>1. pc[r] = "credentials" /\ input[r].route = "issue" /\ input[r] \in Inputs
  BY DEF IInv, Sound, Staged
<1>2. Allowed(r) <=> input[r].user # None /\ get_active_user_by_id(input[r].user)
  BY <1>1 DEF Allowed, get_active_user_by_id
<1>3. InFlight(r)
  BY <1>1 DEF InFlight
<1>4. CASE Allowed(r)
  <2>1. Goto(r, "credentials", "mint")
    BY <1>2, <1>4
  <2>2. pc'[r] = "mint"
    BY <2>1 DEF Goto, IInv, TypeOK
  <2>3. Staged(r)' /\ ~PastJWTAuth(r)'
    BY <1>1, <1>2, <1>4, <2>2, InputTypes DEF Staged, PastJWTAuth, request
  <2>4. ever[r]
    BY <1>3, <1>4 DEF IInv, Sound, WellNoted
  <2> QED
    BY <2>1, <2>3, <2>4, GotoStep DEF Stages
<1>5. CASE ~Allowed(r)
  <2>1. Answer(r, "credentials", "unauthorized")
    BY <1>2, <1>5
  <2>2. ~always[r]
    BY <1>3, <1>5 DEF IInv, Sound, WellNoted
  <2> QED
    BY <2>1, <2>2, AnswerStep DEF Stages, Answers
<1> QED
  BY <1>4, <1>5

LEMMA IssueTokenStep == ASSUME IInv, NEW r \in Requests, IssueToken(r) PROVE IInv'
<1> USE DEF IssueToken
<1>1. /\ pc[r] = "mint" /\ input[r].route = "issue" /\ input[r].user \in Users /\ ever[r]
      /\ pc' = [pc EXCEPT ![r] = "done"] /\ reply' = [reply EXCEPT ![r] = "ok"]
  BY DEF Answer, IInv, Sound, Staged, WellNoted, PastUserQuery
<1>2. issue_access_token(input[r].user) \in Token
  BY <1>1, ClockAssumption
     DEF issue_access_token, Token, IInv, TypeOK, AccessTokensTypeOK
<1>3. Genuine' /\ minted' \subseteq Token
  <2>1. minted' \subseteq Token
    BY <1>2 DEF IInv, TypeOK, AccessTokensTypeOK
  <2>2. Genuine'
    BY <1>1 DEF IInv, Genuine, issue_access_token
  <2> QED
    BY <2>1, <2>2
<1>4. pc'[r] = "done" /\ reply'[r] = "ok"
  BY <1>1 DEF IInv, TypeOK
<1>5. Staged(r)' /\ ~PastJWTAuth(r)' /\ ~PastUserQuery(r)'
  BY <1>1, <1>4 DEF IInv, Sound, Staged, PastJWTAuth, PastUserQuery, request
<1>6. Justified(r)'
  BY <1>1, <1>4 DEF Justified, Valid, request, history
<1> QED
  BY <1>1, <1>3, <1>5, <1>6, QuietStep DEF Stages, Answers

LEMMA CompleteStep == ASSUME IInv, NEW r \in Requests, Complete(r) PROVE IInv'
<1>1. PICK answer \in {"ok", "refused"} : Answer(r, "handler", answer)
  BY DEF Complete
<1>2. pc[r] = "handler" /\ input[r].route # "issue"
  BY <1>1 DEF Answer, IInv, Sound, Staged
<1>3. input[r].route \in Protected => ever[r] /\ Valid(r, since[r])
  BY <1>2 DEF IInv, Sound, WellNoted, PastUserQuery, Authentic, PastJWTAuth, Valid
<1> QED
  BY <1>1, <1>2, <1>3, AnswerStep DEF Complete, Stages, Answers

\* A limit is passed, or its call fails, with or without a token taken.
LEMMA IPLimitStep == ASSUME IInv, NEW r \in Requests, Admit(r) \/ LimitFails(r) PROVE IInv'
<1> DEFINE k == IPKey(input[r])
<1>1. /\ pc[r] = "ip limit" /\ input[r] \in Inputs /\ input[r].route \in IPThrottledRoutes
      /\ charged[r] = {} /\ passed[r] = {} /\ k \in Keys /\ reply[r] = None
  BY InputTypes DEF Admit, LimitFails, Goto, Answer, IInv, Sound, Staged, Charged, Justified
<1>2. ASSUME Take(r, k), NEW x \in {"body", "done"}, NEW y \in {None, "error"},
             NEW p \in SUBSET {"ip"}, ~Limited(k),
             x = "body" => y = None /\ p = {"ip"}, x = "done" => y = "error",
             pc' = [pc EXCEPT ![r] = x], reply' = [reply EXCEPT ![r] = y],
             passed' = [passed EXCEPT ![r] = p],
             UNCHANGED <<world, minted, request, history>>
      PROVE  IInv'
  <2>1. /\ pc'[r] = x /\ reply'[r] = y /\ passed'[r] = p
        /\ UNCHANGED <<input[r], bearer[r], since[r], ever[r], always[r], now, flags, minted>>
    BY <1>2 DEF IInv, TypeOK, world, request, history
  <2>2. charged'[r] = {k}
    BY <1>1, <1>2 DEF Take, IInv, TypeOK, RateLimitingTypeOK
  <2>3. Staged(r)' /\ Authentic(r)'
    BY <1>1, <2>1 DEF Staged, Authentic, PastJWTAuth, IInv, Sound
  <2>4. Charged(r)'
    <3>1. IPKey(input[r])' = k /\ input'[r].route \in IPThrottledRoutes
      BY <1>1, <2>1
    <3>2. pc'[r] \in {"body", "done"} /\ (pc'[r] = "body" => "ip" \in passed'[r])
      BY <1>2, <2>1
    <3>3. "user" \notin passed'[r]
      BY <2>1
    <3> HIDE DEF k
    <3> QED
      BY <2>2, <3>1, <3>2, <3>3 DEF Charged
  <2>5. Allowed(r)' <=> Allowed(r)
    BY <2>1 DEF Allowed
  <2>6. Valid(r, now)' <=> Valid(r, now)
    BY <2>1 DEF Valid
  <2>7. WellNoted(r)'
    BY <1>1, <1>2, <2>1, <2>5, <2>6 DEF WellNoted, InFlight, PastUserQuery, IInv, Sound
  <2>8. Justified(r)'
    BY <1>2, <2>1, AnswersAssumption DEF Justified, Answers
  <2>9. k \notin charged[r]
    BY <1>1
  <2>10. x \in Stages /\ y \in Answers \cup {None} /\ p \in SUBSET {"ip", "user"}
    BY <1>2 DEF Stages, Answers
  <2> HIDE DEF k
  <2> QED
    BY <1>1, <1>2, <2>3, <2>4, <2>7, <2>8, <2>9, <2>10, TakeStep DEF Sound
<1>3. CASE Admit(r)
  <2>1. pc' = [pc EXCEPT ![r] = "body"] /\ reply' = [reply EXCEPT ![r] = None]
    BY <1>1, <1>3 DEF Admit, Goto, IInv, TypeOK
  <2>2. passed' = [passed EXCEPT ![r] = {"ip"}]
    BY <1>1, <1>3 DEF Admit, Pass, IInv, TypeOK
  <2> QED
    BY <1>2, <1>3, <2>1, <2>2 DEF Admit
<1>4. CASE LimitFails(r) /\ UNCHANGED <<bucket, charged>>
  BY <1>4, AnswerStep DEF LimitFails, Stages, Answers
<1>5. CASE LimitFails(r) /\ ~Limited(k) /\ Take(r, k)
  <2>1. pc' = [pc EXCEPT ![r] = "done"] /\ reply' = [reply EXCEPT ![r] = "error"]
    BY <1>5 DEF LimitFails, Answer
  <2>2. passed' = [passed EXCEPT ![r] = {}]
    BY <1>1, <1>5 DEF LimitFails, IInv, TypeOK
  <2> QED
    BY <1>2, <1>5, <2>1, <2>2 DEF LimitFails
<1> QED
  BY <1>3, <1>4, <1>5 DEF LimitFails, TakeUnacknowledged

\* What is parsed is a sequence of addresses.
LEMMA ParsedTypes ==
  ASSUME NEW q \in Inputs, q.header # None
  PROVE  parse_ip_trace(q.header) \in Seq(Addresses)
<1>1. CASE \A i \in DOMAIN q.header : Canonical[q.header[i]] # None
  <2>1. q.header \in Seq(DOMAIN Canonical) /\ DOMAIN q.header = 1..Len(q.header)
    BY InputAssumption
  <2>2. \A i \in 1..Len(q.header) : Canonical[q.header[i]] \in Addresses
    BY <1>1, <2>1 DEF Addresses
  <2>3. parse_ip_trace(q.header) = [i \in 1..Len(q.header) |-> Canonical[q.header[i]]]
    BY <1>1, <2>1 DEF parse_ip_trace
  <2> QED
    BY <2>1, <2>2, <2>3
<1>2. CASE ~ \A i \in DOMAIN q.header : Canonical[q.header[i]] # None
  BY <1>2 DEF parse_ip_trace
<1> QED
  BY <1>1, <1>2

\* A trace is a sequence of addresses, or there is none.
LEMMA TraceTypes ==
  ASSUME NEW q \in Inputs
  PROVE  get_user_ip_trace(q) \in Seq(Addresses) \cup {None}
<1>1. /\ q.remote \in DOMAIN Canonical \cup {None}
      /\ q.header \in (Seq(DOMAIN Canonical) \ {<<>>}) \cup {None}
  BY InputAssumption
<1>2. get_remote_address(q) \in Seq(Addresses) \cup {None}
  BY <1>1 DEF get_remote_address, Addresses
<1>3. q.header # None => parse_ip_trace(q.header) \in Seq(Addresses)
  BY ParsedTypes
<1> QED
  BY <1>2, <1>3 DEF get_user_ip_trace

\* The two kinds of key never coincide.
LEMMA KeysDiffer ==
  ASSUME NEW q \in Inputs, NEW u \in Users
  PROVE  IPKey(q) # UserKey(u)
  BY TraceTypes, KeysAssumption DEF IPKey, UserKey

LEMMA UserLimitStep == ASSUME IInv, NEW r \in Requests, AdmitUser(r) \/ UserLimitFails(r) PROVE IInv'
<1> DEFINE k == UserKey(bearer[r].sub)
<1>1. /\ pc[r] = "user limit" /\ input[r] \in Inputs /\ input[r].route = "revoke"
      /\ charged[r] = {IPKey(input[r])} /\ input[r].route \in IPThrottledRoutes
      /\ bearer[r] \in minted /\ since[r] < bearer[r].exp
      /\ passed[r] \in SUBSET {"ip", "user"} /\ reply[r] = None
  BY DEF AdmitUser, UserLimitFails, Goto, Answer, IInv, TypeOK, Sound, Staged, Charged, Justified,
         Authentic, PastJWTAuth
<1>2. k \in Keys /\ k \notin charged[r]
  BY <1>1, KeysDiffer, UserKeys DEF IInv, Genuine
<1>3. ASSUME Take(r, k), NEW x \in {"actor", "done"}, NEW y \in {None, "error"},
             NEW p \in SUBSET (passed[r] \cup {"user"}), ~Limited(k),
             x = "actor" => y = None, x = "done" => y = "error",
             pc' = [pc EXCEPT ![r] = x], reply' = [reply EXCEPT ![r] = y],
             passed' = [passed EXCEPT ![r] = p],
             UNCHANGED <<world, minted, request, history>>
      PROVE  IInv'
  <2>1. /\ pc'[r] = x /\ reply'[r] = y /\ passed'[r] = p
        /\ UNCHANGED <<input[r], bearer[r], since[r], ever[r], always[r], now, flags, minted>>
    BY <1>3 DEF IInv, TypeOK, world, request, history
  <2>2. charged'[r] = {IPKey(input[r]), k}
    BY <1>1, <1>3 DEF Take, IInv, TypeOK, RateLimitingTypeOK
  <2>3. Staged(r)' /\ Authentic(r)' /\ ~PastUserQuery(r)'
    BY <1>1, <2>1 DEF Staged, Authentic, PastJWTAuth, PastUserQuery, Protected, IInv, Sound
  <2>4. Charged(r)'
    <3>1. /\ IPKey(input[r])' = IPKey(input[r]) /\ UserKey(bearer[r].sub)' = k
          /\ input'[r].route = "revoke" /\ input'[r].route \in IPThrottledRoutes
          /\ bearer'[r] \in minted'
      BY <1>1, <2>1
    <3>2. pc'[r] \in {"actor", "done"}
      BY <2>1
    <3> HIDE DEF k
    <3> QED
      BY <2>2, <3>1, <3>2 DEF Charged
  <2>5. Allowed(r)' <=> Allowed(r)
    BY <2>1 DEF Allowed
  <2>6. Valid(r, now)' <=> Valid(r, now)
    BY <2>1 DEF Valid
  <2>7. WellNoted(r)'
    BY <1>1, <2>1, <2>3, <2>5, <2>6 DEF WellNoted, InFlight, IInv, Sound
  <2>8. Justified(r)'
    BY <1>3, <2>1, AnswersAssumption DEF Justified, Answers
  <2>9. x \in Stages /\ y \in Answers \cup {None} /\ p \in SUBSET {"ip", "user"}
    BY <1>1, <1>3 DEF Stages, Answers
  <2> HIDE DEF k
  <2> QED
    BY <1>2, <1>3, <2>3, <2>4, <2>7, <2>8, <2>9, TakeStep DEF Sound
<1>4. CASE AdmitUser(r)
  <2>1. pc' = [pc EXCEPT ![r] = "actor"] /\ reply' = [reply EXCEPT ![r] = None]
    BY <1>1, <1>4 DEF AdmitUser, Goto, IInv, TypeOK
  <2>2. passed' = [passed EXCEPT ![r] = passed[r] \cup {"user"}]
    BY <1>4 DEF AdmitUser, Pass
  <2> QED
    BY <1>3, <1>4, <2>1, <2>2 DEF AdmitUser
<1>5. CASE UserLimitFails(r) /\ UNCHANGED <<bucket, charged>>
  BY <1>5, AnswerStep DEF UserLimitFails, Stages, Answers
<1>6. CASE UserLimitFails(r) /\ ~Limited(k) /\ Take(r, k)
  <2>1. pc' = [pc EXCEPT ![r] = "done"] /\ reply' = [reply EXCEPT ![r] = "error"]
    BY <1>6 DEF UserLimitFails, Answer
  <2>2. passed' = [passed EXCEPT ![r] = passed[r]]
    BY <1>6 DEF UserLimitFails, IInv, TypeOK
  <2> QED
    BY <1>3, <1>6, <2>1, <2>2 DEF UserLimitFails
<1> QED
  BY <1>4, <1>5, <1>6 DEF UserLimitFails, TakeUnacknowledged

\* A request arrives: its notes begin with what is true at that moment.
LEMMA ArriveStep ==
  ASSUME IInv, NEW r \in Requests, NEW q \in Inputs, NEW c \in Presentable(q),
         ArriveThrottled(r, q, c) \/ ArriveUnthrottled(r, q, c)
  PROVE  IInv'
<1>1. /\ pc[r] = "idle" /\ charged[r] = {} /\ passed[r] = {} /\ reply[r] = None
      /\ since[r] \in 0..MaxTime /\ now \in 0..MaxTime
  BY DEF ArriveThrottled, ArriveUnthrottled, JWTAuth, Goto, Answer, IInv, TypeOK, Sound, Charged,
         Justified, AccessTokensTypeOK
<1>2. Received(r, q, c)
  BY DEF ArriveThrottled, ArriveUnthrottled
<1>3. Allowed(r)' \in BOOLEAN /\ Valid(r, now)' \in BOOLEAN
  BY DEF Allowed, Valid
<1>4. /\ input'[r] = q /\ bearer'[r] = c /\ since'[r] = now /\ ever'[r] = Allowed(r)'
      /\ always'[r] = (Valid(r, now)' /\ Allowed(r)')
      /\ UNCHANGED <<now, flags, minted, bucket, charged, passed>>
  BY <1>2 DEF Received, world, IInv, TypeOK
<1>5. c \in minted \cup Foreign \cup {None}
  BY Presented
<1>6. since'[r] <= now'
  BY <1>1, <1>4, ClockAssumption
<1>7. PICK x \in {"ip limit", "actor", "done"}, y \in {None, "unauthorized"} :
        /\ pc' = [pc EXCEPT ![r] = x] /\ reply' = [reply EXCEPT ![r] = y]
        /\ x = "ip limit" => q.route \in IPThrottledRoutes
        /\ x = "actor" => q.route \in Protected /\ Authenticated(c)
        /\ x = "done" => q.route \in Protected /\ ~Authenticated(c)
        /\ x # "done" => y = None
  <2>1. CASE ArriveThrottled(r, q, c)
    <3>1. pc' = [pc EXCEPT ![r] = "ip limit"] /\ reply' = [reply EXCEPT ![r] = None]
      BY <1>1, <2>1 DEF ArriveThrottled, Goto, IInv, TypeOK
    <3> QED
      BY <2>1, <3>1 DEF ArriveThrottled
  <2>2. CASE ArriveUnthrottled(r, q, c) /\ Authenticated(c)
    <3>1. pc' = [pc EXCEPT ![r] = "actor"] /\ reply' = [reply EXCEPT ![r] = None]
      BY <1>1, <2>2 DEF ArriveUnthrottled, JWTAuth, Goto, IInv, TypeOK
    <3> QED
      BY <2>2, <3>1, InputTypes DEF ArriveUnthrottled, Routes, IPThrottledRoutes, Protected
  <2>3. CASE ArriveUnthrottled(r, q, c) /\ ~Authenticated(c)
    <3>1. pc' = [pc EXCEPT ![r] = "done"] /\ reply' = [reply EXCEPT ![r] = "unauthorized"]
      BY <2>3 DEF ArriveUnthrottled, JWTAuth, Answer
    <3> QED
      BY <2>3, <3>1, InputTypes DEF ArriveUnthrottled, Routes, IPThrottledRoutes, Protected
  <2> QED
    BY <2>1, <2>2, <2>3
<1>8. pc'[r] = x /\ reply'[r] = y
  BY <1>7 DEF IInv, TypeOK
<1>9. Authenticated(c) <=> c \in minted /\ now < c.exp
  BY <1>5, OnlyMintedPass DEF IInv, TypeOK
<1>10. Sound(r)'
  <2>1. Staged(r)'
    BY <1>4, <1>7, <1>8 DEF Staged
  <2>2. Authentic(r)'
    <3>1. since'[r] <= now'
      BY <1>6
    <3>2. x \in {"ip limit", "actor", "done"} /\ pc'[r] = x /\ input'[r] = q
      BY <1>4, <1>7, <1>8
    <3>3. PastJWTAuth(r)' => x = "actor"
      BY <3>2 DEF PastJWTAuth
    <3>4. x = "actor" => c \in minted /\ now < c.exp
      BY <1>7, <1>9
    <3> QED
      BY <1>4, <1>5, <3>1, <3>3, <3>4 DEF Authentic
  <2>3. WellNoted(r)'
    BY <1>4, <1>7, <1>8 DEF WellNoted, PastUserQuery
  <2>4. Charged(r)'
    BY <1>1, <1>4, <1>7, <1>8 DEF Charged
  <2>5. Justified(r)'
    <3>1. x = "done" => ~always'[r]
      BY <1>4, <1>7, <1>9 DEF Valid, Protected
    <3> QED
      BY <1>7, <1>8, <3>1, AnswersAssumption DEF Justified, Answers
  <2> QED
    BY <2>1, <2>2, <2>3, <2>4, <2>5 DEF Sound
<1>11. TypeOK'
  <2>1. c \in Token \cup {None}
    BY <1>5, ForeignAssumption DEF IInv, TypeOK, AccessTokensTypeOK
  <2>2. x \in Stages /\ y \in Answers \cup {None}
    BY DEF Stages, Answers
  <2> QED
    BY <1>1, <1>2, <1>3, <1>7, <2>1, <2>2
       DEF Received, world, IInv, TypeOK, AccessTokensTypeOK, RateLimitingTypeOK
<1>12. Genuine' /\ Accounted'
  BY <1>4, QuietIsAccounted DEF IInv, Genuine
<1> QED
  BY <1>2, <1>4, <1>7, <1>10, <1>11, <1>12, LocalStep DEF Received, IInv, TypeOK

\* The world changes, and every request in flight takes note.
LEMMA NotedStep ==
  ASSUME IInv, Noted, now <= now', now' \in Nat,
         UNCHANGED <<minted, charged, pc, request, reply, passed>>,
         TypeOK', Accounted'
  PROVE  IInv'
<1>1. ASSUME NEW r \in Requests PROVE Sound(r)'
  <2>1. /\ ever'[r] = (ever[r] \/ (InFlight(r) /\ Allowed(r)'))
        /\ always'[r] = (always[r] /\ (InFlight(r) => Valid(r, now)' /\ Allowed(r)'))
        /\ since'[r] = since[r]
    BY DEF Noted
  <2>2. InFlight(r)' <=> InFlight(r)
    BY DEF InFlight
  <2>3. Staged(r)' /\ Charged(r)'
    BY DEF IInv, Sound, Staged, Charged, request
  <2>4. Authentic(r)'
    <3>1. since[r] \in 0..MaxTime /\ since[r] <= now /\ now \in 0..MaxTime
      BY DEF IInv, Sound, Authentic, TypeOK, AccessTokensTypeOK
    <3>2. since'[r] <= now'
      BY <2>1, <3>1, ClockAssumption
    <3>3. PastJWTAuth(r)' <=> PastJWTAuth(r)
      BY DEF PastJWTAuth, request
    <3>4. Authentic(r)
      BY DEF IInv, Sound
    <3> QED
      BY <2>1, <3>2, <3>3, <3>4 DEF Authentic, request
  <2>5. WellNoted(r)'
    BY <2>1, <2>2 DEF IInv, Sound, WellNoted, PastUserQuery, request
  <2>6. Valid(r, since[r]) => Valid(r, since[r])'
    BY <2>1 DEF Valid, request
  <2>7. Justified(r)'
    BY <2>1, <2>6 DEF IInv, Sound, Justified, request
  <2> QED
    BY <2>3, <2>4, <2>5, <2>7 DEF Sound
<1>2. Genuine'
  BY DEF IInv, Genuine
<1> QED
  BY <1>1, <1>2 DEF IInv

LEMMA TickStep == ASSUME IInv, Tick PROVE IInv'
<1>1. Accounted' /\ RateLimitingTypeOK'
  BY TickIsAccounted DEF IInv
<1>2. now \in 0..MaxTime /\ now' = now + 1 /\ now' \in 0..MaxTime
  BY ClockAssumption DEF Tick, IInv, TypeOK, AccessTokensTypeOK
<1>3. TypeOK'
  BY <1>1, <1>2 DEF Tick, Noted, IInv, TypeOK, AccessTokensTypeOK, request
<1> QED
  BY <1>1, <1>2, <1>3, ClockAssumption, NotedStep DEF Tick

LEMMA ChangeUserStep == ASSUME IInv, NEW u \in Users, NEW f \in Flags, ChangeUser(u, f) PROVE IInv'
<1>1. Accounted'
  BY QuietIsAccounted DEF IInv, ChangeUser
<1>2. now \in Nat /\ now' = now
  BY ClockAssumption DEF ChangeUser, IInv, TypeOK, AccessTokensTypeOK
<1>3. TypeOK'
  BY <1>2, ClockAssumption
     DEF ChangeUser, Noted, IInv, TypeOK, AccessTokensTypeOK, RateLimitingTypeOK, request
<1> QED
  BY <1>1, <1>2, <1>3, NotedStep DEF ChangeUser

\* Every step preserves the invariant.
LEMMA NextIInv == IInv /\ [Next]_vars => IInv'
<1> SUFFICES ASSUME IInv, [Next]_vars PROVE IInv'
  OBVIOUS
<1>1. ASSUME NEW r \in Requests,
             \/ \E q \in Inputs : \E c \in Presentable(q) :
                  ArriveThrottled(r, q, c) \/ ArriveUnthrottled(r, q, c)
             \/ Admit(r) \/ Turn(r) \/ LimitFails(r)
             \/ Dispatch(r) \/ Unprocessable(r)
             \/ AdmitUser(r) \/ TurnUser(r) \/ UserLimitFails(r)
             \/ get_current_user(r) \/ LoadRevoker(r) \/ LoadActor(r) \/ LoadTarget(r)
             \/ authenticate_user(r) \/ IssueToken(r) \/ Complete(r) \/ Fail(r)
      PROVE  IInv'
  BY <1>1, ArriveStep, IPLimitStep, DispatchStep, PlainAnswers, UserLimitStep, GetCurrentUserStep,
     LoadRevokerStep, LoadActorStep, LoadTargetStep, AuthenticateUserStep, IssueTokenStep,
     CompleteStep
<1>2. ASSUME NEW u \in Users, NEW f \in Flags, ChangeUser(u, f) PROVE IInv'
  BY <1>2, ChangeUserStep
<1>3. ASSUME Tick PROVE IInv'
  BY <1>3, TickStep
<1>4. ASSUME UNCHANGED vars PROVE IInv'
  <2>1. TypeOK' /\ Genuine' /\ Accounted'
    BY <1>4, QuietIsAccounted
       DEF vars, IInv, TypeOK, AccessTokensTypeOK, RateLimitingTypeOK, Genuine
  <2>2. ASSUME NEW r \in Requests PROVE Sound(r)'
    BY <1>4, OthersFrame DEF vars, IInv
  <2> QED
    BY <2>1, <2>2 DEF IInv
<1> QED
  BY <1>1, <1>2, <1>3, <1>4 DEF Next, Finished

LEMMA Invariance == Spec => []IInv
  BY InitIInv, NextIInv, PTL DEF Spec

-----------------------------------------------------------------------------
(* What follows from the invariant.                                        *)

\* The state of the pipeline stays within its types.
THEOREM TypeCorrectness == Spec => []TypeOK
<1>1. IInv => TypeOK
  BY DEF IInv
<1> QED
  BY <1>1, Invariance, PTL

\* A token that outlives its user's deactivation or staff flag opens nothing,
\* whatever an operator changes between the awaits of a request.
THEOREM EntitledAnswers == Spec => []DataOnlyWhenEntitled
<1>1. IInv => DataOnlyWhenEntitled
  BY DEF IInv, Sound, Justified, DataOnlyWhenEntitled
<1> QED
  BY <1>1, Invariance, PTL

\* JWTAuth and the checks of the user refuse nobody who was entitled throughout.
THEOREM RefusalsHaveCause == Spec => []RefusalHasCause
<1>1. IInv => RefusalHasCause
  BY DEF IInv, Sound, Justified, RefusalHasCause
<1> QED
  BY <1>1, Invariance, PTL

\* The trace that a key is made of is the client, if it has an address.
LEMMA TraceOfClient ==
  ASSUME NEW i \in Inputs
  PROVE  get_user_ip_trace(i) = IF Client(i) = <<None>> THEN None ELSE Client(i)
<1>1. i.remote \in DOMAIN Canonical \cup {None}
      /\ i.header \in (Seq(DOMAIN Canonical) \ {<<>>}) \cup {None}
  BY InputAssumption
<1>2. CASE Forwarded(i)
  <2> DEFINE h == i.header
             trace == [n \in DOMAIN h |-> Canonical[h[n]]]
  <2>1. h \in Seq(DOMAIN Canonical) /\ h # <<>> /\ \A n \in DOMAIN h : Canonical[h[n]] # None
    BY <1>1, <1>2 DEF Forwarded
  <2>2. Len(h) \in Nat /\ 1 \in DOMAIN h /\ DOMAIN h = 1..Len(h)
    BY <2>1
  <2>3. Client(i) = trace
    BY <1>2 DEF Client
  <2>4. trace[1] # None
    BY <2>1, <2>2
  <2>5. trace # <<None>>
    BY <2>4
  <2>6. trace # <<>>
    BY <2>2
  <2>7. get_user_ip_trace(i) = trace
    BY <1>2, <2>1, <2>6 DEF Forwarded, get_user_ip_trace, parse_ip_trace
  <2> QED
    BY <2>3, <2>5, <2>7
<1>3. CASE ~Forwarded(i)
  <2>1. ~(Trusted /\ i.header # None /\ parse_ip_trace(i.header) # <<>>)
    BY <1>3 DEF Forwarded, parse_ip_trace
  <2>2. get_user_ip_trace(i) = get_remote_address(i)
    BY <2>1 DEF get_user_ip_trace
  <2>3. Client(i) = <<IF i.remote = None THEN None ELSE Canonical[i.remote]>>
    BY <1>3 DEF Client
  <2> QED
    BY <2>2, <2>3 DEF get_remote_address
<1> QED
  BY <1>2, <1>3

\* A client is a sequence of addresses, or has none.
LEMMA ClientTypes ==
  ASSUME NEW q \in Inputs
  PROVE  Client(q) \in Seq(Addresses) \cup {<<None>>}
<1>1. CASE Forwarded(q)
  BY <1>1, ParsedTypes DEF Forwarded, Client, parse_ip_trace
<1>2. CASE ~Forwarded(q)
  <2>1. q.remote \in DOMAIN Canonical \cup {None}
    BY InputAssumption
  <2>2. Client(q) = <<IF q.remote = None THEN None ELSE Canonical[q.remote]>>
    BY <1>2 DEF Client
  <2> QED
    BY <2>1, <2>2 DEF Addresses
<1> QED
  BY <1>1, <1>2

\* The requests of one client to one route are charged to one bucket, however
\* its proxies spell its addresses.
LEMMA OneClientOneKey ==
  ASSUME NEW p \in Inputs, NEW q \in Inputs, p.route = q.route, Client(p) = Client(q)
  PROVE  IPKey(p) = IPKey(q)
  BY TraceOfClient DEF IPKey

\* Two clients are never charged to one bucket.
LEMMA OneKeyOneClient ==
  ASSUME NEW p \in Inputs, NEW q \in Inputs, IPKey(p) = IPKey(q)
  PROVE  p.route = q.route /\ Client(p) = Client(q)
<1>1. p.route = q.route /\ get_user_ip_trace(p) = get_user_ip_trace(q)
  BY DEF IPKey
<1>2. ASSUME NEW i \in Inputs
      PROVE  Client(i) = IF get_user_ip_trace(i) = None THEN <<None>> ELSE get_user_ip_trace(i)
  <2>1. Client(i) # <<None>> => Client(i) # None
    BY ClientTypes, KeysAssumption
  <2> QED
    BY <2>1, TraceOfClient
<1> QED
  BY <1>1, <1>2

\* The quota of a client, and of a user who revokes, is never exceeded.
THEOREM QuotaIsKept == Spec => []QuotaHolds
<1>1. ASSUME IInv PROVE QuotaHolds
  <2>1. ASSUME NEW k \in Keys, NEW S \in SUBSET Takers(k)
        PROVE  Cardinality(S) <= Burst + now
    <3>1. IsFiniteSet(Takers(k)) /\ Cardinality(Takers(k)) \in Nat
      BY RequestsAssumption, FS_Subset, FS_CardinalityType DEF Takers
    <3>2. Cardinality(S) \in Nat /\ Cardinality(S) <= Cardinality(Takers(k))
      BY <3>1, FS_Subset, FS_CardinalityType
    <3>3. bucket[k] \in 0..Burst /\ now \in 0..MaxTime
      BY <1>1 DEF IInv, TypeOK, RateLimitingTypeOK, AccessTokensTypeOK
    <3>4. bucket[k] + Cardinality(Takers(k)) <= Burst + now
      BY <1>1 DEF IInv, Accounted
    <3> QED
      BY <3>1, <3>2, <3>3, <3>4, LimitAssumption, ClockAssumption
  <2>2. ASSUME NEW r \in Requests, input[r] # None
        PROVE  input[r] \in Inputs
    BY <1>1, <2>2 DEF IInv, TypeOK
  <2>3. ASSUME NEW q \in Inputs, q.route \in IPThrottledRoutes
        PROVE  Cardinality({r \in Like(q) : "ip" \in passed[r]}) <= Burst + now
    <3>1. ASSUME NEW r \in Like(q), "ip" \in passed[r] PROVE r \in Takers(IPKey(q))
      <4>1. IPKey(input[r]) = IPKey(q)
        BY <2>2, OneClientOneKey DEF Like
      <4>2. Charged(r)
        BY <1>1 DEF IInv, Sound, Like
      <4> QED
        BY <3>1, <4>1, <4>2 DEF Charged, Takers, Like
    <3>2. {r \in Like(q) : "ip" \in passed[r]} \in SUBSET Takers(IPKey(q))
      BY <3>1
    <3> QED
      BY <2>1, <2>3, <3>2, InputTypes
  <2>4. ASSUME NEW u \in Users
        PROVE  Cardinality({r \in OfUser(u) : "user" \in passed[r]}) <= Burst + now
    <3>1. ASSUME NEW r \in OfUser(u), "user" \in passed[r] PROVE r \in Takers(UserKey(u))
      BY <1>1, <3>1 DEF IInv, Sound, Charged, Takers, OfUser
    <3>2. {r \in OfUser(u) : "user" \in passed[r]} \in SUBSET Takers(UserKey(u))
      BY <3>1
    <3> QED
      BY <2>1, <3>2, UserKeys
  <2> QED
    BY <2>3, <2>4 DEF QuotaHolds
<1> QED
  BY <1>1, Invariance, PTL

-----------------------------------------------------------------------------
(* The cause of a 429.                                                     *)

\* What a request is charged and what it was answered stays; a 429 is given by
\* one of the two limits.
LEMMA StepFrame ==
  ASSUME IInv, [Next]_vars, NEW s \in Requests
  PROVE  /\ charged[s] \subseteq charged'[s]
         /\ pc[s] = "done" =>
              UNCHANGED <<input[s], bearer[s], reply[s], passed[s], charged[s]>>
         /\ reply'[s] = "limited" => reply[s] = "limited" \/ Turn(s) \/ TurnUser(s)
         /\ minted \subseteq minted'
<1> USE DEF IInv, TypeOK, RateLimitingTypeOK
<1>1. ASSUME NEW r \in Requests, NEW q \in Inputs, NEW c \in Presentable(q),
             ArriveThrottled(r, q, c) \/ ArriveUnthrottled(r, q, c)
      PROVE  /\ pc[r] = "idle" /\ UNCHANGED <<charged, passed, minted>>
             /\ reply'[r] # "limited" \/ reply'[r] = reply[r]
             /\ r # s => UNCHANGED <<input[s], bearer[s], reply[s]>>
  <2>1. pc[r] = "idle" /\ Received(r, q, c)
    BY <1>1 DEF ArriveThrottled, ArriveUnthrottled, JWTAuth, Goto, Answer
  <2>2. UNCHANGED reply \/ reply' = [reply EXCEPT ![r] = "unauthorized"]
    BY <1>1 DEF ArriveThrottled, ArriveUnthrottled, JWTAuth, Goto, Answer
  <2> QED
    BY <2>1, <2>2 DEF Received
<1>2. ASSUME NEW r \in Requests, Admit(r) \/ LimitFails(r) \/ AdmitUser(r) \/ UserLimitFails(r)
      PROVE  /\ pc[r] # "done" /\ UNCHANGED <<request, minted>> /\ charged[s] \subseteq charged'[s]
             /\ reply'[r] # "limited" \/ reply'[r] = reply[r]
             /\ r # s => UNCHANGED <<reply[s], passed[s], charged[s]>>
  <2>1. pc[r] \in {"ip limit", "user limit"} /\ UNCHANGED <<request, minted>>
    BY <1>2 DEF Admit, LimitFails, AdmitUser, UserLimitFails, Goto, Answer
  <2>2. UNCHANGED reply \/ reply' = [reply EXCEPT ![r] = "error"]
    BY <1>2 DEF Admit, LimitFails, AdmitUser, UserLimitFails, Goto, Answer
  <2>3. PICK k : Take(r, k) \/ UNCHANGED charged
    BY <1>2 DEF Admit, LimitFails, AdmitUser, UserLimitFails, TakeUnacknowledged
  <2>4. charged[s] \subseteq charged'[s] /\ (r # s => UNCHANGED charged[s])
    BY <2>3 DEF Take
  <2>5. UNCHANGED passed \/ \E limit : Pass(r, limit)
    BY <1>2 DEF Admit, LimitFails, AdmitUser, UserLimitFails
  <2>6. r # s => UNCHANGED passed[s]
    BY <2>5 DEF Pass
  <2> QED
    BY <2>1, <2>2, <2>4, <2>6
<1>3. ASSUME NEW r \in Requests,
             \/ Dispatch(r) \/ Unprocessable(r) \/ get_current_user(r) \/ LoadRevoker(r)
             \/ LoadActor(r) \/ LoadTarget(r) \/ authenticate_user(r) \/ IssueToken(r)
             \/ Complete(r) \/ Fail(r)
      PROVE  /\ pc[r] # "done" /\ UNCHANGED <<request, charged, passed>> /\ minted \subseteq minted'
             /\ reply'[r] # "limited" \/ reply'[r] = reply[r]
             /\ r # s => UNCHANGED reply[s]
  BY <1>3 DEF Dispatch, Unprocessable, get_current_user, LoadRevoker, LoadActor, LoadTarget,
              authenticate_user, IssueToken, Complete, Fail, Reached, JWTAuth, Goto, Answer
<1>4. ASSUME NEW r \in Requests, Turn(r) \/ TurnUser(r)
      PROVE  /\ pc[r] # "done" /\ UNCHANGED <<request, charged, passed, minted>>
             /\ r # s => UNCHANGED reply[s]
  BY <1>4 DEF Turn, TurnUser, Answer
<1>5. ASSUME \/ \E u \in Users, f \in Flags : ChangeUser(u, f)
             \/ Tick \/ UNCHANGED vars
      PROVE  UNCHANGED <<request, charged, passed, minted, reply>>
  BY <1>5 DEF ChangeUser, Tick, vars, request
<1> QED
  BY <1>1, <1>2, <1>3, <1>4, <1>5 DEF Next, Finished, request

LEMMA InitDrained == Init => DrainedByOthers
  BY AnswersAssumption DEF Init, DrainedByOthers, Answers

LEMMA NextDrained == IInv /\ DrainedByOthers /\ [Next]_vars => DrainedByOthers'
<1> SUFFICES ASSUME IInv, DrainedByOthers, [Next]_vars, NEW r \in Requests, reply'[r] = "limited"
             PROVE  /\ input'[r].route \in IPThrottledRoutes
                    /\ "ip" \in passed'[r] => bearer'[r] \in minted'
                    /\ Drained(r)' \notin charged'[r]
                    /\ Cardinality(Takers(Drained(r))') >= Burst
  BY DEF DrainedByOthers
\* A bucket that is empty now has had that many takers, and keeps them.
<1>1. ASSUME NEW k, Cardinality(Takers(k)) >= Burst PROVE Cardinality(Takers(k)') >= Burst
  <2>1. Takers(k) \subseteq Takers(k)'
    BY StepFrame DEF Takers
  <2>2. IsFiniteSet(Takers(k)')
    BY RequestsAssumption, FS_Subset DEF Takers
  <2>3. /\ Cardinality(Takers(k)) <= Cardinality(Takers(k)')
        /\ Cardinality(Takers(k)) \in Nat /\ Cardinality(Takers(k)') \in Nat
    BY <2>1, <2>2, FS_Subset, FS_CardinalityType
  <2> QED
    BY <1>1, <2>3, LimitAssumption
<1>2. ASSUME NEW k \in Keys, Limited(k) PROVE Cardinality(Takers(k)) >= Burst
  <2>1. bucket[k] \in 0..Burst /\ bucket[k] < 1
    BY <1>2 DEF Limited, IInv, TypeOK, RateLimitingTypeOK
  <2>2. bucket[k] + Cardinality(Takers(k)) >= Burst
    BY DEF IInv, Accounted
  <2>3. Cardinality(Takers(k)) \in Nat
    BY RequestsAssumption, FS_Subset, FS_CardinalityType DEF Takers
  <2> QED
    BY <2>1, <2>2, <2>3, LimitAssumption
<1>3. CASE reply[r] = "limited"
  <2>1. UNCHANGED <<input[r], bearer[r], passed[r], charged[r]>> /\ minted \subseteq minted'
    BY <1>3, StepFrame, AnswersAssumption DEF IInv, Sound, Justified, Answers
  <2>2. Drained(r)' = Drained(r)
    BY <2>1 DEF Drained, IPKey, UserKey, get_user_ip_trace, get_remote_address
  <2>3. /\ input[r].route \in IPThrottledRoutes /\ ("ip" \in passed[r] => bearer[r] \in minted)
        /\ Drained(r) \notin charged[r] /\ Cardinality(Takers(Drained(r))) >= Burst
    BY <1>3 DEF DrainedByOthers
  <2>4. PICK k : k = Drained(r)
    OBVIOUS
  <2>5. Cardinality(Takers(k)') >= Burst
    BY <1>1, <2>3, <2>4
  <2>6. Takers(Drained(r))' = Takers(k)'
    BY <2>2, <2>4 DEF Takers
  <2> QED
    BY <2>1, <2>2, <2>3, <2>5, <2>6
<1>4. ASSUME Turn(r) \/ TurnUser(r)
      PROVE  /\ Drained(r) \in Keys /\ Drained(r) \notin charged[r] /\ Limited(Drained(r))
             /\ input[r].route \in IPThrottledRoutes
             /\ "ip" \in passed[r] => bearer[r] \in minted
  <2>1. CASE Turn(r)
    <3>1. /\ pc[r] = "ip limit" /\ charged[r] = {} /\ passed[r] = {}
          /\ input[r] \in Inputs /\ input[r].route \in IPThrottledRoutes
      BY <2>1 DEF Turn, Answer, IInv, Sound, Charged, Staged
    <3> QED
      BY <2>1, <3>1, InputTypes DEF Turn, Drained
  <2>2. CASE TurnUser(r)
    <3>1. /\ pc[r] = "user limit" /\ charged[r] = {IPKey(input[r])} /\ "ip" \in passed[r]
          /\ input[r] \in Inputs /\ input[r].route \in IPThrottledRoutes
      BY <2>2 DEF TurnUser, Answer, IInv, Sound, Charged, Staged
    <3>2. bearer[r] \in minted /\ bearer[r].sub \in Users
      BY <3>1 DEF IInv, Sound, Authentic, PastJWTAuth, Genuine
    <3> QED
      BY <2>2, <3>1, <3>2, KeysDiffer, UserKeys DEF TurnUser, Drained
  <2> QED
    BY <1>4, <2>1, <2>2
<1>5. CASE Turn(r) \/ TurnUser(r)
  <2>1. UNCHANGED <<request, charged, passed, minted>>
    BY <1>5 DEF Turn, TurnUser
  <2>2. Drained(r)' = Drained(r)
    BY <2>1 DEF Drained, request
  <2>3. PICK k : k = Drained(r)
    OBVIOUS
  <2>4. Cardinality(Takers(k)') >= Burst
    BY <1>1, <1>2, <1>4, <1>5, <2>3
  <2>5. Takers(Drained(r))' = Takers(k)'
    BY <2>2, <2>3 DEF Takers
  <2> QED
    BY <1>4, <1>5, <2>1, <2>2, <2>4, <2>5 DEF request
<1> QED
  BY <1>3, <1>5, StepFrame

LEMMA DrainedInvariance == Spec => [](IInv /\ DrainedByOthers)
<1>1. Init => IInv /\ DrainedByOthers
  BY InitIInv, InitDrained
<1>2. IInv /\ DrainedByOthers /\ [Next]_vars => (IInv /\ DrainedByOthers)'
  BY NextIInv, NextDrained
<1> QED
  BY <1>1, <1>2, PTL DEF Spec

\* Nobody is turned away for what other clients, or tokens of other users, have
\* done.
THEOREM TurnedAwayForOwnRequests == Spec => []LimitedHasCause
<1>1. ASSUME IInv, DrainedByOthers, NEW r \in Requests, reply[r] = "limited"
      PROVE  IF "ip" \in passed[r]
               THEN Cardinality({s \in OfUser(bearer[r].sub) \ {r} :
                                   UserKey(bearer[r].sub) \in charged[s]}) >= Burst
               ELSE Cardinality({s \in Like(input[r]) \ {r} : charged[s] # {}}) >= Burst
  <2>1. /\ input[r].route \in IPThrottledRoutes /\ ("ip" \in passed[r] => bearer[r] \in minted)
        /\ Drained(r) \notin charged[r] /\ Cardinality(Takers(Drained(r))) >= Burst
    BY <1>1 DEF DrainedByOthers
  <2>2. ASSUME NEW S \in SUBSET Requests, Takers(Drained(r)) \subseteq S
        PROVE  Cardinality(S) >= Burst
    <3>1. IsFiniteSet(S)
      BY RequestsAssumption, FS_Subset
    <3>2. /\ Cardinality(Takers(Drained(r))) <= Cardinality(S)
          /\ Cardinality(Takers(Drained(r))) \in Nat /\ Cardinality(S) \in Nat
      BY <2>2, <3>1, FS_Subset, FS_CardinalityType
    <3> QED
      BY <2>1, <3>2, LimitAssumption
  \* Who takes a token has arrived, from an address and with a token of its own.
  <2>3. ASSUME NEW s \in Takers(Drained(r))
        PROVE  /\ s \in Requests /\ s # r /\ charged[s] # {} /\ input[s] \in Inputs /\ input[s] # None
               /\ \/ Drained(r) = IPKey(input[s])
                  \/ /\ bearer[s] \in minted /\ bearer[s].sub \in Users
                     /\ input[s].route = "revoke" /\ Drained(r) = UserKey(bearer[s].sub)
    BY <1>1, <2>1, InputAssumption
       DEF Takers, IInv, Sound, Staged, Charged, Genuine
  <2>4. CASE "ip" \in passed[r]
    <3> DEFINE u == bearer[r].sub
    <3>1. u \in Users /\ Drained(r) = UserKey(u)
      BY <1>1, <2>1, <2>4 DEF IInv, Genuine, Drained
    <3>2. ASSUME NEW s \in Takers(Drained(r))
          PROVE  s \in OfUser(u) \ {r} /\ UserKey(u) \in charged[s]
      <4>1. Drained(r) # IPKey(input[s])
        BY <2>3, <3>1, KeysDiffer
      <4>2. bearer[s].sub = u
        BY <2>3, <3>1, <4>1 DEF UserKey
      <4> QED
        BY <2>3, <3>1, <4>1, <4>2 DEF OfUser, Takers
    <3>3. Cardinality({s \in OfUser(u) \ {r} : UserKey(u) \in charged[s]}) >= Burst
      BY <2>2, <3>2 DEF OfUser
    <3> QED
      BY <2>4, <3>3
  <2>5. CASE "ip" \notin passed[r]
    <3>1. Drained(r) = IPKey(input[r]) /\ input[r] \in Inputs
      BY <1>1, <2>5, AnswersAssumption DEF Drained, IInv, Sound, Justified, Staged, Answers
    <3>2. ASSUME NEW s \in Takers(Drained(r))
          PROVE  s \in Like(input[r]) \ {r} /\ charged[s] # {}
      <4>1. IPKey(input[s]) = IPKey(input[r])
        BY <2>3, <3>1, KeysDiffer
      <4> QED
        BY <2>3, <3>1, <4>1, OneKeyOneClient DEF Like
    <3>3. Cardinality({s \in Like(input[r]) \ {r} : charged[s] # {}}) >= Burst
      BY <2>2, <3>2 DEF Like
    <3> QED
      BY <2>5, <3>3
  <2> QED
    BY <2>4, <2>5
<1>2. IInv /\ DrainedByOthers => LimitedHasCause
  BY <1>1 DEF LimitedHasCause
<1> QED
  BY <1>2, DrainedInvariance, PTL
=============================================================================
