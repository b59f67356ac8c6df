------------------------- MODULE BalanceIntakeProofs -------------------------
(***************************************************************************)
(* Theorems about BalanceIntake and the Identity it extends, for any       *)
(* groups, settings, calls, deliveries, lifetimes, skews and caps.         *)
(***************************************************************************)
EXTENDS BalanceIntake, SequenceTheorems, TLAPS

-----------------------------------------------------------------------------
(***************************************************************************)
(* The inductive invariant, in parts.                                      *)
(***************************************************************************)
TokenType ==
    [flaw : Flaws, iat : Int, exp : Int, groups : SUBSET AllGroups]

Types   == {"none"} \cup {call.type : call \in Calls}
Methods == {"none"} \cup {call.method : call \in Calls}

CallType == [type : Types, method : Methods, path : Seq(STRING)]

RequestType ==
    [pc : {"none", "sent", "judged"}, call : CallType,
     token : TokenType, genuine : BOOLEAN, at : Int,
     answer : {"none", "passed", "denied", "closed"},
     role : {"nobody", "Viewer", "Admin"},
     handler : {"none", "health", "static", "intake", "admin", "page"}]

ClockInv ==
    /\ settings \in SettingsRead
    /\ now \in Nat
    /\ ahead \in -MaxSkew .. MaxSkew
    /\ groups \in SUBSET AllGroups
    /\ lastIn \in [AllGroups -> Int]
    /\ \A g \in AllGroups : lastIn[g] <= now
    /\ \A g \in groups : lastIn[g] = now

\* A token lives no longer than a session, and names only groups that the person
\* was still in when it was issued.
Sound(token) ==
    token.flaw = "none" =>
        /\ token.exp <= token.iat + Lifetime
        /\ \A g \in token.groups : lastIn[g] >= token.iat

SessionInv ==
    /\ session \in TokenType
    /\ session.flaw = "none" \/ session.exp = 0
    /\ session.flaw \in {"none", "broken"}
    /\ session.iat <= now
    /\ Sound(session)

\* A genuine request left with a token that was alive, and is not old.
SentInv ==
    request.pc = "sent" =>
        /\ request.at <= now /\ now <= request.at + MaxTransit
        /\ request.answer = "none" /\ request.role = "nobody"
        /\ request.genuine =>
             /\ request.token.flaw = "none"
             /\ request.token.iat <= request.at
             /\ request.at < request.token.exp

RequestInv ==
    /\ request \in RequestType
    /\ Sound(request.token)
    /\ SentInv
    /\ GenuineServed
    /\ HandlersGuarded

IdentityInv == ClockInv /\ SessionInv /\ RequestInv

Keys     == {Blank} \cup {post.key : post \in Posts}
Lengths  == {NoLength} \cup {post.declared : post \in Posts}
Contents == {Garbage} \cup {post.content : post \in Posts}
Stages   == {"idle", "key", "size", "body", "store", "unheard", "over"}
Answers  == {NoAnswer, 200, 401, 404, 413, 422, 500, 503}

IntakeType ==
    [pc : Stages, key : Keys, declared : Lengths, content : Contents, buffered : Nat,
     answer : Answers]

\* No byte is read before the key was judged, and not many beyond the cap.
BytesTaken ==
    /\ intake.pc \in {"idle", "key", "size"} => intake.buffered = 0
    /\ intake.pc = "body" => intake.buffered <= Cap

\* Nothing is stored, and nothing answered, before the end of a call.
StoredAtEnd ==
    /\ intake.pc # "over" => stored = Nothing /\ intake.answer = NoAnswer
    /\ stored # Nothing => stored = intake.content.items /\ DeliveryOK(intake.content)
    /\ intake.pc \in {"store", "unheard"} => DeliveryOK(intake.content)

IntakeInv ==
    /\ intake \in IntakeType
    /\ BytesTaken
    /\ StoredAtEnd
    /\ KeyBeforeBody
    /\ AnswerTells

IInv == IdentityInv /\ IntakeInv

-----------------------------------------------------------------------------
(***************************************************************************)
(* The judgement.                                                          *)
(***************************************************************************)
\* Below the mount a path is again a path.
LEMMA RoutedPath ==
  ASSUME settings \in SettingsRead, NEW path \in Seq(STRING)
  PROVE  /\ Routed(path) \in Seq(STRING)
         /\ RoutePath(path) = Routed(path)
<1>1. settings.root \in Seq(STRING)
  BY IdentityAssumption
<1>2. CASE IsPrefix(settings.root, path)
  <2>1. Len(settings.root) \in Nat /\ Len(path) \in Nat
    BY <1>1, LenProperties
  <2>2. SubSeq(path, Len(settings.root) + 1, Len(path)) \in Seq(STRING)
    BY <2>1, SMT
  <2> QED BY <1>2, <2>2 DEF Routed, RoutePath
<1>3. CASE ~IsPrefix(settings.root, path)
  BY <1>3 DEF Routed, RoutePath
<1> QED BY <1>2, <1>3

\* What a handler is tells what the path below the mount is.
LEMMA HandlerOf ==
  ASSUME NEW path \in Seq(STRING), NEW method
  PROVE  /\ Handler(method, path)
               \in {"none", "health", "static", "intake", "admin", "page"}
         /\ Handler(method, path) \in {"health", "static", "intake"}
               => IsPublic(path) \/ IsIntakeRequest(method, path)
         /\ IsPublic(path) \/ IsIntakeRequest(method, path)
               => Handler(method, path) \in {"health", "static", "intake"}
         /\ Handler(method, path) = "admin" => IsAdminPath(path)
         /\ Handler(method, path) = "page" => ~IsAdminPath(path)
<1>1. CASE path = <<"health">>
  BY <1>1 DEF Handler, IsPublic
<1>2. CASE path # <<"health">> /\ Len(path) > 1 /\ path[1] = "static"
  BY <1>2 DEF Handler, IsPublic
<1>3. CASE path = <<"api", "v1", "balances">>
  <2>1. path # <<"health">> /\ path[1] = "api" /\ ~IsPublic(path)
    BY <1>3 DEF IsPublic
  <2> QED BY <2>1, <1>3 DEF Handler, IsIntakeRequest
<1>4. CASE /\ path # <<"health">> /\ ~(Len(path) > 1 /\ path[1] = "static")
           /\ path # <<"api", "v1", "balances">>
           /\ Len(path) > 1 /\ path[1] = "admin"
  BY <1>4 DEF Handler, IsPublic, IsIntakeRequest, IsAdminPath
<1>5. CASE /\ path # <<"health">> /\ ~(Len(path) > 1 /\ path[1] = "static")
           /\ path # <<"api", "v1", "balances">>
           /\ ~(Len(path) > 1 /\ path[1] = "admin")
  <2>1. /\ Handler(method, path) \in {"page", "none"}
        /\ Handler(method, path) = "page" => path \in {<<"">>, <<"finances">>}
    BY <1>5 DEF Handler
  <2>2. path \in {<<"">>, <<"finances">>} => ~IsAdminPath(path)
    <3>1. \A x : <<x>>[1] = x
      OBVIOUS
    <3>2. <<"">>[1] = "" /\ <<"finances">>[1] = "finances"
      BY <3>1
    <3> QED BY <3>2 DEF IsAdminPath
  <2> QED BY <2>1, <2>2, <1>5 DEF IsPublic, IsIntakeRequest
<1> QED BY <1>1, <1>2, <1>3, <1>4, <1>5

\* A request that is passed on is guarded, whatever the role it was judged for.
LEMMA JudgedGuarded ==
  ASSUME ClockInv, request \in RequestType, request.answer = "none",
         request.role = "nobody",
         NEW role \in {"nobody", "Viewer", "Admin"},
         request' = Judged(RoutePath(request.call.path), role)
  PROVE  /\ request' \in RequestType
         /\ HandlersGuarded'
         /\ request'.role \in {"nobody", role}
         /\ request'.pc = "judged"
         /\ request'.token = request.token
         /\ request'.genuine = request.genuine
         /\ request'.call = request.call
         /\ (/\ request.call.type = "http"
             /\ Grants(role, Handler(request.call.method, Routed(request.call.path))))
               => request'.answer = "passed"
<1> DEFINE path == Routed(request.call.path)
           handler == Handler(request.call.method, path)
<1>1. path \in Seq(STRING) /\ RoutePath(request.call.path) = path
  BY RoutedPath DEF ClockInv, RequestType, CallType
<1>3. /\ handler \in {"none", "health", "static", "intake", "admin", "page"}
      /\ handler \in {"health", "static", "intake"}
            <=> IsPublic(path) \/ IsIntakeRequest(request.call.method, path)
      /\ handler = "admin" => IsAdminPath(path)
      /\ handler = "page" => ~IsAdminPath(path)
  BY <1>1, HandlerOf
<1>4. request' = Judged(path, role)
  BY <1>1
<1> HIDE DEF path
<1>5. CASE request.call.type # "http"
  BY <1>4, <1>5 DEF Judged, Refused, RequestType, HandlersGuarded
<1>6. CASE /\ request.call.type = "http"
           /\ IsPublic(path) \/ IsIntakeRequest(request.call.method, path)
  <2>1. request' = Passed("nobody")
    BY <1>4, <1>6 DEF Judged
  <2> QED BY <2>1, <1>3, <1>6 DEF Passed, RequestType, HandlersGuarded, path
<1>7. CASE /\ request.call.type = "http"
           /\ ~(IsPublic(path) \/ IsIntakeRequest(request.call.method, path))
           /\ role = "nobody" \/ (IsAdminPath(path) /\ role # "Admin")
  <2>1. request' = Refused("denied")
    BY <1>4, <1>7 DEF Judged
  <2>2. ~Grants(role, handler)
    BY <1>3, <1>7 DEF Grants
  <2>3. request' \in RequestType
    BY <2>1 DEF Refused, RequestType
  <2>4. /\ request'.answer = "denied" /\ request'.role = request.role
        /\ request'.pc = "judged" /\ request'.token = request.token
        /\ request'.genuine = request.genuine /\ request'.call = request.call
    BY ONLY <2>1, request \in RequestType DEF Refused, RequestType
  <2>5. ~Grants(role, Handler(request.call.method, Routed(request.call.path)))
    BY <2>2 DEF path
  <2> QED BY <2>3, <2>4, <2>5 DEF HandlersGuarded
<1>8. CASE /\ request.call.type = "http"
           /\ ~(IsPublic(path) \/ IsIntakeRequest(request.call.method, path))
           /\ ~(role = "nobody" \/ (IsAdminPath(path) /\ role # "Admin"))
  <2>1. request' = Passed(role)
    BY <1>4, <1>8 DEF Judged
  <2> QED BY <2>1, <1>3, <1>8 DEF Passed, RequestType, HandlersGuarded, path
<1> QED BY <1>5, <1>6, <1>7, <1>8

\* A genuine request that is not held up is judged by a token that verifies, and
\* a role is that of one that has not long expired.
LEMMA VerifiedInTime ==
  ASSUME ClockInv, RequestInv, OnItsWay
  PROVE  /\ request.genuine => Verified(request.token) /\ request.token.flaw = "none"
         /\ Verified(request.token) => request.token.exp > now - MaxSkew - Leeway
<1>1. /\ now \in Nat /\ ahead \in Int /\ -MaxSkew <= ahead /\ ahead <= MaxSkew
      /\ Leeway \in Nat /\ MaxSkew \in Nat /\ MaxTransit \in Nat
      /\ MaxSkew + MaxTransit <= Leeway
  BY IdentityAssumption DEF ClockInv
<1>2. request.at \in Int /\ request.token.iat \in Int /\ request.token.exp \in Int
  BY DEF RequestInv, RequestType, TokenType
<1>3. CASE request.genuine
  <2>1. /\ request.at <= now /\ now <= request.at + MaxTransit
        /\ request.token.flaw = "none"
        /\ request.token.iat <= request.at /\ request.at < request.token.exp
    BY <1>3 DEF RequestInv, SentInv, OnItsWay
  <2> QED BY <1>1, <1>2, <2>1 DEF Verified, PortalNow
<1>4. Verified(request.token) => request.token.exp > now - MaxSkew - Leeway
  BY <1>1, <1>2 DEF Verified, PortalNow
<1> QED BY <1>3, <1>4

\* The role is one of three, and that of the groups when the token has no flaw.
LEMMA RoleOf ==
  ASSUME NEW token
  PROVE  /\ Authenticate(token) \in {"nobody", "Viewer", "Admin"}
         /\ Verified(token) /\ token.flaw # "nameless" =>
               Authenticate(token) = RoleFromGroups(token.groups)
         /\ Authenticate(token) # "nobody" =>
               /\ Verified(token) /\ token.flaw \notin {"broken", "nameless"}
               /\ Granting(Authenticate(token)) \in token.groups
<1> QED
  BY DEF Authenticate, Verified, RoleFromGroups, Granting

-----------------------------------------------------------------------------
(***************************************************************************)
(* Every step keeps the invariant.                                         *)
(***************************************************************************)
\* A token that was sound stays so: nobody's last moment in a group goes back.
LEMMA SoundStays ==
  ASSUME NEW token \in TokenType, Sound(token),
         lastIn \in [AllGroups -> Int], lastIn' \in [AllGroups -> Int],
         \A g \in AllGroups : lastIn'[g] >= lastIn[g]
  PROVE  Sound(token)'
<1> QED
  BY DEF Sound, TokenType

\* What is asked for is typed, also below a mount.
LEMMA CallTyped ==
  ASSUME NEW call \in CallType, NEW root \in Seq(STRING)
  PROVE  [call EXCEPT !.path = root \o @] \in CallType
<1>1. root \o call.path \in Seq(STRING)
  BY DEF CallType
<1>2. \A path \in Seq(STRING) : [call EXCEPT !.path = path] \in CallType
  BY DEF CallType
<1> QED BY <1>1, <1>2

\* No request is typed.
LEMMA NoRequestTyped == NoRequest \in RequestType
<1>1. << >> \in Seq(STRING) /\ "none" \in Types /\ "none" \in Methods
  BY DEF Types, Methods
<1>2. [type |-> "none", method |-> "none", path |-> << >>] \in CallType
  BY ONLY <1>1 DEF CallType
<1>3. NoToken \in TokenType
  BY DEF NoToken, TokenType, Flaws
<1> QED
  BY ONLY <1>2, <1>3 DEF NoRequest, RequestType

\* The invariant holds at the start.
LEMMA IdentityInit_Inv == IdentityInit => IdentityInv
<1> SUFFICES ASSUME IdentityInit PROVE IdentityInv
  OBVIOUS
<1>1. Lifetime \in Nat /\ Leeway \in Nat /\ MaxSkew \in Nat /\ MaxTransit \in Nat
  BY IdentityAssumption
<1>2. NoToken \in TokenType /\ Sound(NoToken)
  BY DEF NoToken, TokenType, Flaws, Sound
<1>3. ClockInv
  BY <1>1 DEF ClockInv, IdentityInit, Long
<1>4. SessionInv
  BY <1>2 DEF SessionInv, IdentityInit, NoToken
<1>5. RequestInv
  <2>1. request \in RequestType
    BY NoRequestTyped DEF IdentityInit
  <2> QED
    BY <2>1, <1>2 DEF RequestInv, IdentityInit, NoRequest, SentInv, GenuineServed,
                      HandlersGuarded
<1> QED BY <1>3, <1>4, <1>5 DEF IdentityInv

\* Time, clocks and groups: tokens and requests under way stay what they were.
LEMMA ClockStep ==
  ASSUME IdentityInv, Tick \/ StepClock \/ ChangeGroups
  PROVE  IdentityInv'
<1> USE DEF IdentityInv
<1>1. now \in Nat /\ lastIn \in [AllGroups -> Int] /\ groups \in SUBSET AllGroups
  BY DEF ClockInv
<1>2. ClockInv'
  <2>1. CASE Tick
    BY <2>1, <1>1 DEF Tick, ClockInv
  <2>2. CASE StepClock
    BY <2>2 DEF StepClock, ClockInv
  <2>3. CASE ChangeGroups
    BY <2>3, <1>1 DEF ChangeGroups, ClockInv
  <2> QED BY <2>1, <2>2, <2>3
<1>3. /\ lastIn' \in [AllGroups -> Int]
      /\ \A g \in AllGroups : lastIn'[g] >= lastIn[g]
      /\ now' \in Nat /\ now' >= now
  <2>1. CASE Tick
    BY <2>1, <1>1 DEF Tick, ClockInv
  <2>2. CASE StepClock
    BY <2>2, <1>1 DEF StepClock
  <2>3. CASE ChangeGroups
    BY <2>3, <1>1 DEF ChangeGroups, ClockInv
  <2> QED BY <2>1, <2>2, <2>3
<1>4. session' = session /\ request' = request /\ settings' = settings
  BY DEF Tick, StepClock, ChangeGroups
<1>5. SessionInv'
  <2>1. Sound(session)'
    BY <1>1, <1>3, <1>4, SoundStays DEF SessionInv, Sound
  <2>2. session.iat \in Int
    BY DEF SessionInv, TokenType
  <2> QED BY <1>1, <1>3, <1>4, <2>1, <2>2 DEF SessionInv
<1>6. RequestInv'
  <2>1. request.token \in TokenType /\ request.at \in Int
    BY DEF RequestInv, RequestType
  <2>2. Sound(request.token)'
    BY <1>1, <1>3, <1>4, <2>1, SoundStays DEF RequestInv, Sound
  <2>3. GenuineServed' /\ HandlersGuarded'
    BY <1>4 DEF RequestInv, GenuineServed, HandlersGuarded, RoleFromGroups, Routed
  <2>4. SentInv'
    <3>1. request.pc = "sent" => now' <= request.at + MaxTransit
      BY <1>1, <2>1, IdentityAssumption
         DEF Tick, StepClock, ChangeGroups, RequestInv, SentInv, OnItsWay
    <3> QED BY <1>1, <1>3, <1>4, <2>1, <3>1 DEF RequestInv, SentInv
  <2> QED BY <1>4, <2>2, <2>3, <2>4 DEF RequestInv
<1> QED BY <1>2, <1>5, <1>6

\* The one new session is of the groups of this moment.
LEMMA SignInStep ==
  ASSUME IdentityInv, SignIn
  PROVE  IdentityInv'
<1> USE DEF IdentityInv
<1>1. now \in Nat /\ Lifetime \in Nat /\ groups \in SUBSET AllGroups
  BY IdentityAssumption DEF ClockInv
<1>2. session' \in TokenType
  BY <1>1 DEF SignIn, TokenType, Flaws
<1>3. Sound(session)'
  BY <1>1 DEF SignIn, Sound, ClockInv, clockVars
<1>4. SessionInv'
  BY <1>1, <1>2, <1>3 DEF SignIn, SessionInv, clockVars
<1>5. ClockInv'
  BY DEF SignIn, ClockInv, clockVars
<1>6. RequestInv'
  BY DEF SignIn, RequestInv, SentInv, GenuineServed, HandlersGuarded, RoleFromGroups,
         Routed, Sound, clockVars
<1> QED BY <1>4, <1>5, <1>6

\* What leaves is as old as this moment, and genuine only while its token lives.
LEMMA SendStep ==
  ASSUME IdentityInv, NEW call \in Calls, Forward(call) \/ Direct(call)
  PROVE  IdentityInv'
<1> USE DEF IdentityInv
<1>1. /\ now \in Nat /\ MaxTransit \in Nat /\ Lifetime \in Nat
      /\ call \in [type : STRING, method : STRING, path : Seq(STRING)]
      /\ settings.root \in Seq(STRING)
  BY IdentityAssumption DEF ClockInv
<1>0. call \in CallType
  BY <1>1 DEF CallType, Types, Methods
<1>2. [call EXCEPT !.path = settings.root \o @] \in CallType
  BY <1>0, <1>1, CallTyped
<1>3. PICK token \in TokenType, genuine \in BOOLEAN :
         /\ Send(call, token, genuine)
         /\ Sound(token)
         /\ genuine => /\ token.flaw = "none" /\ token.iat <= now /\ now < token.exp
  <2>1. CASE Forward(call)
    <3>1. now < session.exp /\ Send(call, session, TRUE)
      BY <2>1 DEF Forward
    <3>2. session.flaw = "none"
      BY <1>1, <3>1 DEF SessionInv
    <3>3. session \in TokenType /\ Sound(session) /\ session.iat <= now
      BY DEF SessionInv
    <3> QED BY <3>1, <3>2, <3>3
  <2>2. CASE session # NoToken /\ now >= session.exp /\ Send(call, session, FALSE)
    BY <2>2 DEF SessionInv
  <2>3. CASE \E flaw \in Flaws \ {"none"} :
                Send(call, [flaw |-> flaw, iat |-> now, exp |-> now + Lifetime,
                            groups |-> AllGroups], FALSE)
    <3>1. PICK flaw \in Flaws \ {"none"} :
                Send(call, [flaw |-> flaw, iat |-> now, exp |-> now + Lifetime,
                            groups |-> AllGroups], FALSE)
      BY <2>3
    <3>2. [flaw |-> flaw, iat |-> now, exp |-> now + Lifetime, groups |-> AllGroups]
             \in TokenType
      BY <1>1 DEF TokenType
    <3> QED BY <3>1, <3>2 DEF Sound
  <2> QED BY <2>1, <2>2, <2>3 DEF Direct
<1>4. UNCHANGED <<settings, now, ahead, groups, session, lastIn>>
  BY <1>3 DEF Send, clockVars
<1>5. ClockInv' /\ SessionInv'
  BY <1>4 DEF ClockInv, SessionInv, Sound
<1>6. request' = [pc |-> "sent", call |-> [call EXCEPT !.path = settings.root \o @],
                  token |-> token, genuine |-> genuine, at |-> now,
                  answer |-> "none", role |-> "nobody", handler |-> "none"]
  BY <1>3 DEF Send, NoRequest
<1>7. request' \in RequestType
  BY ONLY <1>1, <1>2, <1>6, token \in TokenType, genuine \in BOOLEAN DEF RequestType
<1>8. Sound(request.token)'
  BY <1>3, <1>4, <1>6 DEF Sound
<1>9. SentInv'
  BY <1>1, <1>3, <1>4, <1>6 DEF SentInv
<1>10. GenuineServed' /\ HandlersGuarded'
  BY <1>6 DEF GenuineServed, HandlersGuarded
<1> QED BY <1>5, <1>7, <1>8, <1>9, <1>10 DEF RequestInv

\* A judgement serves what is genuine and guards every handler.
LEMMA JudgeStep ==
  ASSUME IdentityInv, Judge
  PROVE  IdentityInv'
<1> USE DEF IdentityInv
<1>1. UNCHANGED <<settings, now, ahead, groups, session, lastIn>>
  BY DEF Judge, clockVars
<1>2. ClockInv' /\ SessionInv'
  BY <1>1 DEF ClockInv, SessionInv, Sound
<1> DEFINE role == Authenticate(request.token)
<1>3. role \in {"nobody", "Viewer", "Admin"}
  BY RoleOf
<1>4. request \in RequestType /\ request.answer = "none" /\ request.role = "nobody"
  BY DEF Judge, OnItsWay, RequestInv, SentInv
<1>5. request' = Judged(RoutePath(request.call.path), role)
  BY DEF Judge, Judgement
<1>6. request.genuine => role = RoleFromGroups(request.token.groups)
  BY VerifiedInTime, RoleOf DEF Judge
<1> HIDE DEF role
<1>7. /\ request' \in RequestType /\ HandlersGuarded'
      /\ request'.pc = "judged" /\ request'.token = request.token
      /\ request'.genuine = request.genuine /\ request'.call = request.call
      /\ (/\ request.call.type = "http"
          /\ Grants(role, Handler(request.call.method, Routed(request.call.path))))
            => request'.answer = "passed"
  BY <1>3, <1>4, <1>5, JudgedGuarded
<1>8. GenuineServed'
  <2>1. /\ RoleFromGroups(request.token.groups)' = RoleFromGroups(request.token.groups)
        /\ Routed(request.call.path)' = Routed(request.call.path)
    BY <1>1, <1>7 DEF RoleFromGroups, Routed
  <2> QED BY <1>6, <1>7, <2>1 DEF GenuineServed
<1>9. Sound(request.token)' /\ SentInv'
  BY <1>1, <1>7 DEF RequestInv, Sound, SentInv
<1> QED BY <1>2, <1>7, <1>8, <1>9 DEF RequestInv

\* The end of a request.
LEMMA EndStep ==
  ASSUME IdentityInv, EndRequest
  PROVE  IdentityInv'
<1> USE DEF IdentityInv
<1>1. UNCHANGED <<settings, now, ahead, groups, session, lastIn>>
  BY DEF EndRequest, clockVars
<1>2. ClockInv' /\ SessionInv'
  BY <1>1 DEF ClockInv, SessionInv, Sound
<1>3. request' = NoRequest
  BY DEF EndRequest
<1>4. NoRequest \in RequestType
  BY NoRequestTyped
<1>5. Sound(request.token)' /\ SentInv' /\ GenuineServed' /\ HandlersGuarded'
  BY <1>3 DEF NoRequest, NoToken, Sound, SentInv, GenuineServed, HandlersGuarded
<1> QED BY <1>2, <1>3, <1>4, <1>5 DEF RequestInv

\* Every step of identity keeps its invariant.
LEMMA IdentityStep ==
  ASSUME IdentityInv, IdentityNext \/ EndRequest \/ UNCHANGED identityVars
  PROVE  IdentityInv'
<1>1. CASE UNCHANGED identityVars
  BY <1>1 DEF identityVars, IdentityInv, ClockInv, SessionInv, RequestInv, SentInv, Sound,
              GenuineServed, HandlersGuarded, RoleFromGroups, Routed
<1> QED
  BY <1>1, ClockStep, SignInStep, SendStep, JudgeStep, EndStep DEF IdentityNext

\* The handler is free at the start.
LEMMA IntakeInit_Inv == Init => IntakeInv
<1> SUFFICES ASSUME Init PROVE IntakeInv
  OBVIOUS
<1>1. intake = NoCall /\ stored = Nothing
  BY DEF Init
<1>2. NoCall \in IntakeType
  BY DEF NoCall, IntakeType, Stages, Keys, Lengths, Contents, Answers,
         NoAnswer
<1> QED
  BY <1>1, <1>2, IntakeAssumption
     DEF IntakeInv, NoCall, NoAnswer, BytesTaken, StoredAtEnd, KeyBeforeBody, AnswerTells

\* The call reaches the handler, and its key is judged.
LEMMA ReceiveStep ==
  ASSUME IntakeInv, NEW post \in Posts, Receive(post)
  PROVE  IntakeInv'
<1>1. intake' = [pc |-> "key", key |-> post.key, declared |-> post.declared,
                 content |-> post.content, buffered |-> 0, answer |-> NoAnswer]
  BY DEF Receive, NoCall
<1>2. intake' \in IntakeType
  BY ONLY <1>1, post \in Posts
     DEF IntakeType, Stages, Keys, Lengths, Contents, Answers, NoAnswer
<1>3. stored' = Nothing
  BY DEF Receive, IntakeInv, StoredAtEnd
<1> QED
  BY <1>1, <1>2, <1>3, IntakeAssumption
     DEF IntakeInv, NoAnswer, BytesTaken, StoredAtEnd, KeyBeforeBody, AnswerTells

\* A step that goes on to another stage changes nothing else of a call.
LEMMA GoesOn ==
  ASSUME intake \in IntakeType,
         NEW pc \in {"idle", "key", "size", "body", "store", "unheard", "over"},
         intake' = [intake EXCEPT !.pc = pc]
  PROVE  /\ intake' \in IntakeType
         /\ intake'.pc = pc /\ intake'.key = intake.key
         /\ intake'.declared = intake.declared /\ intake'.content = intake.content
         /\ intake'.buffered = intake.buffered /\ intake'.answer = intake.answer
<1>1. pc \in Stages
  BY DEF Stages
<1> QED
  BY <1>1 DEF IntakeType

\* A step that answers.
LEMMA GivesAnswer ==
  ASSUME intake \in IntakeType, NEW answer \in {200, 401, 404, 413, 422, 500, 503},
         Answered(answer)
  PROVE  /\ intake' \in IntakeType
         /\ intake'.pc = "over" /\ intake'.key = intake.key
         /\ intake'.declared = intake.declared /\ intake'.content = intake.content
         /\ intake'.buffered = intake.buffered /\ intake'.answer = answer
<1>1. "over" \in Stages /\ answer \in Answers
  BY DEF Stages, Answers
<1>2. intake' = [intake EXCEPT !.pc = "over", !.answer = answer]
  BY DEF Answered
<1> DEFINE over == "over"
<1> HIDE DEF over
<1>3. intake' = [intake EXCEPT !.pc = over, !.answer = answer] /\ over \in Stages
  BY <1>1, <1>2 DEF over
<1>4. ASSUME NEW call, call = [intake EXCEPT !.pc = over, !.answer = answer]
      PROVE  /\ call \in IntakeType
             /\ call.pc = over /\ call.key = intake.key
             /\ call.declared = intake.declared /\ call.content = intake.content
             /\ call.buffered = intake.buffered /\ call.answer = answer
  BY ONLY <1>1, <1>3, <1>4, intake \in IntakeType, ZenonT(30) DEF IntakeType
<1>5. /\ intake' \in IntakeType
      /\ intake'.pc = over /\ intake'.key = intake.key
      /\ intake'.declared = intake.declared /\ intake'.content = intake.content
      /\ intake'.buffered = intake.buffered /\ intake'.answer = answer
  BY ONLY <1>3, <1>4
<1> QED BY ONLY <1>5 DEF over

\* A step that takes bytes.
LEMMA TakesBytes ==
  ASSUME intake \in IntakeType, NEW n \in Nat,
         intake' = [intake EXCEPT !.buffered = n]
  PROVE  /\ intake' \in IntakeType
         /\ intake'.pc = intake.pc /\ intake'.key = intake.key
         /\ intake'.buffered = n /\ intake'.answer = intake.answer
BY DEF IntakeType

\* A step that takes too many of them.
LEMMA TakesTooMuch ==
  ASSUME intake \in IntakeType, NEW n \in Nat,
         intake' = [intake EXCEPT !.buffered = n, !.pc = "over", !.answer = 413]
  PROVE  /\ intake' \in IntakeType
         /\ intake'.pc = "over" /\ intake'.key = intake.key
         /\ intake'.buffered = n /\ intake'.answer = 413
<1> DEFINE over == "over"
           large == 413
<1>1. over \in Stages /\ large \in Answers
  BY DEF Stages, Answers
<1>2. intake' = [intake EXCEPT !.buffered = n, !.pc = over, !.answer = large]
  OBVIOUS
<1> HIDE DEF over, large
<1>3. /\ intake' \in IntakeType
      /\ intake'.pc = over /\ intake'.key = intake.key
      /\ intake'.buffered = n /\ intake'.answer = large
  BY ONLY <1>1, <1>2, n \in Nat, intake \in IntakeType, ZenonT(30)
     DEF IntakeType
<1> QED BY <1>3 DEF over, large

\* The key.
LEMMA KeyStep ==
  ASSUME IntakeInv, CheckKey
  PROVE  IntakeInv'
<1>1. /\ intake \in IntakeType /\ intake.pc = "key" /\ intake.buffered = 0
      /\ stored' = Nothing /\ settings' = settings
  BY DEF CheckKey, IntakeInv, BytesTaken, StoredAtEnd, identityVars
<1>2. CASE \E answer \in {404, 401} : Answered(answer)
  <2>1. PICK answer \in {404, 401} : Answered(answer)
    BY <1>2
  <2>2. intake' \in IntakeType
    BY <1>1, <2>1, GivesAnswer
  <2>3. intake'.pc = "over" /\ intake'.answer = answer /\ intake'.buffered = 0
    BY <1>1, <2>1, GivesAnswer
  <2> QED
    BY <1>1, <2>2, <2>3, IntakeAssumption
       DEF IntakeInv, NoAnswer, BytesTaken, StoredAtEnd, KeyBeforeBody, AnswerTells
<1>3. CASE /\ settings.key # NoKey /\ intake.key = settings.key.text
           /\ intake' = [intake EXCEPT !.pc = "size"]
  <2>1. intake' \in IntakeType
    BY <1>1, <1>3, GoesOn
  <2>2. /\ intake'.pc = "size" /\ intake'.key = intake.key
        /\ intake'.answer = intake.answer /\ intake'.buffered = 0
    BY <1>1, <1>3, GoesOn
  <2>3. intake.answer = NoAnswer
    BY <1>1 DEF IntakeInv, StoredAtEnd
  <2> QED
    BY <1>1, <1>3, <2>1, <2>2, <2>3, IntakeAssumption
       DEF IntakeInv, NoAnswer, BytesTaken, StoredAtEnd, KeyBeforeBody, AnswerTells
<1> QED
  BY <1>2, <1>3 DEF CheckKey

\* The size, declared and counted, and what the body says.
LEMMA BodyStep ==
  ASSUME IntakeInv, CheckLength \/ ReadChunk \/ Validate
  PROVE  IntakeInv'
<1>0. /\ intake.pc \in {"size", "body"}
      /\ stored' = stored /\ settings' = settings
  BY DEF CheckLength, ReadChunk, Validate, identityVars
<1>1. /\ intake \in IntakeType /\ intake.pc \in {"size", "body"}
      /\ intake.answer = NoAnswer /\ stored = Nothing
      /\ intake.buffered \in Nat /\ intake.buffered <= Cap
      /\ settings.key # NoKey /\ intake.key = settings.key.text
      /\ stored' = stored /\ settings' = settings
  <2>1. intake \in IntakeType /\ intake.buffered \in Nat
    BY DEF IntakeInv, IntakeType
  <2>2. intake.answer = NoAnswer /\ stored = Nothing
    BY <1>0 DEF IntakeInv, StoredAtEnd
  <2>3. intake.buffered <= Cap
    BY <1>0, IntakeAssumption DEF IntakeInv, BytesTaken
  <2>4. settings.key # NoKey /\ intake.key = settings.key.text
    BY <1>0 DEF IntakeInv, KeyBeforeBody
  <2> QED BY <1>0, <2>1, <2>2, <2>3, <2>4
<1>2. CASE \E answer \in {413, 422, 500} : Answered(answer)
  <2>1. PICK answer \in {413, 422, 500} : Answered(answer)
    BY <1>2
  <2>2. intake' \in IntakeType
    BY <1>1, <2>1, GivesAnswer
  <2>3. /\ intake'.pc = "over" /\ intake'.answer = answer
        /\ intake'.key = intake.key /\ intake'.buffered = intake.buffered
    BY <1>1, <2>1, GivesAnswer
  <2> QED
    BY <1>1, <2>2, <2>3, IntakeAssumption
       DEF IntakeInv, NoAnswer, BytesTaken, StoredAtEnd, KeyBeforeBody, AnswerTells
<1>3. CASE /\ intake.pc = "size"
           /\ intake' = [intake EXCEPT !.pc = "body"]
  <2>1. intake' \in IntakeType
    BY <1>1, <1>3, GoesOn
  <2>2. /\ intake'.pc = "body" /\ intake'.key = intake.key
        /\ intake'.answer = intake.answer /\ intake'.buffered = intake.buffered
    BY <1>1, <1>3, GoesOn
  <2> QED
    BY <1>1, <2>1, <2>2, IntakeAssumption
       DEF IntakeInv, NoAnswer, BytesTaken, StoredAtEnd, KeyBeforeBody, AnswerTells
<1>4. CASE DeliveryOK(intake.content) /\ intake' = [intake EXCEPT !.pc = "store"]
  <2>1. intake' \in IntakeType
    BY <1>1, <1>4, GoesOn
  <2>2. /\ intake'.pc = "store" /\ intake'.key = intake.key
        /\ intake'.content = intake.content
        /\ intake'.answer = intake.answer /\ intake'.buffered = intake.buffered
    BY <1>1, <1>4, GoesOn
  <2>3. DeliveryOK(intake'.content)
    BY <1>4, <2>2
  <2> QED
    BY <1>1, <2>1, <2>2, <2>3, IntakeAssumption
       DEF IntakeInv, NoAnswer, BytesTaken, StoredAtEnd, KeyBeforeBody, AnswerTells
<1>5. CASE ReadChunk
  <2>1. intake.pc = "body" /\ Cap \in Nat /\ MaxChunk \in Nat
    BY <1>5, IntakeAssumption DEF ReadChunk
  <2>2. PICK n \in 1 .. MaxChunk :
           intake' = IF intake.buffered + n > Cap
                     THEN [intake EXCEPT !.buffered = @ + n, !.pc = "over", !.answer = 413]
                     ELSE [intake EXCEPT !.buffered = @ + n]
    BY <1>5 DEF ReadChunk
  <2>3. intake.buffered + n \in Nat /\ intake.buffered + n <= Cap + MaxChunk
    BY <1>1, <2>1
  <2> DEFINE m == intake.buffered + n
  <2>4. m \in Nat /\ m <= Cap + MaxChunk
    BY <2>3
  <2>5. CASE m > Cap
    <3>1. intake' = [intake EXCEPT !.buffered = m, !.pc = "over", !.answer = 413]
      BY <2>2, <2>5
    <3> HIDE DEF m
    <3>3. /\ intake' \in IntakeType
          /\ intake'.pc = "over" /\ intake'.answer = 413 /\ intake'.key = intake.key
          /\ intake'.buffered = m
      BY ONLY <1>1, <2>4, <3>1, TakesTooMuch, ZenonT(30)
    <3>4. settings'.key # NoKey /\ intake'.key = settings'.key.text
      BY ONLY <1>1, <3>3
    <3>5. KeyBeforeBody'
      BY ONLY <2>4, <3>3, <3>4 DEF KeyBeforeBody
    <3>6. BytesTaken' /\ StoredAtEnd'
      BY <1>1, <2>4, <3>3 DEF NoAnswer, BytesTaken, StoredAtEnd
    <3>7. AnswerTells'
      BY <1>1, <3>3 DEF AnswerTells
    <3> QED
      BY ONLY <3>3, <3>5, <3>6, <3>7 DEF IntakeInv
  <2>6. CASE ~(m > Cap)
    <3>1. intake' = [intake EXCEPT !.buffered = m]
      BY <2>2, <2>6
    <3>2. m <= Cap
      BY <2>1, <2>4, <2>6
    <3> HIDE DEF m
    <3>3. /\ intake' \in IntakeType
          /\ intake'.pc = "body" /\ intake'.answer = NoAnswer /\ intake'.key = intake.key
          /\ intake'.buffered = m
      BY <1>1, <2>1, <2>4, <3>1, TakesBytes
    <3> QED
      BY <1>1, <2>1, <2>4, <3>2, <3>3, IntakeAssumption
         DEF IntakeInv, NoAnswer, BytesTaken, StoredAtEnd, KeyBeforeBody, AnswerTells
  <2> QED BY <2>5, <2>6
<1> QED
  BY <1>2, <1>3, <1>4, <1>5 DEF CheckLength, Validate

\* A client that leaves takes nothing back.
LEMMA LeaveStep ==
  ASSUME IntakeInv, Leave
  PROVE  IntakeInv'
<1>1. /\ intake \in IntakeType /\ intake.pc \in {"body", "store"}
      /\ intake.answer = NoAnswer /\ stored = Nothing
      /\ stored' = stored /\ settings' = settings
  BY DEF Leave, IntakeInv, StoredAtEnd, identityVars
<1>2. /\ settings.key # NoKey /\ intake.key = settings.key.text
      /\ intake.buffered <= Cap + MaxChunk
  BY <1>1 DEF IntakeInv, KeyBeforeBody
<1>3. CASE intake.pc = "body" /\ intake' = [intake EXCEPT !.pc = "over"]
  BY <1>1, <1>2, <1>3, GoesOn, IntakeAssumption
     DEF IntakeInv, NoAnswer, BytesTaken, StoredAtEnd, KeyBeforeBody, AnswerTells
<1>4. CASE intake.pc = "store" /\ intake' = [intake EXCEPT !.pc = "unheard"]
  <2>1. /\ intake' \in IntakeType /\ intake'.pc = "unheard" /\ intake'.key = intake.key
        /\ intake'.content = intake.content /\ intake'.buffered = intake.buffered
        /\ intake'.answer = NoAnswer
    BY <1>1, <1>4, GoesOn
  <2>2. DeliveryOK(intake'.content)
    BY <1>4, <2>1 DEF IntakeInv, StoredAtEnd
  <2> QED
    BY <1>1, <1>2, <2>1, <2>2, IntakeAssumption
       DEF IntakeInv, NoAnswer, BytesTaken, StoredAtEnd, KeyBeforeBody, AnswerTells
<1> QED
  BY <1>3, <1>4 DEF Leave

\* The transaction commits or is undone, and whoever still listens is told which.
LEMMA StoreStep ==
  ASSUME IntakeInv, Store
  PROVE  IntakeInv'
<1>1. /\ intake \in IntakeType /\ intake.pc \in {"store", "unheard"}
      /\ intake.answer = NoAnswer /\ stored = Nothing /\ settings' = settings
      /\ DeliveryOK(intake.content)
  BY DEF Store, IntakeInv, StoredAtEnd, identityVars
<1>2. /\ settings.key # NoKey /\ intake.key = settings.key.text
      /\ intake.buffered <= Cap + MaxChunk
  BY <1>1 DEF IntakeInv, KeyBeforeBody
<1>3. PICK answer \in {NoAnswer, 200, 503} :
         /\ intake' \in IntakeType
         /\ intake'.pc = "over" /\ intake'.key = intake.key
         /\ intake'.content = intake.content
         /\ intake'.buffered = intake.buffered /\ intake'.answer = answer
         /\ answer = 200 => stored' = intake.content.items
         /\ answer = 503 => stored' = Nothing
         /\ stored' \in {Nothing, intake.content.items}
  <2>1. CASE intake' = [intake EXCEPT !.pc = "over"]
    <3>1. /\ intake' \in IntakeType /\ intake'.pc = "over" /\ intake'.key = intake.key
          /\ intake'.content = intake.content
          /\ intake'.buffered = intake.buffered /\ intake'.answer = NoAnswer
      BY <1>1, <2>1, GoesOn
    <3>2. stored' \in {Nothing, intake.content.items}
      BY <1>1 DEF Store
    <3>3. NoAnswer # 200 /\ NoAnswer # 503
      BY DEF NoAnswer
    <3> QED BY <3>1, <3>2, <3>3
  <2>2. CASE Answered(200) /\ stored' = intake.content.items
    BY <1>1, <2>2, GivesAnswer
  <2>3. CASE Answered(503) /\ stored' = stored
    BY <1>1, <2>3, GivesAnswer
  <2> QED BY <2>1, <2>2, <2>3 DEF Store
<1>4. DeliveryOK(intake'.content)
  BY <1>1, <1>3
<1>5. StoredAtEnd' /\ BytesTaken'
  BY <1>3, <1>4 DEF StoredAtEnd, BytesTaken
<1>6. KeyBeforeBody'
  BY <1>1, <1>2, <1>3, IntakeAssumption DEF KeyBeforeBody, NoAnswer
<1>7. AnswerTells'
  <2>1. stored' # Nothing =>
          \A i, j \in DOMAIN stored' : stored'[i].id = stored'[j].id => i = j
    BY <1>1, <1>3 DEF DeliveryOK
  <2> QED BY <1>3, <2>1 DEF AnswerTells, NoAnswer
<1> QED
  BY <1>3, <1>5, <1>6, <1>7 DEF IntakeInv

\* The handler is free again, and what was stored is the database's.
LEMMA IntakeEndStep ==
  ASSUME IntakeInv, End
  PROVE  IntakeInv'
<1>1. intake' = NoCall /\ stored' = Nothing
  BY DEF End
<1>2. NoCall \in IntakeType
  BY DEF NoCall, IntakeType, Stages, Keys, Lengths, Contents, Answers,
         NoAnswer
<1> QED
  BY <1>1, <1>2, IntakeAssumption
     DEF IntakeInv, NoCall, NoAnswer, BytesTaken, StoredAtEnd, KeyBeforeBody, AnswerTells

\* A step beside the handler changes neither its call nor the settings.
LEMMA IntakeFrame ==
  ASSUME IntakeInv, UNCHANGED intakeVars, UNCHANGED settings
  PROVE  IntakeInv'
BY DEF IntakeInv, intakeVars, BytesTaken, StoredAtEnd, KeyBeforeBody, AnswerTells

\* Every step keeps the invariant.
LEMMA NextInv ==
  ASSUME IInv, [Next]_vars
  PROVE  IInv'
<1>1. IntakeInv /\ IdentityInv
  BY DEF IInv
<1>2. CASE IdentityNext /\ UNCHANGED intakeVars
  <2>1. UNCHANGED settings
    BY <1>2 DEF IdentityNext, Tick, StepClock, ChangeGroups, SignIn, Judge, Forward,
                Direct, Send
  <2> QED BY <1>1, <1>2, <2>1, IdentityStep, IntakeFrame DEF IInv
<1>3. CASE \E post \in Posts : Receive(post)
  <2>1. UNCHANGED identityVars
    BY <1>3 DEF Receive
  <2> QED BY <1>1, <1>3, <2>1, IdentityStep, ReceiveStep DEF IInv
<1>4. CASE CheckKey \/ CheckLength \/ ReadChunk \/ Validate \/ Leave \/ Store
  <2>1. UNCHANGED identityVars
    BY <1>4 DEF CheckKey, CheckLength, ReadChunk, Validate, Leave, Store
  <2> QED
    BY <1>1, <1>4, <2>1, IdentityStep, KeyStep, BodyStep, LeaveStep, StoreStep DEF IInv
<1>5. CASE End
  BY <1>1, <1>5, IdentityStep, IntakeEndStep DEF End, IInv
<1>6. CASE UNCHANGED vars
  BY <1>1, <1>6, IdentityStep, IntakeFrame DEF vars, identityVars, IInv
<1> QED
  BY <1>2, <1>3, <1>4, <1>5, <1>6 DEF Next

-----------------------------------------------------------------------------
(***************************************************************************)
(* The theorems.                                                           *)
(***************************************************************************)
\* The invariant holds in every reachable state.
LEMMA Invariance == Spec => []IInv
<1>1. Init => IInv
  BY IdentityInit_Inv, IntakeInit_Inv DEF Init, IInv
<1>2. IInv /\ [Next]_vars => IInv'
  BY NextInv
<1> QED BY <1>1, <1>2, PTL DEF Spec

\* Settings, clocks, tokens, the request and the intake's call keep their types,
\* for any groups, settings, calls and deliveries.
THEOREM IntakeTypes ==
  Spec => [](request \in RequestType /\ session \in TokenType /\ intake \in IntakeType)
<1>1. IInv => request \in RequestType /\ session \in TokenType /\ intake \in IntakeType
  BY DEF IInv, IdentityInv, RequestInv, SessionInv, IntakeInv
<1> QED BY <1>1, Invariance, PTL

\* A request that the outpost let through is not refused what its token grants,
\* for any mount and any clocks within the skew (GenuineServed).
THEOREM GenuineAreServed == Spec => []GenuineServed
<1>1. IInv => GenuineServed
  BY DEF IInv, IdentityInv, RequestInv
<1> QED BY <1>1, Invariance, PTL

\* No handler is reached without the role it needs, whatever the path and the
\* mount (HandlersGuarded).
THEOREM HandlersAreGuarded == Spec => []HandlersGuarded
<1>1. IInv => HandlersGuarded
  BY DEF IInv, IdentityInv, RequestInv
<1> QED BY <1>1, Invariance, PTL

\* What a role rests on is a token of a time when the person was in its group, and
\* such a token is accepted for a bounded time (RevokedInTime).
LEMMA RevokedStep ==
  ASSUME IInv, [Next]_vars, request' # request, OnItsWay, request'.role # "nobody"
  PROVE  now - lastIn[Granting(request'.role)] < Lifetime + Leeway + MaxSkew
<1>1. ClockInv /\ RequestInv
  BY DEF IInv, IdentityInv
<1>2. Judge
  <2>1. ~EndRequest
    BY DEF EndRequest, NoRequest
  <2>2. request.pc # "none"
    BY DEF OnItsWay
  <2> QED
    BY <2>1, <2>2 DEF Next, IdentityNext, Tick, StepClock, ChangeGroups, SignIn, Forward,
       Direct, Send, Quiet, Receive, CheckKey, CheckLength, ReadChunk, Validate, Leave,
       Store, End, vars, identityVars
<1> DEFINE role == Authenticate(request.token)
<1>3. role \in {"nobody", "Viewer", "Admin"}
  BY RoleOf
<1>4. request \in RequestType /\ request.answer = "none" /\ request.role = "nobody"
  BY <1>1 DEF OnItsWay, RequestInv, SentInv
<1>5. request' = Judged(RoutePath(request.call.path), role)
  BY <1>2 DEF Judge, Judgement
<1>6. role # "nobody" =>
        /\ Verified(request.token) /\ request.token.flaw \notin {"broken", "nameless"}
        /\ Granting(role) \in request.token.groups
  BY RoleOf
<1> HIDE DEF role
<1>7. request'.role = role /\ role # "nobody"
  BY <1>1, <1>3, <1>4, <1>5, JudgedGuarded
<1> DEFINE group == Granting(role)
<1>8. request.token \in TokenType /\ request.token.flaw = "none"
  BY <1>4, <1>6, <1>7 DEF RequestType, TokenType, Flaws
<1>9. request.token.exp > now - MaxSkew - Leeway
  BY <1>1, <1>6, <1>7, VerifiedInTime
<1>10. group \in request.token.groups /\ group \in AllGroups
  BY <1>6, <1>7, <1>8 DEF TokenType
<1>11. /\ request.token.exp <= request.token.iat + Lifetime
       /\ lastIn[group] >= request.token.iat
  BY <1>1, <1>8, <1>10 DEF RequestInv, Sound
<1>12. /\ lastIn[group] \in Int /\ now \in Int
       /\ request.token.exp \in Int /\ request.token.iat \in Int
       /\ Lifetime \in Int /\ Leeway \in Int /\ MaxSkew \in Int
  BY <1>1, <1>8, <1>10, IdentityAssumption DEF ClockInv, TokenType
<1> HIDE DEF group
<1>13. now - lastIn[group] < Lifetime + Leeway + MaxSkew
  BY <1>9, <1>11, <1>12
<1> QED BY <1>7, <1>13 DEF group

\* Whoever leaves a group loses its role within the life of a token and the
\* allowance for the clocks, for any lifetime, leeway and skew (RevokedInTime).
THEOREM RevocationIsBounded == Spec => RevokedInTime
<1>1. IInv /\ [Next]_vars =>
        [(OnItsWay /\ request'.role # "nobody")
            => now - lastIn[Granting(request'.role)] < Lifetime + Leeway + MaxSkew]_request
  BY RevokedStep
<1> QED BY <1>1, Invariance, PTL DEF Spec, RevokedInTime

\* The key is judged before a byte is read, and the cap bounds what is read, for
\* deliveries, chunks and caps of any size (KeyBeforeBody).
THEOREM KeyComesFirst == Spec => []KeyBeforeBody
<1>1. IInv => KeyBeforeBody
  BY DEF IInv, IntakeInv
<1> QED BY <1>1, Invariance, PTL

\* What the collector is told is what was stored (AnswerTells).
THEOREM AnswersAreTrue == Spec => []AnswerTells
<1>1. IInv => AnswerTells
  BY DEF IInv, IntakeInv
<1> QED BY <1>1, Invariance, PTL
==============================================================================
