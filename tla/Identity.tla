------------------------------ MODULE Identity ------------------------------
(***************************************************************************)
(* Who may reach what (app/middleware/authentik.py): one person's session  *)
(* at Authentik, the requests that reach the portal, and the middleware    *)
(* that judges each by its signed token and its path.                      *)
(*                                                                         *)
(* `now' is Authentik's clock; the portal's is `ahead' ticks from it, and  *)
(* either can be stepped while a token lives.  A path is the sequence of   *)
(* its segments, so "/admin/x" is <<"admin", "x">>, "/admin/" ends in an   *)
(* empty segment and a prefix is always one of whole segments.             *)
(***************************************************************************)
EXTENDS Integers, Sequences, SequencesExt

CONSTANTS
    AllGroups,    \* the groups of Authentik
    SettingsRead, \* what the environment can hold, see SettingsOK
    NoKey,        \* no intake key is configured
    MinSecret,    \* MIN_JWT_SECRET_LENGTH
    MinKey,       \* MIN_INTAKE_KEY_LENGTH
    Calls,        \* what is asked for: [type, method, path], below the mount
                  \* (lifespan is RefreshJobs' start and stop)
    Lifetime,     \* ticks from iat to exp, the session's access token validity
    Leeway,       \* JWT_LEEWAY_SECONDS
    MaxSkew,      \* how far the clocks are apart, at most
    MaxTransit,   \* from the outpost to the middleware, at most
    MaxNow        \* bound: ticks

ASSUME IdentityAssumption ==
    /\ Lifetime \in Nat \ {0} /\ MaxNow \in Nat
    /\ Leeway \in Nat /\ MaxSkew \in Nat /\ MaxTransit \in Nat
    /\ Calls \subseteq [type : STRING, method : STRING, path : Seq(STRING)]
    /\ \A s \in SettingsRead : s.root \in Seq(STRING)
    \* The clocks are "well under" the leeway apart.
    /\ MaxSkew + MaxTransit <= Leeway

VARIABLES
    settings,  \* read once, at startup; `root' is where a proxy mounts the
               \* application
    now, ahead,
    groups,    \* the groups the person is in
    session,   \* the token of the session at Authentik
    request,   \* the one on its way, or the last that was judged
    lastIn     \* auxiliary: when the person was last in each group

identityVars == <<settings, now, ahead, groups, session, request, lastIn>>
clockVars    == <<now, ahead, lastIn>>

Long == -(Lifetime + Leeway + MaxSkew)  \* so long ago that it does not matter

\* A token is "broken" when it is missing or malformed, signed otherwise, of
\* another issuer or audience, or lacks a claim; "nameless" when it verifies but
\* has no name, or groups that are not a list.
Flaws   == {"none", "broken", "nameless"}
NoToken == [flaw |-> "broken", iat |-> 0, exp |-> 0, groups |-> {}]

NoRequest == [pc |-> "none", call |-> [type |-> "none", method |-> "none", path |-> <<>>],
              token |-> NoToken, genuine |-> FALSE, at |-> 0,
              answer |-> "none", role |-> "nobody", handler |-> "none"]

-----------------------------------------------------------------------------
(***************************************************************************)
(* Startup.                                                                *)
(***************************************************************************)

\* A secret is [text, length, plain].  `plain' says of the sign-in secret that it
\* has no surrounding whitespace and is not the placeholder, of the intake key
\* that it is printable ASCII.
SecretOK(secret) == secret.plain /\ secret.length >= MinSecret

\* The key is optional and never the sign-in secret, which signs tokens.
KeyOK(key, secret) ==
    key # NoKey => key.plain /\ key.length >= MinKey /\ key.text # secret.text

\* With anything else the process exits.
SettingsOK(s) == SecretOK(s.jwt) /\ KeyOK(s.key, s.jwt) /\ s.admin # s.viewer

IdentityInit ==
    /\ settings \in {s \in SettingsRead : SettingsOK(s)}
    /\ now = 0 /\ ahead = 0
    /\ groups = {}
    /\ session = NoToken
    /\ request = NoRequest
    /\ lastIn = [g \in AllGroups |-> Long]

-----------------------------------------------------------------------------
(***************************************************************************)
(* The judgement of one request.                                           *)
(***************************************************************************)
PortalNow == now + ahead

\* The router matches what is left of a path below the mount (Starlette).
Routed(path) ==
    IF IsPrefix(settings.root, path)
    THEN SubSeq(path, Len(settings.root) + 1, Len(path)) ELSE path

\* Mutated form: the whole path is judged.
RoutePathRaw(path) == path

\* _route_path mirrors the router's rule.
RoutePath(path) ==
    IF IsPrefix(settings.root, path)
    THEN SubSeq(path, Len(settings.root) + 1, Len(path)) ELSE path

IsPublic(path) == path = <<"health">> \/ (Len(path) > 1 /\ path[1] = "static")

IsIntakeRequest(method, path) == method = "POST" /\ path = <<"api", "v1", "balances">>

IsAdminPath(path) == Len(path) > 0 /\ path[1] = "admin"

\* Mutated form: no allowance for the difference of the clocks.
VerifiedExactly(token) ==
    /\ token.flaw # "broken"
    /\ token.exp > PortalNow
    /\ token.iat <= PortalNow

\* Mutated form: exp is required but not compared.
VerifiedUnexpired(token) == token.flaw # "broken" /\ token.iat <= PortalNow + Leeway

\* validate_authentik_jwt
Verified(token) ==
    /\ token.flaw # "broken"
    /\ token.exp > PortalNow - Leeway
    /\ token.iat <= PortalNow + Leeway

RoleFromGroups(names) ==
    IF settings.admin \in names THEN "Admin"
    ELSE IF settings.viewer \in names THEN "Viewer"
    ELSE "nobody"

\* authenticate, with principal_from_claims: the role, or "nobody".
Authenticate(token) ==
    IF Verified(token) /\ token.flaw # "nameless" THEN RoleFromGroups(token.groups)
                                                    ELSE "nobody"

\* Which handler the application's router gives a request.
Handler(method, path) ==
    IF path = <<"health">> THEN "health"
    ELSE IF Len(path) > 1 /\ path[1] = "static" THEN "static"
    ELSE IF path = <<"api", "v1", "balances">> THEN
         (IF method = "POST" THEN "intake" ELSE "none")
    ELSE IF Len(path) > 1 /\ path[1] = "admin" THEN "admin"
    ELSE IF path \in {<<"">>, <<"finances">>} THEN "page"
    ELSE "none"

Passed(role) ==
    [request EXCEPT !.pc = "judged", !.answer = "passed", !.role = role,
        !.handler = Handler(request.call.method, Routed(request.call.path))]

Refused(answer) == [request EXCEPT !.pc = "judged", !.answer = answer]

\* AuthentikAuthMiddleware.__call__
Judged(path, role) ==
    IF request.call.type # "http" THEN Refused("closed")
    ELSE IF IsPublic(path) \/ IsIntakeRequest(request.call.method, path)
    THEN Passed("nobody")
    ELSE IF role = "nobody" \/ (IsAdminPath(path) /\ role # "Admin")
    THEN Refused("denied")
    ELSE Passed(role)

Judgement == Judged(RoutePath(request.call.path), Authenticate(request.token))

-----------------------------------------------------------------------------
(***************************************************************************)
(* Authentik, the outpost and the other containers on the network.         *)
(***************************************************************************)
OnItsWay == request.pc = "sent"

\* One request is followed at a time, for they share nothing: a token on its way
\* does not change, and what follows the judgement reads no clock.
Quiet == request.pc = "none"

\* Time passes on both hosts; a forwarded request is not held up for long.
Tick ==
    /\ request.pc # "judged"
    /\ now < MaxNow
    /\ OnItsWay => now - request.at < MaxTransit
    /\ now' = now + 1
    /\ lastIn' = [g \in AllGroups |-> IF g \in groups THEN now + 1 ELSE lastIn[g]]
    /\ UNCHANGED <<settings, ahead, groups, session, request>>

\* NTP steps a clock.
StepClock ==
    /\ request.pc # "judged"
    /\ ahead' \in (-MaxSkew .. MaxSkew) \ {ahead}
    /\ UNCHANGED <<settings, now, groups, session, request, lastIn>>

\* Somebody changes the person's groups; tokens in use keep the old ones.
ChangeGroups ==
    /\ Quiet
    /\ groups' \in (SUBSET AllGroups) \ {groups}
    /\ lastIn' = [g \in AllGroups |-> IF g \in groups' THEN now ELSE lastIn[g]]
    /\ UNCHANGED <<settings, now, ahead, session, request>>

SignIn ==
    /\ Quiet
    /\ now >= session.exp
    /\ session' = [flaw |-> "none", iat |-> now, exp |-> now + Lifetime, groups |-> groups]
    /\ UNCHANGED <<settings, clockVars, ahead, groups, request>>

Send(call, token, genuine) ==
    /\ Quiet
    /\ request' = [NoRequest EXCEPT !.pc = "sent", !.at = now, !.token = token,
                       !.genuine = genuine,
                       !.call = [call EXCEPT !.path = settings.root \o @]]
    /\ UNCHANGED <<settings, clockVars, ahead, groups, session>>

\* The outpost lets a request pass while the session's token lives.
Forward(call) == now < session.exp /\ Send(call, session, TRUE)

\* Anything else on the network, with a token that is broken, names nobody or
\* comes late.
Direct(call) ==
    \/ \E flaw \in Flaws \ {"none"} :
          Send(call, [flaw |-> flaw, iat |-> now, exp |-> now + Lifetime,
                      groups |-> AllGroups], FALSE)
    \/ session # NoToken /\ now >= session.exp /\ Send(call, session, FALSE)

Judge ==
    /\ OnItsWay
    /\ request' = Judgement
    /\ UNCHANGED <<settings, clockVars, ahead, groups, session>>

\* The handler, if there is one, has answered.
EndRequest ==
    /\ request' = NoRequest
    /\ UNCHANGED <<settings, clockVars, ahead, groups, session>>

IdentityNext ==
    \/ Tick \/ StepClock \/ ChangeGroups \/ SignIn \/ Judge
    \/ \E call \in Calls : Forward(call) \/ Direct(call)

-----------------------------------------------------------------------------
Granting(role) == IF role = "Admin" THEN settings.admin ELSE settings.viewer

\* Whoever is taken out of a group loses what it grants within the life of a
\* token and the allowance for the clocks, however often they are stepped and
\* whatever old token comes back (validate_authentik_jwt).
RevokedInTime ==
    [][(OnItsWay /\ request'.role # "nobody")
          => now - lastIn[Granting(request'.role)] < Lifetime + Leeway + MaxSkew]_request

\* Which handlers a role opens.
Grants(role, handler) ==
    \/ handler \in {"health", "static", "intake"}
    \/ handler = "page" /\ role # "nobody"
    \/ handler = "admin" /\ role = "Admin"

\* A request that the outpost let through is not refused when the token grants
\* what it asks for: neither the way, nor the difference of the clocks, nor the
\* mount can make the portal refuse it (JWT_LEEWAY_SECONDS, _route_path).
GenuineServed ==
    (/\ request.pc = "judged" /\ request.genuine /\ request.call.type = "http"
     /\ Grants(RoleFromGroups(request.token.groups),
               Handler(request.call.method, Routed(request.call.path))))
        => request.answer = "passed"

\* What the router then runs is guarded by the role it needs, under any mount:
\* without an identity only the probe, static files and the intake are reached,
\* and admin handlers by an Admin only (AuthentikAuthMiddleware).
HandlersGuarded ==
    request.answer = "passed" =>
        /\ request.handler = "admin" => request.role = "Admin"
        /\ request.role = "nobody" => request.handler \in {"health", "static", "intake"}
        /\ request.call.type = "http"
=============================================================================
