------------------------------ MODULE OfficerAuth ------------------------------
(***************************************************************************)
(* Which settings the service starts with (config.js, helpers/convict,     *)
(* auth/auth.js, auth/require-role.js) and which bearer tokens its         *)
(* protected routes then accept (auth/entra-bearer-scheme.js).             *)
(*                                                                         *)
(* A setting is a record of what the start-up checks look at, a token a    *)
(* record of what is true of it; checking a signature is the jose library. *)
(***************************************************************************)
EXTENDS Integers

\* All the tiers but the developer's machine.
CdpEnvironment == {"local", "deployed"}

\* tenant: the issuer and its keys are known, directly or through the tenant;
\* otherwise the issuer derived from the empty tenant id is nobody's.
AuthSettings == [mode : {"unset", "mock", "live"}, tenant : BOOLEAN, audience : BOOLEAN,
                 scope : BOOLEAN, roles : SUBSET STRING]

\* maxSends: the limits per email, per journey and for the service.
LinkSettings == [baseUrl : {"", "https", "http", "not an origin"},
                 linkTtl : Int, verifiedTtl : Int, retention : Int, resendCooldown : Int,
                 maxSends : [{"email", "journey", "global"} -> Int]]

Settings == [tier : CdpEnvironment, auth : AuthSettings, emailVerification : LinkSettings,
             referencePrefix : {"well formed", "malformed"}, maxPageSize : Int, maxRows : Int]

\* auth.mode: mock by default on the local tier only.
AuthMode(s) ==
    IF s.auth.mode # "unset" THEN s.auth.mode ELSE IF s.tier = "local" THEN "mock" ELSE "live"

\* What goes wrong if the auth plugin does not look at the tier.
MockAnywhere(s) == TRUE

\* auth.js: unverified tokens on a developer's machine only.
ModeAllowed(s) == AuthMode(s) = "mock" => s.tier = "local"

\* validateLinkBaseUrl
LinkBaseUrlAllowed(s) ==
    \/ s.emailVerification.baseUrl \in {"", "https"}
    \/ s.emailVerification.baseUrl = "http" /\ s.tier = "local"

\* validateRetention
RetentionAllowed(s) ==
    LET v == s.emailVerification IN v.retention >= v.linkTtl + v.verifiedTtl

\* requireRole
RolesAllowed(s) == s.auth.roles # {}

PositiveInt(n) == n >= 1

\* The settings that have the format of a positive integer.
Numbers(s) ==
    LET v == s.emailVerification
    IN  {v.linkTtl, v.verifiedTtl, v.retention, v.resendCooldown, s.maxPageSize, s.maxRows}
        \cup {v.maxSends[k] : k \in DOMAIN v.maxSends}

\* config.validate, validateEmailVerificationConfig, requireRole and the plugin:
\* the service does not start unless all of them pass.
StartupAllowed(s) ==
    /\ \A n \in Numbers(s) : PositiveInt(n)
    /\ s.referencePrefix = "well formed"
    /\ LinkBaseUrlAllowed(s)
    /\ RetentionAllowed(s)
    /\ RolesAllowed(s)
    /\ ModeAllowed(s)

-----------------------------------------------------------------------------
Token == [presented : BOOLEAN, decodable : BOOLEAN, signed : BOOLEAN, issuer : BOOLEAN,
          audience : BOOLEAN, fresh : BOOLEAN, scope : BOOLEAN, roles : SUBSET STRING]

\* jwtVerify, which is not asked to when there is no audience to check.
Verified(s, t) ==
    /\ s.auth.tenant /\ s.auth.audience
    /\ t.signed /\ t.issuer /\ t.audience /\ t.fresh

\* decodeJwt in mock mode.
Accepted(s, t) ==
    t.presented /\ t.decodable /\ (AuthMode(s) = "live" => Verified(s, t))

\* authenticate and the scope check of the route: 401, 403 or through.
Admission(s, t) ==
    IF ~Accepted(s, t) THEN 401
    ELSE IF s.auth.scope /\ ~t.scope THEN 403
    ELSE IF t.roles \cap s.auth.roles = {} THEN 403
    ELSE 200
=============================================================================
