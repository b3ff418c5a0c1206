----------------------------- MODULE NGINXPolicies -----------------------------
(***************************************************************************)
(* The NGINX handlers that attach policies to routes, services and         *)
(* listeners, and those that only report that a setting has no counterpart.*)
(***************************************************************************)
EXTENDS NGINXRoutes

CONSTANT WAFPlaceholder   \* "<AZURE_WAF_POLICY_ARM_ID>"

-----------------------------------------------------------------------------
(* Handlers that register an issue and set a status, by file.                *)

AuthTLSNotices ==
  { [key |-> "auth-tls-verify-depth", issue |-> "NGINXAuthTLSNotFullySupported", then |-> Warning],
    [key |-> "auth-tls-error-page", issue |-> "NGINXAuthTLSNotFullySupported", then |-> NotSupported],
    [key |-> "auth-tls-pass-certificate-to-upstream", issue |-> "NGINXAuthTLSNotFullySupported",
     then |-> NotSupported] }

AffinityNotices ==
  { [key |-> "affinity-canary-behavior", issue |-> "NGINXAffinityCanaryBehaviorNotSupported",
     then |-> NotSupported] } \union
  [ key : {"affinity-mode", "session-cookie-name", "session-cookie-path", "session-cookie-samesite"},
    issue : {"NGINXAffinityModeNotSupported"}, then : {Warning} ]

SnippetNotices ==
  [ key : {"custom-headers", "configuration-snippet"},
    issue : {"NGINXConfigurationSnippetNotSupported"}, then : {NotSupported} ] \union
  { [key |-> "server-snippet", issue |-> "NGINXServerSnippetNotSupported", then |-> NotSupported] }

DefaultBackendNotices ==
  { [key |-> "default-backend", issue |-> "NGINXDefaultBackendNotSupported", then |-> NotSupported] }

WAFNotices ==
  { [key |-> "modsecurity-snippet", issue |-> "NGINXModSecurityConversion", then |-> NotSupported],
    [key |-> "modsecurity-transaction-id", issue |-> "NGINXModSecurityTransactionID",
     then |-> Warning] }

TimeoutNotices ==
  [ key : {"proxy-connect-timeout", "proxy-send-timeout"},
    issue : {"NGINXProxySettingsPartialSupport"}, then : {Warning} ]

BufferNotices ==
  [ key : {"proxy-body-size", "proxy-buffering"},
    issue : {"NGINXProxySettingsPartialSupport"}, then : {NotSupported} ]

CipherNotices ==
  { [key |-> "ssl-prefer-server-ciphers", issue |-> "NGINXSSLPolicyConversion", then |-> Warning] }

CookieNotices ==
  { [key |-> "canary-by-cookie", issue |-> "NGINXCanaryByCookieNotSupported", then |-> NotSupported] }

Notices ==
  UNION {AuthTLSNotices, AffinityNotices, SnippetNotices, DefaultBackendNotices, WAFNotices,
         TimeoutNotices, BufferNotices, CipherNotices, CookieNotices}

handleNotice(n) ==
  /\ n \in Notices
  /\ Notice(n.key, SetStatus(RegisterIssue(Anno(n.key), n.issue), n.then), FALSE)

handleLoadBalance ==
  LET k == "load-balance" IN
  /\ Take(k)
  /\ Notice(k, IF Value(k) = "round_robin" THEN SetStatus(Anno(k), Ignored)
               ELSE SetStatus(RegisterIssue(Anno(k), "NGINXLoadBalanceNotSupported"), NotSupported),
            FALSE)

-----------------------------------------------------------------------------
(* TLS settings of the listeners the current route hangs on.                 *)

ListenerKeys == {"auth-tls-secret", "auth-tls-verify-client", "ssl-ciphers"}

NewFrontendTLS == [type |-> "none", verify |-> FALSE, ca |-> NoSecret]

FrontendTLS(s) == IF s \in DOMAIN frontendTLS THEN frontendTLS[s] ELSE NewFrontendTLS

Listeners == ParentHTTPSListeners(ThisRoute)

(* The handler of k leaves the listeners with these settings.               *)
SetFrontendTLS(k, settings, a) ==
  /\ Take(k)
  /\ Listeners # {}
  /\ frontendTLS' = settings
  /\ Finish(k, a, FALSE)
  /\ UNCHANGED <<graphVars, routePolicies, routeWAF, healthPolicies, backendTLS>>

AtListeners(k) ==
  AddDestinations(Anno(k), {Resource("FrontendTLSPolicy", s) : s \in Listeners})

NoListeners(k) ==
  /\ k \in ListenerKeys
  /\ Take(k)
  /\ Listeners = {}
  /\ Notice(k, RegisterIssue(Anno(k), "NoHTTPSListenersForSSLProfile"), FALSE)

(* A secret without namespace is in that of the Ingress.                    *)
CASecret(nn, ref) == IF ref.ns = NoNamespace THEN [ref EXCEPT !.ns = nn.ns] ELSE ref

(* Seeded fault: the CA certificate of a listener that has one stays.       *)
handleAuthTLSSecretFirstWins ==
  LET k == "auth-tls-secret" IN
  /\ Take(k)
  /\ SetFrontendTLS(k, [s \in DOMAIN frontendTLS \union Listeners |->
       IF s \in Listeners /\ FrontendTLS(s).ca = NoSecret
         THEN [FrontendTLS(s) EXCEPT !.verify = TRUE, !.ca = CASecret(cur, Value(k))]
         ELSE FrontendTLS(s)],
       RegisterIssue(AtListeners(k), "NGINXAuthTLSNotFullySupported"))

(* The CA certificate a listener has already is replaced.                   *)
handleAuthTLSSecret ==
  LET k == "auth-tls-secret" IN
  /\ Take(k)
  /\ SetFrontendTLS(k, [s \in DOMAIN frontendTLS \union Listeners |->
       IF s \in Listeners
         THEN [FrontendTLS(s) EXCEPT !.verify = TRUE, !.ca = CASecret(cur, Value(k))]
         ELSE FrontendTLS(s)],
       RegisterIssue(AtListeners(k), "NGINXAuthTLSNotFullySupported"))

(* With "optional_no_ca" the status stays Warning: it is set first.         *)
NoClientVerification ==
  LET k == "auth-tls-verify-client" IN
  /\ Take(k)
  /\ Listeners # {}
  /\ \/ Value(k) = "off" /\ Notice(k, Succeeded(k), FALSE)
     \/ /\ Value(k) = "optional_no_ca"
        /\ Notice(k, SetStatus(RegisterIssue(Anno(k), "NGINXAuthTLSNotFullySupported"),
                               NotSupported), FALSE)
     \/ /\ Value(k) \notin {"on", "optional", "off", "optional_no_ca"}
        /\ Notice(k, Rejected(k), TRUE)

handleAuthTLSVerifyClient ==
  LET k == "auth-tls-verify-client" IN
  /\ Take(k)
  /\ Value(k) \in {"on", "optional"}
  /\ SetFrontendTLS(k, [s \in DOMAIN frontendTLS \union Listeners |->
       IF s \in Listeners THEN [FrontendTLS(s) EXCEPT !.verify = TRUE] ELSE FrontendTLS(s)],
       RegisterIssue(AtListeners(k), "NGINXAuthTLSNotFullySupported"))

(* The value is not looked at; a policy type that is set stays.             *)
handleSSLCiphers ==
  LET k == "ssl-ciphers" IN
  /\ Take(k)
  /\ SetFrontendTLS(k, [s \in DOMAIN frontendTLS \union Listeners |->
       IF s \in Listeners /\ FrontendTLS(s).type = "none"
         THEN [FrontendTLS(s) EXCEPT !.type = "2023-06"] ELSE FrontendTLS(s)],
       SetStatus(RegisterIssue(AtListeners(k), "NGINXSSLPolicyConversion"), Warning))

-----------------------------------------------------------------------------
(* Policies of the current route.                                            *)

DurationKeys == {"session-cookie-expires", "session-cookie-max-age"}

(* The handler of k leaves the route with this policy.                      *)
SetRoutePolicy(k, policy) ==
  /\ Take(k)
  /\ routePolicies' = InsertAt(routePolicies, ThisRoute.nn, policy)
  /\ Finish(k, AddDestination(Anno(k), Resource("RoutePolicy", ThisRoute.nn)), FALSE)
  /\ UNCHANGED <<graphVars, routeWAF, healthPolicies, backendTLS, frontendTLS>>

InvalidPolicySetting(k) ==
  /\ k \in DurationKeys \union {"proxy-read-timeout"}
  /\ Take(k)
  /\ Value(k) = Invalid
  /\ Notice(k, Rejected(k), TRUE)

OtherAffinity ==
  LET k == "affinity" IN
  /\ Take(k)
  /\ Value(k) # "cookie"
  /\ Notice(k, RegisterIssue(Anno(k), "NGINXAffinityTypeNotSupported"), FALSE)

(* The SessionAffinity a route has already is replaced, with its duration.  *)
handleAffinity ==
  LET k == "affinity" IN
  /\ Take(k)
  /\ Value(k) = "cookie"
  /\ SetRoutePolicy(k, [RoutePolicy(ThisRoute.nn) EXCEPT !.affinity = TRUE, !.duration = Unset])

(* handleSessionCookieMaxAge hands over to handleSessionCookieExpires.      *)
handleSessionCookieExpires(k) ==
  /\ k \in DurationKeys
  /\ Take(k)
  /\ Value(k) # Invalid
  /\ SetRoutePolicy(k, [RoutePolicy(ThisRoute.nn) EXCEPT !.affinity = TRUE, !.duration = Value(k)])

(* Seeded fault: a fresh policy replaces the one the route has.             *)
handleProxyReadTimeoutFresh ==
  LET k == "proxy-read-timeout" IN
  /\ Take(k)
  /\ Value(k) # Invalid
  /\ SetRoutePolicy(k, [NewRoutePolicy EXCEPT !.timeout = Value(k)])

handleProxyReadTimeout ==
  LET k == "proxy-read-timeout" IN
  /\ Take(k)
  /\ Value(k) # Invalid
  /\ SetRoutePolicy(k, [RoutePolicy(ThisRoute.nn) EXCEPT !.timeout = Value(k)])

WAFKeys == {"enable-modsecurity", "enable-owasp-core-rules"}

NoWAFWanted(k) ==
  /\ k \in WAFKeys
  /\ Take(k)
  /\ \/ Value(k) = Invalid /\ Notice(k, Rejected(k), TRUE)
     \/ Value(k) = "false" /\ Notice(k, Succeeded(k), FALSE)

(* Seeded fault: core rules are left to the annotation that enables the WAF.*)
handleWAFModSecurityOnly(k) ==
  /\ k \in WAFKeys
  /\ Take(k)
  /\ Value(k) = "true"
  /\ routeWAF' = IF k = "enable-modsecurity"
                   THEN InsertAt(routeWAF, ThisRoute.nn, WAFPlaceholder) ELSE routeWAF
  /\ Finish(k, SetStatus(AddDestination(RegisterIssue(Anno(k), "NGINXModSecurityConversion"),
                                        Resource("WAFPolicy", ThisRoute.nn)), Warning), FALSE)
  /\ UNCHANGED <<graphVars, routePolicies, healthPolicies, backendTLS, frontendTLS>>

(* enable-modsecurity writes the placeholder, enable-owasp-core-rules only  *)
(* where there is no ID; no other ID ever gets there.                       *)
handleWAF(k) ==
  /\ k \in WAFKeys
  /\ Take(k)
  /\ Value(k) = "true"
  /\ routeWAF' = InsertAt(routeWAF, ThisRoute.nn,
       IF k = "enable-owasp-core-rules" /\ ThisRoute.nn \in DOMAIN routeWAF
         THEN routeWAF[ThisRoute.nn] ELSE WAFPlaceholder)
  /\ Finish(k, SetStatus(AddDestination(RegisterIssue(Anno(k), "NGINXModSecurityConversion"),
                                        Resource("WAFPolicy", ThisRoute.nn)), Warning), FALSE)
  /\ UNCHANGED <<graphVars, routePolicies, healthPolicies, backendTLS, frontendTLS>>

-----------------------------------------------------------------------------
(* BackendTLSPolicies.                                                       *)

OtherProtocol ==
  LET k == "backend-protocol" IN
  /\ Take(k)
  /\ \/ Value(k) = "http" /\ Notice(k, Succeeded(k), FALSE)
     \/ /\ Value(k) = "grpc"
        /\ Notice(k, SetStatus(RegisterIssue(Anno(k), "GRPCNotSupportedByTool"), Completed), FALSE)
     \/ /\ Value(k) \notin {"http", "https", "grpc", "grpcs"}
        /\ Notice(k, RegisterIssue(SetStatus(Anno(k), Error), "UnsupportBackendProtocol"), TRUE)

(* Seeded fault: without a service there is nothing to report.              *)
handleBackendProtocolNoError ==
  LET k == "backend-protocol"  svcs == Services(ThisRoute)
      a == IF Value(k) = "grpcs" THEN RegisterIssue(Anno(k), "GRPCNotSupportedByTool") ELSE Anno(k)
  IN
  /\ Take(k)
  /\ Value(k) \in {"https", "grpcs"}
  /\ backendTLS' = [s \in DOMAIN backendTLS \union svcs |->
       BackendTLSPorts(s) \union (IF s \in svcs THEN {FirstPort(ThisRoute, s)} ELSE {})]
  /\ Finish(k, IF svcs = {}
                 THEN RegisterIssue(SetStatus(a, Error), "CreatingBackendTLSPolicy")
                 ELSE SetStatus(AddDestinations(a, {Resource("BackendTLSPolicy", s) : s \in svcs}),
                                Completed),
            FALSE)
  /\ UNCHANGED <<graphVars, routePolicies, routeWAF, healthPolicies, frontendTLS>>

handleBackendProtocol ==
  LET k == "backend-protocol"  svcs == Services(ThisRoute)
      a == IF Value(k) = "grpcs" THEN RegisterIssue(Anno(k), "GRPCNotSupportedByTool") ELSE Anno(k)
  IN
  /\ Take(k)
  /\ Value(k) \in {"https", "grpcs"}
  /\ backendTLS' = [s \in DOMAIN backendTLS \union svcs |->
       BackendTLSPorts(s) \union (IF s \in svcs THEN {FirstPort(ThisRoute, s)} ELSE {})]
  /\ Finish(k, IF svcs = {}
                 THEN RegisterIssue(SetStatus(a, Error), "CreatingBackendTLSPolicy")
                 ELSE SetStatus(AddDestinations(a, {Resource("BackendTLSPolicy", s) : s \in svcs}),
                                Completed),
            svcs = {})
  /\ UNCHANGED <<graphVars, routePolicies, routeWAF, healthPolicies, frontendTLS>>

-----------------------------------------------------------------------------

PolicyHandler ==
  \/ \E n \in Notices : handleNotice(n)
  \/ handleLoadBalance
  \/ \E k \in pending : NoListeners(k)
  \/ handleAuthTLSSecret
  \/ NoClientVerification
  \/ handleAuthTLSVerifyClient
  \/ handleSSLCiphers
  \/ \E k \in pending : InvalidPolicySetting(k)
  \/ OtherAffinity
  \/ handleAffinity
  \/ \E k \in pending : handleSessionCookieExpires(k)
  \/ handleProxyReadTimeout
  \/ \E k \in pending : NoWAFWanted(k)
  \/ \E k \in pending : handleWAF(k)
  \/ OtherProtocol
  \/ handleBackendProtocol
=============================================================================
